------------------------ MODULE SecureChannelProofs ------------------------
(***************************************************************************)
(* Proofs about SecureChannel for every set of Regional Controllers, every *)
(* clock skew and tolerance, every number of retries, versions and         *)
(* verified messages between two cleanups, and every bound.                *)
(*                                                                         *)
(* The inductive invariant has three parts beside the types.  Numbered     *)
(* says how requests, calls and pending private keys are numbered: a       *)
(* signed request carries its own number as nonce, and an exchange that is *)
(* waited for is the one whose private key is pending.  Replay ties the    *)
(* nonces a history lists for the current epoch to those the               *)
(* authenticator remembers.  Agreement says that no key the Global         *)
(* Controller holds is older than one a Regional Controller uses, or than  *)
(* one that an answer under way will give it.                              *)
(***************************************************************************)
EXTENDS SecureChannel, FiniteSetTheorems, TLAPS

Auths    == [key : SUBSET Int, seen : SUBSET Int, count : Nat]
Sigs     == [key : SUBSET Int, nonce : Int, at : Int]
Requests == [from : Regionals, kind : {"msg", "init"}, id : Nat, sig : Sigs,
             copy : BOOLEAN]
Answers  == [to : Regionals, code : {"error", "ok", "key"}, sig : Sigs, public : Nat]
Calls    == [kind : {"idle", "msg", "init"}, id : Nat, left : Nat]

Typed ==
  /\ now \in Nat /\ serial \in 0 .. MaxSerial /\ epoch \in Nat
  /\ deployed \in {NoAuth, NewAuth(Configured(1))}
  /\ hosted \subseteq Regionals
  /\ auth \in [Controllers -> Auths]
  /\ keys \in [KeyIds -> SUBSET Int]
  /\ pending \in [Regionals -> Nat]
  /\ validated \in [Regionals -> BOOLEAN]
  /\ call \in [Regionals -> Calls]
  /\ net \subseteq Requests
  /\ answers \subseteq Answers
  /\ handled \in [1 .. MaxSerial -> Seq(Nat)]

\* A request has a number that was drawn, a signed one has it as its nonce, and
\* an exchange request that is still under way is older than the message its
\* sender waits for.
RequestsNumbered ==
  \A m \in net :
    /\ m.id \in 1 .. serial
    /\ m.sig.key # NoKey => m.sig.nonce = m.id
    /\ m.kind = "init" /\ call[m.from].kind = "msg" => m.id < call[m.from].id

\* A call has the numbers for its retries; an exchange is not retried and has the
\* number of the pending private key.
CallsNumbered ==
  \A r \in Regionals :
    /\ call[r].kind = "idle" => call[r] = Idle
    /\ call[r].kind # "idle" => call[r].id >= 1 /\ call[r].id + call[r].left <= serial
    /\ call[r].kind = "init" => call[r].left = 0 /\ call[r].id = pending[r]

Numbered == RequestsNumbered /\ CallsNumbered

\* No nonce was let through in an epoch to come, none twice in one epoch, and
\* those of this epoch are remembered.
Replay ==
  \A n \in 1 .. MaxSerial :
    /\ \A i \in DOMAIN handled[n] :
         /\ handled[n][i] <= epoch
         /\ handled[n][i] = epoch => n \in auth[Global].seen
    /\ \A i, j \in DOMAIN handled[n] : i < j => handled[n][i] < handled[n][j]

\* With n numbers drawn, the Global Controller holds no key, the key of the exchange
\* of i and j, or one that an exchange with a later number led to
UpToDate(held, i, j, n) ==
  \/ held = NoKey
  \/ held = {i, j}
  \/ \E a, b \in 1 .. n : a < b /\ j < b /\ held = {a, b}

OfExchange(key, n) == \E i, j \in 1 .. n : i < j /\ key = {i, j}

UsedAgrees(r) ==
  \/ auth[r].key = NoKey
  \/ \E g \in Nat : auth[r].key = Configured(g)
  \/ \E i, j \in 1 .. serial :
       i < j /\ auth[r].key = {i, j} /\ UpToDate(keys[KeyId(r)], i, j, serial)

AnswerAgrees(a) ==
  /\ call[a.to].kind = "init"
  /\ a.public \in 1 .. serial /\ pending[a.to] < a.public
  /\ UpToDate(keys[KeyId(a.to)], pending[a.to], a.public, serial)

Agreement ==
  /\ \A r \in Regionals :
       /\ UsedAgrees(r)
       /\ keys[KeyId(r)] = NoKey \/ OfExchange(keys[KeyId(r)], serial)
  /\ \A a \in answers : a.code = "key" => AnswerAgrees(a)

IInv == Typed /\ Numbered /\ Replay /\ Agreement

-----------------------------------------------------------------------------
(***************************************************************************)
(* Types                                                                   *)
(***************************************************************************)

\* The constants, one fact each
LEMMA Constants ==
  /\ Global \in Controllers /\ Global \notin Regionals /\ Regionals \subseteq Controllers
  /\ Skew \in [Controllers -> Int]
  /\ Tolerance \in Nat /\ MaxTime \in Nat /\ MaxEpoch \in Nat
  /\ ClearAfter \in Nat \ {0} /\ MaxRetries \in Nat \ {0} /\ MaxVersion \in Nat \ {0}
  /\ MaxGeneration \in Nat \ {0} /\ MaxSerial \in Nat \ {0}
BY ChannelAssumption DEF Controllers

\* Authenticators as they are made and as they record
LEMMA AuthTypes ==
  /\ \A key \in SUBSET Int : NewAuth(key) \in Auths /\ NewAuth(key).key = key
  /\ \A a \in Auths, n \in Int :
       /\ Recorded(a, n) \in Auths /\ Recorded(a, n).key = a.key
       /\ Forgets(a) \/ Recorded(a, n).seen = a.seen \cup {n}
  /\ NoAuth \in Auths /\ NoAuth.key = NoKey
  /\ NewAuth(Configured(1)) \in Auths
<1>1. Configured(1) \in SUBSET Int
  BY DEF Configured
<1>2. \A key \in SUBSET Int : NewAuth(key) \in Auths /\ NewAuth(key).key = key
  BY DEF NewAuth, Auths
<1>3. ASSUME NEW a \in Auths, NEW n \in Int
      PROVE  /\ Recorded(a, n) \in Auths /\ Recorded(a, n).key = a.key
             /\ Forgets(a) \/ Recorded(a, n).seen = a.seen \cup {n}
  <2>1. a.key \in SUBSET Int /\ a.seen \cup {n} \in SUBSET Int /\ a.count + 1 \in Nat
    BY DEF Auths
  <2>2. ASSUME NEW x \in SUBSET Int, NEW y \in Nat
        PROVE  /\ [a EXCEPT !.seen = x, !.count = y] \in Auths
               /\ [a EXCEPT !.seen = x, !.count = y].key = a.key
               /\ [a EXCEPT !.seen = x, !.count = y].seen = x
    BY DEF Auths
  <2> QED
    BY <1>2, <2>1, <2>2 DEF Recorded, Forgets
<1>4. NoAuth \in Auths /\ NoAuth.key = NoKey
  BY DEF NoAuth, NoKey, Auths
<1> QED
  BY <1>1, <1>2, <1>3, <1>4

\* What processes are deployed with is an authenticator, without a key or with the
\* configured one.
LEMMA DeployedTypes ==
  ASSUME Typed
  PROVE  /\ deployed \in Auths
         /\ deployed.key = NoKey \/ deployed.key = Configured(1)
<1>1. deployed = NoAuth \/ deployed = NewAuth(Configured(1))
  BY DEF Typed
<1>2. Configured(1) \in SUBSET Int
  BY DEF Configured
<1> QED
  BY <1>1, <1>2, AuthTypes

\* A signature is well formed, and has the nonce that was asked for.
LEMMA SignedTypes ==
  ASSUME Typed, NEW c \in Controllers, NEW n \in Int
  PROVE  /\ Signed(c, n) \in Sigs
         /\ Signed(c, n).key # NoKey => Signed(c, n).nonce = n
<1>1. auth[c].key \in SUBSET Int /\ Clock(c) \in Int
  BY Constants DEF Typed, Auths, Clock
<1> QED
  BY <1>1 DEF Signed, Unsigned, NoKey, Sigs

\* An unsigned request has no key.
LEMMA UnsignedTypes == Unsigned \in Sigs /\ Unsigned.key = NoKey
BY DEF Unsigned, NoKey, Sigs

\* A client that waits for nothing.
LEMMA IdleTypes == Idle \in Calls /\ Idle.kind = "idle" /\ Idle.id = 0
BY DEF Idle, Calls

\* Every Regional Controller has a key id of its own.
LEMMA KeyIdTypes ==
  /\ \A r \in Regionals : KeyId(r) \in KeyIds
  /\ \A r, s \in Regionals : KeyId(r) = KeyId(s) => r = s
BY Constants DEF KeyId, KeyIds

\* A posted request is well formed.
LEMMA PostTypes ==
  ASSUME Typed, NEW r \in Regionals, NEW kind \in {"msg", "init"}, NEW id \in Nat,
         NEW sig \in Sigs, Post(r, kind, id, sig)
  PROVE  net' \subseteq Requests
<1>1. [from |-> r, kind |-> kind, id |-> id, sig |-> sig, copy |-> FALSE] \in Requests
  BY DEF Requests
<1> QED
  BY <1>1 DEF Typed, Post

\* So is an answer.
LEMMA AnswerTypes ==
  ASSUME Typed, NEW m \in Requests, NEW code \in {"error", "ok", "key"}, NEW sig \in Sigs,
         NEW public \in Nat, Answer(m, code, sig, public)
  PROVE  answers' \subseteq Answers
BY DEF Typed, Answer, Answers, Requests

\* What is left of a request that is taken keeps its content.
LEMMA TakenKeeps ==
  ASSUME Typed, NEW m \in net, Taken(m)
  PROVE  /\ net' \subseteq Requests
         /\ \A n \in net' : \E o \in net :
              n.from = o.from /\ n.kind = o.kind /\ n.id = o.id /\ n.sig = o.sig
<1> DEFINE again == [m EXCEPT !.copy = TRUE]
<1>1. m \in Requests
  BY DEF Typed
<1>2. again \in Requests /\ again.from = m.from /\ again.kind = m.kind
      /\ again.id = m.id /\ again.sig = m.sig
  BY <1>1 DEF Requests
<1>3. net' \subseteq net \cup {again}
  BY DEF Taken
<1> HIDE DEF again
<1> QED
  BY <1>2, <1>3 DEF Typed

\* The middleware admits a request: only the Global Controller's authenticator
\* changes, and its key stays.
LEMMA AdmitKeeps ==
  ASSUME Typed, RequestsNumbered, NEW m \in net, Admit(m)
  PROVE  /\ auth' \in [Controllers -> Auths]
         /\ \A r \in Regionals : auth'[r] = auth[r]
         /\ auth'[Global].key = auth[Global].key
         /\ handled' \in [1 .. MaxSerial -> Seq(Nat)]
         /\ epoch' \in Nat
         /\ UNCHANGED <<deployed, hosted>>
<1>1. m.id \in 1 .. MaxSerial /\ m.id \in Int
  BY Constants DEF Typed, RequestsNumbered
<1>2. CASE auth[Global].key = NoKey
  BY <1>2 DEF Admit, Typed, server
<1>3. CASE auth[Global].key # NoKey
  <2>1. /\ auth' = [auth EXCEPT ![Global] = Recorded(auth[Global], m.id)]
        /\ handled' = [handled EXCEPT ![m.id] = Append(handled[m.id], epoch)]
        /\ epoch' = IF Forgets(auth[Global]) THEN epoch + 1 ELSE epoch
        /\ UNCHANGED <<deployed, hosted>>
    BY <1>3 DEF Admit
  <2>2. Recorded(auth[Global], m.id) \in Auths
        /\ Recorded(auth[Global], m.id).key = auth[Global].key
    BY <1>1, AuthTypes, Constants DEF Typed
  <2>3. Append(handled[m.id], epoch) \in Seq(Nat)
    BY <1>1 DEF Typed
  <2> QED
    BY <1>1, <2>1, <2>2, <2>3, Constants DEF Typed
<1> QED
  BY <1>2, <1>3

\* The client's steps are well typed.
LEMMA ClientTyped ==
  ASSUME Typed, Numbered, NEW r \in Regionals,
         \/ \E tries \in {1, MaxRetries} : Send(r, tries)
         \/ Exchange(r) \/ TimeOut(r) \/ \E a \in answers : Receive(r, a)
         \/ Validated(r) \/ Configure(r)
  PROVE  Typed'
<1> USE Constants
<1>1. ASSUME NEW tries \in {1, MaxRetries}, Send(r, tries) PROVE Typed'
  <2>1. tries \in Nat \ {0} /\ serial + 1 \in Nat /\ serial + tries \in 0 .. MaxSerial
        /\ tries - 1 \in Nat
    BY <1>1 DEF Typed, Send
  <2>2. Signed(r, serial + 1) \in Sigs
    BY <2>1, SignedTypes
  <2>3. net' \subseteq Requests
    BY <1>1, <2>1, <2>2, PostTypes DEF Send
  <2>4. [kind |-> "msg", id |-> serial + 1, left |-> tries - 1] \in Calls
    BY <2>1 DEF Calls
  <2> QED
    BY <1>1, <2>1, <2>3, <2>4 DEF Typed, Send, server
<1>2. CASE Exchange(r)
  <2>1. serial + 1 \in 0 .. MaxSerial /\ serial + 1 \in Nat
    BY <1>2 DEF Typed, Exchange, Initiate
  <2>2. net' \subseteq Requests
    BY <1>2, <2>1, UnsignedTypes, PostTypes DEF Exchange
  <2>3. [kind |-> "init", id |-> serial + 1, left |-> 0] \in Calls
    BY <2>1 DEF Calls
  <2> QED
    BY <1>2, <2>1, <2>2, <2>3 DEF Typed, Exchange, Initiate, server
<1>3. CASE TimeOut(r)
  <2>1. call[r] \in Calls /\ call[r].id + 1 \in Nat /\ call[r].left \in Nat
    BY DEF Typed, Calls
  <2>2. UNCHANGED <<now, serial, auth, keys, pending, validated, server>>
        /\ answers' \subseteq Answers
    BY <1>3 DEF TimeOut, Typed
  <2>3. CASE call[r].left > 0
    <3>1. /\ call' = [call EXCEPT ![r].id = @ + 1, ![r].left = @ - 1]
          /\ Post(r, "msg", call[r].id + 1, Signed(r, call[r].id + 1))
      BY <1>3, <2>3 DEF TimeOut
    <3>2. net' \subseteq Requests
      BY <2>1, <3>1, SignedTypes, PostTypes
    <3>3. ASSUME NEW x \in Nat, NEW y \in Nat
          PROVE  [call[r] EXCEPT !.id = x, !.left = y] \in Calls
      BY <2>1 DEF Calls
    <3>4. call' = [call EXCEPT ![r] = [call[r] EXCEPT !.id = call[r].id + 1,
                                                      !.left = call[r].left - 1]]
      BY <3>1
    <3>5. call[r].left - 1 \in Nat
      BY <2>1, <2>3
    <3>6. call' \in [Regionals -> Calls]
      BY <2>1, <3>3, <3>4, <3>5 DEF Typed
    <3> QED
      BY <2>2, <3>2, <3>6 DEF Typed, server
  <2>4. CASE ~(call[r].left > 0)
    <3>1. call' = [call EXCEPT ![r] = Idle] /\ UNCHANGED net
      BY <1>3, <2>4 DEF TimeOut
    <3>2. call' \in [Regionals -> Calls]
      BY <3>1, IdleTypes DEF Typed
    <3> QED
      BY <2>2, <3>1, <3>2 DEF Typed, server
  <2> QED
    BY <2>3, <2>4
<1>4. ASSUME NEW a \in answers, Receive(r, a) PROVE Typed'
  <2>1. /\ UNCHANGED <<now, serial, keys, validated, net, server>>
        /\ call' = [call EXCEPT ![r] = Idle] /\ answers' \subseteq answers
    BY <1>4 DEF Receive
  <2>2. a.sig.nonce \in Int /\ a.public \in Nat /\ pending[r] \in Nat
    BY DEF Typed, Answers, Sigs
  <2> DEFINE recorded == [auth EXCEPT ![r] = Recorded(@, a.sig.nonce)]
             secret   == SharedSecret(pending[r], a.public)
  <2>3. secret \in SUBSET Int
    BY <2>2 DEF SharedSecret
  <2>4. Recorded(auth[r], a.sig.nonce) \in Auths /\ NewAuth(secret) \in Auths
    BY <2>2, <2>3, AuthTypes DEF Typed
  <2>5. recorded \in [Controllers -> Auths]
    BY <2>4 DEF Typed
  <2>6. \A c \in {auth, recorded} : WithAuthenticator(c, r, secret) \in [Controllers -> Auths]
    BY <2>4, <2>5 DEF Typed, WithAuthenticator
  <2>7. \/ pending' = pending /\ auth' \in {auth, recorded}
        \/ /\ pending' = [pending EXCEPT ![r] = 0]
           /\ \E c \in {auth, recorded} : auth' = WithAuthenticator(c, r, secret)
    BY <1>4 DEF Receive, Finalize
  <2> HIDE DEF recorded, secret
  <2>8. pending' \in [Regionals -> Nat]
    BY <2>7 DEF Typed
  <2>9. auth \in [Controllers -> Auths]
    BY DEF Typed
  <2>10. auth' \in [Controllers -> Auths]
    BY <2>5, <2>6, <2>7, <2>9
  <2> QED
    BY <2>1, <2>8, <2>10, IdleTypes DEF Typed, server
<1>5. CASE Validated(r)
  BY <1>5 DEF Typed, Validated, server
<1>6. CASE Configure(r)
  <2>1. NewAuth(keys[KeyId(r)]) \in Auths
    BY AuthTypes, KeyIdTypes DEF Typed
  <2> QED
    BY <1>6, <2>1 DEF Typed, Configure
<1> QED
  BY <1>1, <1>2, <1>3, <1>4, <1>5, <1>6

\* The server's are.
LEMMA ServerTyped ==
  ASSUME Typed, Numbered, NEW m \in net,
         Throttle(m) \/ Refuse(m) \/ Fail(m) \/ Handle(m) \/ Respond(m) \/ Lose(m)
  PROVE  Typed'
<1> USE Constants
<1>0. m \in Requests /\ m.from \in Regionals /\ m.id \in Nat /\ -m.id \in Int
  BY DEF Typed, Requests
<1>1. CASE Throttle(m) \/ Refuse(m)
  <2>1. TurnedAway(m)
    BY <1>1 DEF Throttle, Refuse
  <2>2. answers' \subseteq Answers
    BY <1>0, <2>1, UnsignedTypes, AnswerTypes DEF TurnedAway
  <2> QED
    BY <2>1, <2>2 DEF Typed, TurnedAway, server
<1>2. Signed(Global, -m.id) \in Sigs
  BY <1>0, SignedTypes
<1>3. CASE Fail(m) \/ Handle(m)
  <2>1. Admit(m) /\ Taken(m) /\ UNCHANGED <<now, serial, keys, pending, validated, call>>
        /\ (Answer(m, "error", Unsigned, 0) \/ Answer(m, "ok", Signed(Global, -m.id), 0))
    BY <1>3 DEF Fail, Handle
  <2>2. answers' \subseteq Answers
    BY <1>0, <1>2, <2>1, UnsignedTypes, AnswerTypes
  <2> QED
    BY <2>1, <2>2, AdmitKeeps, TakenKeeps DEF Typed, Numbered
<1>4. CASE Respond(m)
  <2>1. Admit(m) /\ Taken(m) /\ UNCHANGED <<now, pending, validated, call>>
    BY <1>4 DEF Respond
  <2>2. /\ serial' \in 0 .. MaxSerial /\ answers' \subseteq Answers
        /\ keys' \in [KeyIds -> SUBSET Int]
    <3>1. CASE m.from \in hosted /\ RespondTo(m)
      <4>1. serial + 1 \in Nat /\ serial + 1 \in 0 .. MaxSerial /\ serial' = serial + 1
        BY <3>1 DEF RespondTo, Typed
      <4>2. SharedSecret(m.id, serial + 1) \in SUBSET Int
        BY <1>0, <4>1 DEF SharedSecret
      <4>3. keys' \in [KeyIds -> SUBSET Int]
        BY <3>1, <4>2 DEF RespondTo, SetKey, Typed
      <4>4. answers' \subseteq Answers
        BY <1>0, <1>2, <3>1, <4>1, AnswerTypes DEF RespondTo
      <4> QED
        BY <4>1, <4>3, <4>4
    <3>2. CASE Answer(m, "ok", Signed(Global, -m.id), 0) /\ UNCHANGED <<serial, keys>>
      BY <1>0, <1>2, <3>2, AnswerTypes DEF Typed
    <3> QED
      BY <1>4, <3>1, <3>2 DEF Respond
  <2> QED
    BY <2>1, <2>2, AdmitKeeps, TakenKeeps DEF Typed, Numbered
<1>5. CASE Lose(m)
  BY <1>5 DEF Typed, Lose, server
<1> QED
  BY <1>1, <1>3, <1>4, <1>5

\* And so are the operator's, the key rotation's, a restart and the clock's.
LEMMA OtherTyped ==
  ASSUME Typed, Numbered,
         \/ \E c \in Controllers, g \in 1 .. MaxGeneration : RotateKey(c, g)
         \/ \E k \in KeyIds : InitiateRotation(k) \/ CompleteRotation(k)
         \/ Restart \/ Tick
  PROVE  Typed'
<1> USE Constants
<1>1. ASSUME NEW c \in Controllers, NEW g \in 1 .. MaxGeneration, RotateKey(c, g) PROVE Typed'
  <2>1. Configured(g + 1) \in SUBSET Int
    BY DEF Configured
  <2>2. [auth[c] EXCEPT !.key = Configured(g + 1)] \in Auths
    BY <2>1 DEF Typed, Auths
  <2>3. auth' = [auth EXCEPT ![c] = [auth[c] EXCEPT !.key = Configured(g + 1)]]
    BY <1>1 DEF RotateKey
  <2> QED
    BY <1>1, <2>2, <2>3 DEF Typed, RotateKey, server
<1>5. ASSUME NEW k \in KeyIds, InitiateRotation(k) PROVE Typed'
  <2> DEFINE new == <<k[1], k[2] + 1>>
  <2>1. new \in KeyIds /\ serial + 1 \in 0 .. MaxSerial /\ {serial + 1} \in SUBSET Int
    <3>1. k[1] \in Regionals /\ k[2] \in 1 .. MaxVersion
      BY DEF KeyIds
    <3>2. k[2] < MaxVersion /\ serial < MaxSerial
      BY <1>5 DEF InitiateRotation
    <3>3. k[2] + 1 \in 1 .. MaxVersion /\ serial + 1 \in 0 .. MaxSerial
      BY <3>1, <3>2 DEF Typed
    <3>4. new \in KeyIds
      BY <3>1, <3>3 DEF KeyIds
    <3> QED
      BY <3>3, <3>4
  <2>2. keys' = [keys EXCEPT ![new] = {serial + 1}] /\ serial' = serial + 1
    BY <1>5 DEF InitiateRotation, SetKey
  <2>3. UNCHANGED <<now, auth, pending, validated, call, net, answers, server>>
    BY <1>5 DEF InitiateRotation
  <2> HIDE DEF new
  <2> QED
    BY <2>1, <2>2, <2>3 DEF Typed, server
<1>6. ASSUME NEW k \in KeyIds, CompleteRotation(k) PROVE Typed'
  BY <1>6 DEF Typed, CompleteRotation, NoKey, server
<1>7. CASE Restart
  <2>1. deployed \in Auths
    BY DeployedTypes
  <2> QED
    BY <1>7, <2>1, IdleTypes DEF Typed, Restart, NoKey
<1>8. CASE Tick
  BY <1>8 DEF Typed, Tick, server
<1> QED
  BY <1>1, <1>5, <1>6, <1>7, <1>8

-----------------------------------------------------------------------------
(***************************************************************************)
(* Numbers                                                                 *)
(***************************************************************************)

\* Requests only leave the network, and numbers are only drawn.
LEMMA NumberedKept ==
  ASSUME Typed, Numbered, serial' \in Nat, serial' >= serial, UNCHANGED <<call, pending>>,
         \A n \in net' : \E o \in net :
           n.from = o.from /\ n.kind = o.kind /\ n.id = o.id /\ n.sig = o.sig
  PROVE  Numbered'
<1>1. serial \in Nat /\ (\A m \in net : m.from \in Regionals)
      /\ \A r \in Regionals : call[r].id \in Nat /\ call[r].left \in Nat
  BY Constants DEF Typed, Calls, Requests
<1>2. RequestsNumbered'
  BY <1>1 DEF Numbered, RequestsNumbered
<1>3. CallsNumbered'
  BY <1>1 DEF Numbered, CallsNumbered
<1> QED
  BY <1>2, <1>3 DEF Numbered

\* A client ends its call and uses up its private key, or keeps it.
LEMMA NumberedIdle ==
  ASSUME Typed, Numbered, UNCHANGED <<net, serial>>,
         \A r \in Regionals : call'[r] = Idle \/ (call'[r] = call[r] /\ pending'[r] = pending[r])
  PROVE  Numbered'
<1>1. \A m \in net : m.from \in Regionals
  BY DEF Typed, Requests
<1>2. RequestsNumbered'
  BY <1>1, IdleTypes DEF Numbered, RequestsNumbered
<1>3. CallsNumbered'
  BY IdleTypes DEF Numbered, CallsNumbered
<1> QED
  BY <1>2, <1>3 DEF Numbered

\* A client posts a request with the number of its call.
LEMMA NumberedPosted ==
  ASSUME Typed, Numbered, NEW r \in Regionals, NEW c \in Calls, NEW sig \in Sigs,
         serial' \in Nat, serial' >= serial,
         c.kind # "idle", c.id >= 1, c.id + c.left <= serial',
         c.kind = "msg" => pending' = pending /\ \A m \in net :
                             m.kind = "init" /\ m.from = r => m.id < c.id,
         c.kind = "init" => /\ c.left = 0
                            /\ pending' = [pending EXCEPT ![r] = c.id],
         sig.key # NoKey => sig.nonce = c.id,
         call' = [call EXCEPT ![r] = c],
         Post(r, c.kind, c.id, sig)
  PROVE  Numbered'
<1> DEFINE new == [from |-> r, kind |-> c.kind, id |-> c.id, sig |-> sig, copy |-> FALSE]
<1>1. /\ serial \in Nat /\ c.id \in Nat /\ c.left \in Nat /\ c.kind \in {"msg", "init"}
      /\ \A m \in net : m.from \in Regionals /\ m.id \in Nat
      /\ \A q \in Regionals : call[q].id \in Nat /\ call[q].left \in Nat
  <2>1. serial \in Nat /\ (\A m \in net : m.from \in Regionals /\ m.id \in Nat)
    BY Constants DEF Typed, Requests
  <2>2. c.id \in Nat /\ c.left \in Nat /\ c.kind \in {"msg", "init"}
    BY DEF Calls
  <2>3. \A q \in Regionals : call[q].id \in Nat /\ call[q].left \in Nat
    BY DEF Typed, Calls
  <2> QED
    BY <2>1, <2>2, <2>3
<1>2. \A q \in Regionals : call'[q] = IF q = r THEN c ELSE call[q]
  BY DEF Typed
<1>3. \A q \in Regionals : q # r => pending'[q] = pending[q]
  BY <1>1 DEF Typed
<1>4. net' = net \cup {new}
  BY DEF Post
<1>5. CallsNumbered'
  <2> SUFFICES ASSUME NEW q \in Regionals
               PROVE  /\ call'[q].kind = "idle" => call'[q] = Idle
                      /\ call'[q].kind # "idle" =>
                           call'[q].id >= 1 /\ call'[q].id + call'[q].left <= serial'
                      /\ call'[q].kind = "init" =>
                           call'[q].left = 0 /\ call'[q].id = pending'[q]
    BY DEF CallsNumbered
  <2>1. CASE q = r
    <3>1. call'[q] = c
      BY <1>2, <2>1
    <3>2. c.kind = "init" => pending'[q] = c.id
      BY <2>1 DEF Typed
    <3> QED
      BY <3>1, <3>2
  <2>2. CASE q # r
    <3>1. call'[q] = call[q] /\ pending'[q] = pending[q]
      BY <1>2, <1>3, <2>2
    <3> QED
      BY <1>1, <3>1 DEF Numbered, CallsNumbered
  <2> QED
    BY <2>1, <2>2
<1>6. ASSUME NEW m \in net
      PROVE  /\ m.id \in 1 .. serial'
             /\ m.sig.key # NoKey => m.sig.nonce = m.id
             /\ m.kind = "init" /\ call'[m.from].kind = "msg" => m.id < call'[m.from].id
  <2>1. /\ m.id \in 1 .. serial
        /\ m.sig.key # NoKey => m.sig.nonce = m.id
        /\ m.kind = "init" /\ call[m.from].kind = "msg" => m.id < call[m.from].id
    BY DEF Numbered, RequestsNumbered
  <2>2. m.id \in 1 .. serial'
    BY <1>1, <2>1
  <2>3. m.kind = "init" /\ call'[m.from].kind = "msg" => m.id < call'[m.from].id
    BY <1>1, <1>2, <2>1
  <2> QED
    BY <2>1, <2>2, <2>3
<1>7. /\ new.id \in 1 .. serial'
      /\ new.sig.key # NoKey => new.sig.nonce = new.id
      /\ new.kind = "init" /\ call'[new.from].kind = "msg" => new.id < call'[new.from].id
  BY <1>1, <1>2
<1> HIDE DEF new
<1>8. RequestsNumbered'
  BY <1>4, <1>6, <1>7 DEF RequestsNumbered
<1> QED
  BY <1>5, <1>8 DEF Numbered

\* Every step keeps the numbers.
LEMMA NextNumbered ==
  ASSUME Typed, Numbered, [Next]_vars
  PROVE  Numbered'
<1> USE Constants
<1>0. serial \in Nat
  BY DEF Typed
<1>1. ASSUME UNCHANGED <<call, pending>>, net' \subseteq net, serial' = serial PROVE Numbered'
  BY <1>0, <1>1, NumberedKept
<1>2. ASSUME NEW r \in Regionals, NEW tries \in {1, MaxRetries}, Send(r, tries) PROVE Numbered'
  <2> DEFINE c == [kind |-> "msg", id |-> serial + 1, left |-> tries - 1]
  <2>1. tries \in Nat \ {0}
    OBVIOUS
  <2>2. c \in Calls /\ c.kind = "msg" /\ c.id = serial + 1 /\ c.left = tries - 1
    BY <1>0, <2>1 DEF Calls
  <2>3. /\ serial' = serial + tries /\ pending' = pending /\ call' = [call EXCEPT ![r] = c]
        /\ Post(r, "msg", serial + 1, Signed(r, serial + 1))
    BY <1>2 DEF Send
  <2>4. Signed(r, serial + 1) \in Sigs
        /\ (Signed(r, serial + 1).key # NoKey => Signed(r, serial + 1).nonce = serial + 1)
    BY <1>0, SignedTypes
  <2>5. \A m \in net : m.id < serial + 1
    BY <1>0 DEF Numbered, RequestsNumbered
  <2> HIDE DEF c
  <2>6. /\ Post(r, c.kind, c.id, Signed(r, serial + 1))
        /\ c.kind # "idle" /\ c.id >= 1 /\ c.id + c.left <= serial'
        /\ serial' \in Nat /\ serial' >= serial
        /\ \A m \in net : m.kind = "init" /\ m.from = r => m.id < c.id
    BY <1>0, <2>1, <2>2, <2>3, <2>5
  <2>7. Signed(r, serial + 1).key # NoKey => Signed(r, serial + 1).nonce = c.id
    BY <2>2, <2>4
  <2>8. c.kind # "init"
    BY <2>2
  <2> QED
    BY <2>2, <2>3, <2>4, <2>6, <2>7, <2>8, NumberedPosted
<1>3. ASSUME NEW r \in Regionals, Exchange(r) PROVE Numbered'
  <2> DEFINE c == [kind |-> "init", id |-> serial + 1, left |-> 0]
  <2>1. c \in Calls /\ c.kind = "init" /\ c.id = serial + 1 /\ c.left = 0
    BY <1>0 DEF Calls
  <2>2. /\ serial' = serial + 1 /\ pending' = [pending EXCEPT ![r] = serial + 1]
        /\ call' = [call EXCEPT ![r] = c]
        /\ Post(r, "init", serial + 1, Unsigned)
    BY <1>3 DEF Exchange, Initiate
  <2> HIDE DEF c
  <2> QED
    <3>1. Post(r, c.kind, c.id, Unsigned) /\ pending' = [pending EXCEPT ![r] = c.id]
      BY <2>1, <2>2
    <3>2. /\ c.kind # "idle" /\ c.kind # "msg" /\ c.id >= 1 /\ c.id + c.left <= serial'
          /\ serial' \in Nat /\ serial' >= serial
      BY <1>0, <2>1, <2>2
    <3> QED
      BY <2>1, <2>2, <3>1, <3>2, UnsignedTypes, NumberedPosted
<1>4. ASSUME NEW r \in Regionals, TimeOut(r) PROVE Numbered'
  <2>1. CASE call[r].left > 0
    <3> DEFINE c == [call[r] EXCEPT !.id = call[r].id + 1, !.left = call[r].left - 1]
    <3>1. call[r] \in Calls /\ call[r].id \in Nat /\ call[r].left \in Nat
      BY DEF Typed, Calls
    <3>2. call[r].kind = "msg" /\ call[r].id >= 1 /\ call[r].id + call[r].left <= serial
      BY <2>1, <3>1 DEF Numbered, CallsNumbered, Calls, Idle
    <3>3. c \in Calls /\ c.kind = "msg" /\ c.id = call[r].id + 1 /\ c.left = call[r].left - 1
      <4>1. ASSUME NEW x \in Nat, NEW y \in Nat
            PROVE  /\ [call[r] EXCEPT !.id = x, !.left = y] \in Calls
                   /\ [call[r] EXCEPT !.id = x, !.left = y].kind = call[r].kind
                   /\ [call[r] EXCEPT !.id = x, !.left = y].id = x
                   /\ [call[r] EXCEPT !.id = x, !.left = y].left = y
        BY <3>1 DEF Calls
      <4>2. call[r].id + 1 \in Nat /\ call[r].left - 1 \in Nat
        BY <2>1, <3>1
      <4>3. /\ c \in Calls /\ c.kind = call[r].kind
            /\ c.id = call[r].id + 1 /\ c.left = call[r].left - 1
        BY ONLY <4>1, <4>2, Zenon
      <4> QED
        BY <3>2, <4>3
    <3>4. /\ UNCHANGED <<serial, pending>> /\ call' = [call EXCEPT ![r] = c]
          /\ Post(r, "msg", call[r].id + 1, Signed(r, call[r].id + 1))
      BY <1>4, <2>1 DEF TimeOut
    <3>5. \A m \in net : m.kind = "init" /\ m.from = r => m.id < call[r].id + 1
      BY <3>1, <3>2 DEF Numbered, RequestsNumbered
    <3>6. Signed(r, call[r].id + 1) \in Sigs
          /\ (Signed(r, call[r].id + 1).key # NoKey =>
                Signed(r, call[r].id + 1).nonce = call[r].id + 1)
      BY <3>1, SignedTypes
    <3>7. c.id >= 1 /\ c.id + c.left <= serial
      BY <3>1, <3>2, <3>3
    <3> HIDE DEF c
    <3>8. /\ Post(r, c.kind, c.id, Signed(r, call[r].id + 1))
          /\ \A m \in net : m.kind = "init" /\ m.from = r => m.id < c.id
          /\ Signed(r, call[r].id + 1).key # NoKey => Signed(r, call[r].id + 1).nonce = c.id
      BY <3>3, <3>4, <3>5, <3>6
    <3>9. c.kind # "idle" /\ c.kind # "init" /\ serial' \in Nat /\ serial' >= serial
          /\ c.id + c.left <= serial'
      BY <1>0, <3>3, <3>4, <3>7
    <3> QED
      BY <3>3, <3>4, <3>6, <3>7, <3>8, <3>9, NumberedPosted
  <2>2. CASE ~(call[r].left > 0)
    BY <1>4, <2>2, NumberedIdle DEF TimeOut, Typed
  <2> QED
    BY <2>1, <2>2
<1>5. ASSUME NEW r \in Regionals, NEW a \in answers, Receive(r, a) PROVE Numbered'
  <2>1. call' = [call EXCEPT ![r] = Idle] /\ UNCHANGED <<net, serial>>
        /\ (pending' = pending \/ pending' = [pending EXCEPT ![r] = 0])
    BY <1>5 DEF Receive, Finalize
  <2> QED
    BY <2>1, NumberedIdle DEF Typed
<1>6. ASSUME NEW r \in Regionals, Validated(r) \/ Configure(r) PROVE Numbered'
  BY <1>1, <1>6 DEF Validated, Configure
<1>7. ASSUME NEW m \in net,
             Throttle(m) \/ Refuse(m) \/ Fail(m) \/ Handle(m) \/ Respond(m) \/ Lose(m)
      PROVE  Numbered'
  <2>1. CASE Throttle(m) \/ Refuse(m) \/ Lose(m)
    BY <1>1, <2>1 DEF Throttle, Refuse, TurnedAway, Lose
  <2>2. CASE Fail(m) \/ Handle(m) \/ Respond(m)
    <3>1. Taken(m) /\ UNCHANGED <<call, pending>> /\ serial' \in {serial, serial + 1}
      BY <2>2 DEF Fail, Handle, Respond, RespondTo
    <3> QED
      BY <1>0, <3>1, TakenKeeps, NumberedKept
  <2> QED
    BY <1>7, <2>1, <2>2
<1>8. ASSUME NEW c \in Controllers, NEW g \in 1 .. MaxGeneration, RotateKey(c, g)
      PROVE  Numbered'
  BY <1>1, <1>8 DEF RotateKey
<1>9. ASSUME NEW k \in KeyIds, InitiateRotation(k) \/ CompleteRotation(k)
      PROVE  Numbered'
  <2>1. UNCHANGED <<call, pending, net>> /\ serial' \in {serial, serial + 1}
    BY <1>9 DEF InitiateRotation, CompleteRotation
  <2> QED
    BY <1>0, <2>1, NumberedKept
<1>10. CASE Restart
  BY <1>10, NumberedIdle DEF Restart
<1>11. CASE Tick \/ UNCHANGED vars
  BY <1>1, <1>11 DEF Tick, vars
<1> QED
  BY <1>2, <1>3, <1>4, <1>5, <1>6, <1>7, <1>8, <1>9, <1>10, <1>11 DEF Next, ClientStep

-----------------------------------------------------------------------------
(***************************************************************************)
(* Replay protection                                                       *)
(***************************************************************************)

\* A step that lets nothing through remembers what it must.
LEMMA ReplayKept ==
  ASSUME Typed, Replay, handled' = handled,
         \/ epoch' = epoch /\ auth'[Global].seen = auth[Global].seen
         \/ epoch' = epoch + 1
  PROVE  Replay'
<1>1. epoch \in Nat /\ \A n \in 1 .. MaxSerial : \A i \in DOMAIN handled[n] : handled[n][i] \in Nat
  BY DEF Typed
<1> QED
  BY <1>1 DEF Replay

\* A verified request has a nonce that was not let through in this epoch.
LEMMA AdmitReplay ==
  ASSUME Typed, Numbered, Replay, NEW m \in net, Admitted(m), Admit(m)
  PROVE  Replay'
<1>1. CASE auth[Global].key = NoKey
  BY <1>1, ReplayKept DEF Admit, server
<1>2. CASE auth[Global].key # NoKey
  <2>1. m.id \in 1 .. MaxSerial /\ m.sig.key # NoKey /\ m.sig.nonce = m.id
        /\ m.id \notin auth[Global].seen
    BY <1>2, Constants DEF Typed, Numbered, RequestsNumbered, Admitted, Verified
  <2>2. /\ auth' = [auth EXCEPT ![Global] = Recorded(auth[Global], m.id)]
        /\ handled' = [handled EXCEPT ![m.id] = Append(handled[m.id], epoch)]
        /\ epoch' = IF Forgets(auth[Global]) THEN epoch + 1 ELSE epoch
    BY <1>2 DEF Admit
  <2>3. \/ Forgets(auth[Global]) /\ epoch' = epoch + 1
        \/ ~Forgets(auth[Global]) /\ epoch' = epoch
    BY ONLY <2>2, Zenon
  <2>4. auth[Global] \in Auths /\ m.id \in Int /\ auth'[Global] = Recorded(auth[Global], m.id)
    BY <2>1, <2>2, Constants DEF Typed
  <2>5. Forgets(auth[Global]) \/ auth'[Global].seen = auth[Global].seen \cup {m.id}
    BY <2>4, AuthTypes
  <2>6. /\ epoch \in Nat
        /\ \A n \in 1 .. MaxSerial : /\ handled[n] \in Seq(Nat)
                                     /\ \A i \in DOMAIN handled[n] : handled[n][i] \in Nat
    BY DEF Typed
  <2>7. \A i \in DOMAIN handled[m.id] : handled[m.id][i] < epoch
    BY <2>1, <2>6 DEF Replay
  <2> SUFFICES ASSUME NEW n \in 1 .. MaxSerial
               PROVE  /\ \A i \in DOMAIN handled'[n] :
                           /\ handled'[n][i] <= epoch'
                           /\ handled'[n][i] = epoch' => n \in auth'[Global].seen
                      /\ \A i, j \in DOMAIN handled'[n] : i < j => handled'[n][i] < handled'[n][j]
    BY DEF Replay
  <2>8. CASE n # m.id
    <3>1. handled'[n] = handled[n]
      BY <2>1, <2>2, <2>8 DEF Typed
    <3>2. /\ \A i \in DOMAIN handled[n] :
               /\ handled[n][i] \in Nat /\ handled[n][i] <= epoch
               /\ handled[n][i] = epoch => n \in auth[Global].seen
          /\ \A i, j \in DOMAIN handled[n] : i < j => handled[n][i] < handled[n][j]
      BY <2>6 DEF Replay
    <3>3. CASE Forgets(auth[Global])
      BY <2>6, <2>3, <3>1, <3>2, <3>3
    <3>4. CASE ~Forgets(auth[Global])
      BY <2>5, <2>3, <3>1, <3>2, <3>4
    <3> QED
      BY <3>3, <3>4
  <2>9. CASE n = m.id
    <3> DEFINE h == handled[n]
    <3>1. handled'[n] = Append(h, epoch) /\ h \in Seq(Nat)
      BY <2>1, <2>2, <2>6, <2>9 DEF Typed
    <3>2. /\ DOMAIN handled'[n] = 1 .. Len(h) + 1
          /\ Len(h) \in Nat
          /\ DOMAIN h = 1 .. Len(h)
          /\ \A i \in 1 .. Len(h) : handled'[n][i] = h[i]
          /\ handled'[n][Len(h) + 1] = epoch
      BY <2>6, <3>1
    <3>3. /\ \A i \in 1 .. Len(h) : h[i] \in Nat /\ h[i] < epoch
          /\ \A i, j \in 1 .. Len(h) : i < j => h[i] < h[j]
      BY <2>6, <2>7, <2>9, <3>2 DEF Replay
    <3> HIDE DEF h
    <3>4. \A i \in 1 .. Len(h) + 1 : handled'[n][i] \in Nat /\ handled'[n][i] <= epoch
      BY <2>6, <3>2, <3>3
    <3>5. \A i, j \in 1 .. Len(h) + 1 : i < j => handled'[n][i] < handled'[n][j]
      BY <2>6, <3>2, <3>3
    <3>6. \A i \in 1 .. Len(h) + 1 : /\ handled'[n][i] <= epoch'
                                     /\ handled'[n][i] = epoch' => n \in auth'[Global].seen
      <4>1. CASE Forgets(auth[Global])
        BY <2>6, <2>3, <3>4, <4>1
      <4>2. CASE ~Forgets(auth[Global])
        BY <2>5, <2>9, <2>3, <3>4, <4>2
      <4> QED
        BY <4>1, <4>2
    <3> QED
      BY <3>2, <3>5, <3>6
  <2> QED
    BY <2>8, <2>9
<1> QED
  BY <1>1, <1>2

\* A step of another controller leaves the Global Controller's authenticator.
LEMMA ReplayElsewhere ==
  ASSUME Typed, Replay, NEW r \in Regionals, \E a : auth' = [auth EXCEPT ![r] = a],
         UNCHANGED <<epoch, handled>>
  PROVE  Replay'
<1>1. auth'[Global] = auth[Global]
  BY Constants DEF Typed
<1> QED
  BY <1>1, ReplayKept

\* Every step keeps the protection.
LEMMA NextReplay ==
  ASSUME Typed, Numbered, Replay, [Next]_vars
  PROVE  Replay'
<1> USE Constants
<1>1. ASSUME UNCHANGED <<auth, epoch, handled>> PROVE Replay'
  BY <1>1, ReplayKept
<1>2. ASSUME NEW r \in Regionals,
             \/ \E tries \in {1, MaxRetries} : Send(r, tries)
             \/ Exchange(r) \/ TimeOut(r) \/ Validated(r)
      PROVE  Replay'
  BY <1>1, <1>2 DEF Send, Exchange, TimeOut, Validated, server
<1>3. ASSUME NEW r \in Regionals, NEW a \in answers, Receive(r, a) PROVE Replay'
  <2>1. \E x : auth' = [auth EXCEPT ![r] = x]
    <3>1. auth = [auth EXCEPT ![r] = auth[r]]
      BY DEF Typed
    <3>2. \A x, y : [[auth EXCEPT ![r] = x] EXCEPT ![r] = y] = [auth EXCEPT ![r] = y]
      BY DEF Typed
    <3>3. \/ auth' = auth
          \/ auth' = [auth EXCEPT ![r] = Recorded(@, a.sig.nonce)]
          \/ \E key : auth' = [auth EXCEPT ![r] = NewAuth(key)]
          \/ \E key : auth' = [[auth EXCEPT ![r] = Recorded(@, a.sig.nonce)]
                                 EXCEPT ![r] = NewAuth(key)]
      BY <1>3 DEF Receive, WithAuthenticator
    <3> QED
      BY <3>1, <3>2, <3>3
  <2> QED
    BY <1>3, <2>1, ReplayElsewhere DEF Receive, server
<1>4. ASSUME NEW r \in Regionals, Configure(r) PROVE Replay'
  BY <1>4, ReplayKept DEF Configure
<1>5. ASSUME NEW m \in net,
             Throttle(m) \/ Refuse(m) \/ Fail(m) \/ Handle(m) \/ Respond(m) \/ Lose(m)
      PROVE  Replay'
  <2>1. CASE Throttle(m) \/ Refuse(m) \/ Lose(m)
    BY <1>1, <2>1 DEF Throttle, Refuse, TurnedAway, Lose, server
  <2>2. CASE Fail(m) \/ Handle(m) \/ Respond(m)
    BY <2>2, AdmitReplay DEF Fail, Handle, Respond
  <2> QED
    BY <1>5, <2>1, <2>2
<1>6. ASSUME NEW c \in Controllers, NEW g \in 1 .. MaxGeneration, RotateKey(c, g)
      PROVE  Replay'
  <2>1. auth'[Global].seen = auth[Global].seen
    BY <1>6 DEF RotateKey, Typed, Auths
  <2> QED
    BY <1>6, <2>1, ReplayKept DEF RotateKey, server
<1>7. ASSUME NEW k \in KeyIds, InitiateRotation(k) \/ CompleteRotation(k)
      PROVE  Replay'
  BY <1>1, <1>7 DEF InitiateRotation, CompleteRotation, server
<1>8. CASE Restart
  BY <1>8, ReplayKept DEF Restart
<1>9. CASE Tick \/ UNCHANGED vars
  BY <1>1, <1>9 DEF Tick, vars, server
<1> QED
  BY <1>2, <1>3, <1>4, <1>5, <1>6, <1>7, <1>8, <1>9 DEF Next, ClientStep

-----------------------------------------------------------------------------
(***************************************************************************)
(* Key agreement                                                           *)
(***************************************************************************)

\* The keys stay or go, the exchanges under way stay or end, and no answer with a
\* key is new.
LEMMA AgreementKept ==
  ASSUME Typed, Agreement, serial' \in Nat, serial' >= serial,
         \A r \in Regionals :
           /\ \/ auth'[r].key = auth[r].key
              \/ auth'[r].key = NoKey
              \/ \E g \in Nat : auth'[r].key = Configured(g)
           /\ keys'[KeyId(r)] = keys[KeyId(r)] \/ keys'[KeyId(r)] = NoKey,
         \A a \in answers' : a.code = "key" =>
           /\ a \in answers
           /\ call'[a.to] = call[a.to]
           /\ pending'[a.to] = pending[a.to]
  PROVE  Agreement'
<1>0. serial \in Nat /\ \A a \in answers : a.to \in Regionals
  BY DEF Typed, Answers
<1>1. ASSUME NEW r \in Regionals, NEW i, NEW j, UpToDate(keys[KeyId(r)], i, j, serial)
      PROVE  UpToDate(keys'[KeyId(r)], i, j, serial')
  <2>1. CASE keys'[KeyId(r)] = NoKey
    BY <2>1 DEF UpToDate
  <2>2. CASE keys'[KeyId(r)] = keys[KeyId(r)]
    BY <1>0, <1>1, <2>2 DEF UpToDate
  <2> QED
    BY <2>1, <2>2
<1>2. ASSUME NEW r \in Regionals
      PROVE  UsedAgrees(r)' /\ (keys'[KeyId(r)] = NoKey \/ OfExchange(keys'[KeyId(r)], serial'))
  <2>1. UsedAgrees(r) /\ (keys[KeyId(r)] = NoKey \/ OfExchange(keys[KeyId(r)], serial))
    BY DEF Agreement
  <2>2. keys'[KeyId(r)] = NoKey \/ OfExchange(keys'[KeyId(r)], serial')
    BY <1>0, <2>1 DEF OfExchange
  <2>3. CASE auth'[r].key = auth[r].key
    BY <1>0, <1>1, <2>1, <2>2, <2>3 DEF UsedAgrees
  <2>4. CASE auth'[r].key # auth[r].key
    BY <2>2, <2>4 DEF UsedAgrees
  <2> QED
    BY <2>3, <2>4
<1>3. ASSUME NEW a \in answers', a.code = "key" PROVE AnswerAgrees(a)'
  <2>1. a \in answers /\ a.to \in Regionals /\ AnswerAgrees(a)
        /\ call'[a.to] = call[a.to] /\ pending'[a.to] = pending[a.to]
    BY <1>0, <1>3 DEF Agreement
  <2>2. UpToDate(keys'[KeyId(a.to)], pending[a.to], a.public, serial')
    BY <1>1, <2>1 DEF AnswerAgrees
  <2>3. UpToDate(keys'[KeyId(a.to)], pending'[a.to], a.public, serial')
    BY <2>1, <2>2
  <2>4. a.public \in 1 .. serial'
    BY <1>0, <2>1 DEF AnswerAgrees
  <2> QED
    BY <2>1, <2>3, <2>4 DEF AnswerAgrees
<1> QED
  BY <1>2, <1>3 DEF Agreement

\* An answer without a key
LEMMA PlainAnswer ==
  ASSUME Typed, NEW m \in Requests, NEW code \in {"error", "ok"}, NEW sig \in Sigs,
         NEW public \in Nat, Answer(m, code, sig, public)
  PROVE  \A a \in answers' : a.code = "key" => a \in answers
BY DEF Answer

\* The client's steps keep the keys in agreement.
LEMMA ClientAgreement ==
  ASSUME Typed, Numbered, Agreement, NEW r \in Regionals,
         \/ \E tries \in {1, MaxRetries} : Send(r, tries)
         \/ Exchange(r) \/ TimeOut(r) \/ Validated(r) \/ Configure(r)
  PROVE  Agreement'
<1> USE Constants
<1>0. serial \in Nat /\ (\A a \in answers : a.to \in Regionals)
      /\ \A a \in answers : a.code = "key" => call[a.to].kind = "init"
  BY DEF Typed, Answers, Agreement, AnswerAgrees
<1>1. \A q \in Regionals : q # Global /\ q \in Controllers
  OBVIOUS
<1>2. ASSUME NEW tries \in {1, MaxRetries}, Send(r, tries) PROVE Agreement'
  <2>1. /\ call' = [call EXCEPT ![r] = [kind |-> "msg", id |-> serial + 1, left |-> tries - 1]]
        /\ UNCHANGED <<auth, keys, pending, answers>> /\ serial' = serial + tries
        /\ call[r] = Idle /\ tries \in Nat
    BY <1>2 DEF Send
  <2>2. \A a \in answers : a.code = "key" => a.to # r
    BY <1>0, <2>1, IdleTypes
  <2>3. \A a \in answers : a.code = "key" => call'[a.to] = call[a.to]
    BY <1>0, <2>1, <2>2 DEF Typed
  <2> QED
    BY <1>0, <2>1, <2>3, AgreementKept
<1>3. CASE Exchange(r)
  <2>1. /\ call' = [call EXCEPT ![r] = [kind |-> "init", id |-> serial + 1, left |-> 0]]
        /\ pending' = [pending EXCEPT ![r] = serial + 1]
        /\ UNCHANGED <<auth, keys, answers>> /\ serial' = serial + 1
        /\ call[r] = Idle
    BY <1>3 DEF Exchange, Initiate
  <2>2. \A a \in answers : a.code = "key" => a.to # r
    BY <1>0, <2>1, IdleTypes
  <2>3. \A a \in answers : a.code = "key" =>
          call'[a.to] = call[a.to] /\ pending'[a.to] = pending[a.to]
    BY <1>0, <2>1, <2>2 DEF Typed
  <2> QED
    BY <1>0, <2>1, <2>3, AgreementKept
<1>4. CASE TimeOut(r)
  <2>1. /\ UNCHANGED <<serial, auth, keys, pending>>
        /\ answers' = {a \in answers : a.to # r}
        /\ \A q \in Regionals : q # r => call'[q] = call[q]
    BY <1>4 DEF TimeOut, Typed
  <2>2. \A a \in answers' : a \in answers /\ call'[a.to] = call[a.to]
    BY <1>0, <2>1
  <2> QED
    BY <1>0, <2>1, <2>2, AgreementKept
<1>5. CASE Validated(r)
  <2>1. UNCHANGED <<serial, auth, keys, pending, call, answers>>
    BY <1>5 DEF Validated
  <2> QED
    BY <1>0, <2>1, AgreementKept
<1>6. CASE Configure(r)
  <2>1. UNCHANGED <<serial, keys, pending, call, answers>>
        /\ \A q \in Regionals : auth'[q] = auth[q]
    BY <1>1, <1>6 DEF Configure, Typed
  <2> QED
    BY <1>0, <2>1, AgreementKept
<1> QED
  BY <1>2, <1>3, <1>4, <1>5, <1>6

\* The client takes an answer.  A key it gets is the one the answer was made with,
\* because the private key is still that of the request.
LEMMA ReceiveAgreement ==
  ASSUME Typed, Numbered, Agreement, NEW r \in Regionals, NEW a \in answers, Receive(r, a)
  PROVE  Agreement'
<1> USE Constants
<1>0. serial \in Nat /\ (\A b \in answers : b.to \in Regionals) /\ r \in Controllers
  BY DEF Typed, Answers
<1>1. /\ UNCHANGED <<serial, keys>> /\ a.to = r
      /\ answers' = {b \in answers : b.to # r}
      /\ \A q \in Regionals : q # r => call'[q] = call[q]
      /\ \A q \in Regionals : q # r => pending'[q] = pending[q]
  BY DEF Receive, Typed, Finalize
<1>2. \A b \in answers' : b \in answers /\ call'[b.to] = call[b.to] /\ pending'[b.to] = pending[b.to]
  BY <1>0, <1>1
<1> DEFINE recorded == [auth EXCEPT ![r] = Recorded(auth[r], a.sig.nonce)]
           secret   == SharedSecret(pending[r], a.public)
<1>3. \/ auth' \in {auth, recorded}
      \/ a.code = "key" /\ \E c \in {auth, recorded} : auth' = [c EXCEPT ![r] = NewAuth(secret)]
  BY DEF Receive, WithAuthenticator
<1>4. a.sig.nonce \in Int /\ pending[r] \in Nat /\ a.public \in Nat
  BY DEF Typed, Answers, Sigs
<1>5. /\ \A q \in Regionals : recorded[q].key = auth[q].key
      /\ recorded \in [Controllers -> Auths]
  <2>1. /\ Recorded(auth[r], a.sig.nonce).key = auth[r].key
        /\ Recorded(auth[r], a.sig.nonce) \in Auths
    BY <1>0, <1>4, AuthTypes DEF Typed
  <2> QED
    BY <1>0, <2>1 DEF Typed
<1> HIDE DEF recorded
<1>6. CASE auth' \in {auth, recorded}
  <2>1. \A q \in Regionals : auth'[q].key = auth[q].key
    BY <1>5, <1>6
  <2> QED
    BY <1>0, <1>1, <1>2, <2>1, AgreementKept
<1>7. ASSUME a.code = "key", NEW c \in {auth, recorded}, auth' = [c EXCEPT ![r] = NewAuth(secret)]
      PROVE  Agreement'
  <2>1. secret \in SUBSET Int /\ secret = {pending[r], a.public}
    BY <1>4 DEF SharedSecret
  <2> HIDE DEF secret
  <2>2. NewAuth(secret).key = secret
    BY <2>1, AuthTypes
  <2>3. c \in [Controllers -> Auths] /\ \A q \in Regionals : c[q].key = auth[q].key
    BY <1>5 DEF Typed
  <2>4. auth'[r].key = {pending[r], a.public}
        /\ \A q \in Regionals : q # r => auth'[q].key = auth[q].key
    BY <1>0, <1>7, <2>1, <2>2, <2>3
  <2>5. AnswerAgrees(a)
    BY <1>7 DEF Agreement
  <2>6. /\ pending[r] \in 1 .. serial /\ a.public \in 1 .. serial /\ pending[r] < a.public
        /\ UpToDate(keys[KeyId(r)], pending[r], a.public, serial)
    BY <1>0, <1>1, <1>4, <2>5 DEF AnswerAgrees, Numbered, CallsNumbered
  <2>7. ASSUME NEW q \in Regionals
        PROVE  UsedAgrees(q)' /\ (keys'[KeyId(q)] = NoKey \/ OfExchange(keys'[KeyId(q)], serial'))
    <3>1. UsedAgrees(q) /\ (keys[KeyId(q)] = NoKey \/ OfExchange(keys[KeyId(q)], serial))
      BY DEF Agreement
    <3>2. CASE q = r
      BY <1>1, <2>4, <2>6, <3>1, <3>2 DEF UsedAgrees
    <3>3. CASE q # r
      BY <1>1, <2>4, <3>1, <3>3 DEF UsedAgrees
    <3> QED
      BY <3>2, <3>3
  <2>8. \A b \in answers' : b.code = "key" => AnswerAgrees(b)'
    BY <1>1, <1>2 DEF Agreement, AnswerAgrees
  <2> QED
    BY <2>7, <2>8 DEF Agreement
<1> QED
  BY <1>3, <1>6, <1>7

\* The Global Controller answers an exchange: the key is younger than all others,
\* and goes only to a client whose private key is still that of the request.
LEMMA RespondAgreement ==
  ASSUME Typed, Numbered, Agreement, NEW m \in net, m.kind = "init", RespondTo(m),
         UNCHANGED <<pending, call>>, \A q \in Regionals : auth'[q].key = auth[q].key
  PROVE  Agreement'
<1> DEFINE j   == serial + 1
           r   == m.from
           new == [to |-> r, code |-> "key", sig |-> Signed(Global, -m.id), public |-> j]
<1>0. serial \in Nat /\ j \in Nat /\ r \in Regionals /\ (\A b \in answers : b.to \in Regionals)
      /\ m.id \in 1 .. serial
  BY DEF Typed, Answers, Requests, Numbered, RequestsNumbered
<1>1. /\ serial' = j
      /\ keys' = [keys EXCEPT ![KeyId(r)] = {m.id, j}]
      /\ answers' = IF call[r].id = m.id THEN answers \cup {new} ELSE answers
  BY DEF RespondTo, SetKey, SharedSecret, Answer
<1>2. keys'[KeyId(r)] = {m.id, j} /\ \A q \in Regionals : q # r => keys'[KeyId(q)] = keys[KeyId(q)]
  BY <1>0, <1>1, KeyIdTypes DEF Typed
<1>3. new.to = r /\ new.public = j
  OBVIOUS
<1> HIDE DEF new
<1>4. ASSUME NEW q \in Regionals, NEW i \in Nat, NEW n \in 1 .. serial,
             UpToDate(keys[KeyId(q)], i, n, serial)
      PROVE  UpToDate(keys'[KeyId(q)], i, n, serial')
  <2>1. CASE q = r
    <3>1. m.id \in 1 .. j /\ j \in 1 .. j /\ m.id < j /\ n < j
      BY <1>0
    <3> QED
      BY <1>1, <1>2, <2>1, <3>1 DEF UpToDate
  <2>2. CASE q # r
    BY <1>0, <1>1, <1>2, <1>4, <2>2 DEF UpToDate
  <2> QED
    BY <2>1, <2>2
<1>5. ASSUME NEW q \in Regionals
      PROVE  UsedAgrees(q)' /\ (keys'[KeyId(q)] = NoKey \/ OfExchange(keys'[KeyId(q)], serial'))
  <2>1. UsedAgrees(q) /\ (keys[KeyId(q)] = NoKey \/ OfExchange(keys[KeyId(q)], serial))
    BY DEF Agreement
  <2>2. keys'[KeyId(q)] = NoKey \/ OfExchange(keys'[KeyId(q)], serial')
    <3>1. CASE q = r
      <4>1. m.id \in 1 .. j /\ j \in 1 .. j /\ m.id < j
        BY <1>0
      <4> QED
        BY <1>1, <1>2, <3>1, <4>1 DEF OfExchange
    <3>2. CASE q # r
      BY <1>0, <1>1, <1>2, <2>1, <3>2 DEF OfExchange
    <3> QED
      BY <3>1, <3>2
  <2>3. UsedAgrees(q)'
    <3>1. CASE auth[q].key = NoKey \/ \E g \in Nat : auth[q].key = Configured(g)
      BY <3>1 DEF UsedAgrees
    <3>2. ASSUME NEW i \in 1 .. serial, NEW n \in 1 .. serial,
                 i < n, auth[q].key = {i, n}, UpToDate(keys[KeyId(q)], i, n, serial)
          PROVE  UsedAgrees(q)'
      <4>1. UpToDate(keys'[KeyId(q)], i, n, serial')
        BY <1>0, <1>4, <3>2
      <4>2. i \in 1 .. serial' /\ n \in 1 .. serial'
        BY <1>0, <1>1
      <4> QED
        BY <3>2, <4>1, <4>2 DEF UsedAgrees
    <3> QED
      BY <2>1, <3>1, <3>2 DEF UsedAgrees
  <2> QED
    BY <2>2, <2>3
<1>6. ASSUME NEW a \in answers, a.code = "key" PROVE AnswerAgrees(a)'
  <2>1. AnswerAgrees(a) /\ a.to \in Regionals /\ pending[a.to] \in Nat
    BY <1>0, <1>6 DEF Agreement, Typed
  <2>2. UpToDate(keys'[KeyId(a.to)], pending[a.to], a.public, serial')
    BY <1>4, <2>1 DEF AnswerAgrees
  <2>3. a.public \in 1 .. serial'
    BY <1>0, <1>1, <2>1 DEF AnswerAgrees
  <2> QED
    BY <2>1, <2>2, <2>3 DEF AnswerAgrees
<1>7. ASSUME NEW a \in answers', a = new, call[r].id = m.id PROVE AnswerAgrees(a)'
  <2>1. call[r] \in Calls /\ (call[r].kind = "idle" => call[r].id = 0)
    BY <1>0, IdleTypes DEF Typed, Numbered, CallsNumbered
  <2>2. call[r].kind # "msg"
    <3>1. call[r].kind = "msg" => m.id < call[r].id
      BY DEF Numbered, RequestsNumbered
    <3> QED
      BY <1>0, <1>7, <3>1
  <2>3. call[r].kind = "init" /\ pending[r] = m.id
    BY <1>0, <1>7, <2>1, <2>2 DEF Calls, Numbered, CallsNumbered
  <2>4. UpToDate(keys'[KeyId(r)], pending[r], j, serial')
    BY <1>2, <2>3 DEF UpToDate
  <2>5. j \in 1 .. serial' /\ pending[r] < j
    BY <1>0, <1>1, <2>3
  <2> QED
    BY <1>3, <1>7, <2>3, <2>4, <2>5 DEF AnswerAgrees
<1>8. ASSUME NEW a \in answers', a.code = "key" PROVE AnswerAgrees(a)'
  BY <1>1, <1>6, <1>7, <1>8
<1> QED
  BY <1>5, <1>8 DEF Agreement

\* Every step keeps the keys in agreement.
LEMMA NextAgreement ==
  ASSUME Typed, Numbered, Agreement, [Next]_vars
  PROVE  Agreement'
<1> USE Constants
<1>0. serial \in Nat
  BY DEF Typed
<1>1. ASSUME UNCHANGED <<call, pending, serial, keys>>,
             \A q \in Regionals : auth'[q].key = auth[q].key,
             \A a \in answers' : a.code = "key" => a \in answers
      PROVE  Agreement'
  BY <1>0, <1>1, AgreementKept
<1>2. ASSUME NEW m \in net,
             Throttle(m) \/ Refuse(m) \/ Fail(m) \/ Handle(m) \/ Respond(m) \/ Lose(m)
      PROVE  Agreement'
  <2>0. m \in Requests /\ Signed(Global, -m.id) \in Sigs /\ Unsigned \in Sigs
    BY SignedTypes, UnsignedTypes DEF Typed, Requests
  <2>1. CASE Throttle(m) \/ Refuse(m) \/ Lose(m)
    <3>1. UNCHANGED <<call, pending, serial, keys, auth>>
      BY <2>1 DEF Throttle, Refuse, TurnedAway, Lose
    <3>2. answers' = answers \/ Answer(m, "error", Unsigned, 0)
      BY <2>1 DEF Throttle, Refuse, TurnedAway, Lose
    <3>3. \A a \in answers' : a.code = "key" => a \in answers
      BY <2>0, <3>2, PlainAnswer
    <3> QED
      BY <1>1, <3>1, <3>3
  <2>2. CASE Fail(m) \/ Handle(m) \/ Respond(m)
    <3>1. Admit(m) /\ UNCHANGED <<call, pending>>
      BY <2>2 DEF Fail, Handle, Respond
    <3>2. \A q \in Regionals : auth'[q].key = auth[q].key
      BY <3>1, AdmitKeeps DEF Numbered
    <3>3. CASE m.kind = "init" /\ RespondTo(m)
      BY <3>1, <3>2, <3>3, RespondAgreement
    <3>4. CASE /\ UNCHANGED <<serial, keys>>
               /\ Answer(m, "error", Unsigned, 0) \/ Answer(m, "ok", Signed(Global, -m.id), 0)
      <4>1. \A a \in answers' : a.code = "key" => a \in answers
        BY <2>0, <3>4, PlainAnswer
      <4> QED
        BY <1>1, <3>1, <3>2, <3>4, <4>1
    <3> QED
      BY <2>2, <3>3, <3>4 DEF Fail, Handle, Respond
  <2> QED
    BY <1>2, <2>1, <2>2
<1>3. ASSUME NEW c \in Controllers, NEW g \in 1 .. MaxGeneration, RotateKey(c, g)
      PROVE  Agreement'
  <2>1. UNCHANGED <<call, pending, serial, keys, answers>>
    BY <1>3 DEF RotateKey
  <2>2. ASSUME NEW q \in Regionals
        PROVE  auth'[q].key = auth[q].key \/ auth'[q].key = Configured(g + 1)
    BY <1>3 DEF RotateKey, Typed, Auths
  <2>3. g + 1 \in Nat
    OBVIOUS
  <2> QED
    BY <1>0, <2>1, <2>2, <2>3, AgreementKept
<1>5. ASSUME NEW k \in KeyIds, InitiateRotation(k) PROVE Agreement'
  <2> DEFINE new == <<k[1], k[2] + 1>>
  <2>1. \A r \in Regionals : KeyId(r) # new
    BY DEF KeyIds, KeyId
  <2>2. /\ UNCHANGED <<call, pending, answers, auth>> /\ serial' = serial + 1
        /\ keys' = [keys EXCEPT ![new] = {serial + 1}]
    BY <1>5 DEF InitiateRotation, SetKey
  <2> HIDE DEF new
  <2>3. \A r \in Regionals : keys'[KeyId(r)] = keys[KeyId(r)]
    BY <2>1, <2>2, KeyIdTypes DEF Typed
  <2> QED
    BY <1>0, <2>2, <2>3, AgreementKept
<1>6. ASSUME NEW k \in KeyIds, CompleteRotation(k) PROVE Agreement'
  <2>1. /\ UNCHANGED <<call, pending, answers, auth, serial>>
        /\ keys' = [keys EXCEPT ![k] = NoKey]
    BY <1>6 DEF CompleteRotation
  <2>2. \A r \in Regionals : keys'[KeyId(r)] = keys[KeyId(r)] \/ keys'[KeyId(r)] = NoKey
    BY <2>1, KeyIdTypes DEF Typed
  <2> QED
    BY <1>0, <2>1, <2>2, AgreementKept
<1>7. CASE Restart
  <2>1. /\ serial' = serial /\ answers' = {}
        /\ \A r \in Regionals : keys'[KeyId(r)] = NoKey
        /\ \A r \in Regionals : auth'[r] = deployed \/ auth'[r] = auth[r]
    BY <1>7, KeyIdTypes DEF Restart
  <2>2. \A r \in Regionals :
          \/ auth'[r].key = auth[r].key
          \/ auth'[r].key = NoKey
          \/ auth'[r].key = Configured(1)
    BY <2>1, DeployedTypes
  <2> QED
    BY <1>0, <2>1, <2>2, AgreementKept
<1>8. CASE Tick \/ UNCHANGED vars
  <2>1. UNCHANGED <<call, pending, serial, keys, answers, auth>>
    BY <1>8 DEF Tick, vars
  <2> QED
    BY <1>1, <2>1
<1> QED
  BY <1>2, <1>3, <1>5, <1>6, <1>7, <1>8, ClientAgreement, ReceiveAgreement
     DEF Next, ClientStep

-----------------------------------------------------------------------------
(***************************************************************************)
(* The theorems                                                            *)
(***************************************************************************)

\* The start satisfies the inductive invariant.
LEMMA InitIInv == Init => IInv
<1> SUFFICES ASSUME Init PROVE IInv
  OBVIOUS
<1> USE Constants
<1>1. Typed
  <2>1. deployed \in Auths
    BY AuthTypes DEF Init
  <2> QED
    BY <2>1, IdleTypes DEF Init, Typed, NoKey
<1>2. Numbered
  BY IdleTypes DEF Init, Numbered, RequestsNumbered, CallsNumbered
<1>3. Replay
  BY DEF Init, Replay
<1>4. Agreement
  <2>1. \A r \in Regionals : keys[KeyId(r)] = NoKey /\ auth[r] = deployed
    BY KeyIdTypes DEF Init
  <2>2. deployed.key = NoKey \/ deployed.key = Configured(1)
    BY <1>1, DeployedTypes
  <2> QED
    BY <2>1, <2>2 DEF Init, Agreement, UsedAgrees
<1> QED
  BY <1>1, <1>2, <1>3, <1>4 DEF IInv

\* Every step preserves it.
LEMMA NextIInv ==
  ASSUME IInv, [Next]_vars
  PROVE  IInv'
<1>1. Typed /\ Numbered /\ Replay /\ Agreement
  BY DEF IInv
<1>2. Typed'
  <2>1. CASE UNCHANGED vars
    BY <1>1, <2>1 DEF Typed, vars
  <2> QED
    BY <1>1, <2>1, ClientTyped, ServerTyped, OtherTyped DEF Next, ClientStep
<1> QED
  BY <1>1, <1>2, NextNumbered, NextReplay, NextAgreement DEF IInv

\* So it holds in every state.
LEMMA Invariance == Spec => []IInv
BY InitIInv, NextIInv, PTL DEF Spec

\* The larger number of an exchange is the later one.
LEMMA LatestOfPair ==
  ASSUME NEW i \in Nat, NEW j \in Nat, i < j
  PROVE  Latest({i, j}) = j
<1>1. \E n \in {i, j} : \A m \in {i, j} : m <= n
  OBVIOUS
<1>2. \A n \in {i, j} : (\A m \in {i, j} : m <= n) => n = j
  OBVIOUS
<1> QED
  BY <1>1, <1>2 DEF Latest

\* A request delivered twice or late, however often the key is rotated and whatever
\* fails after the nonce was recorded, passes the middleware of rest_server.py at
\* most once between two moments at which the nonces are forgotten.
THEOREM HandledAtMostOnce == Spec => []HandledOnce
<1>1. Typed /\ Replay => HandledOnce
  <2> SUFFICES ASSUME Typed, Replay PROVE HandledOnce
    OBVIOUS
  <2>1. DOMAIN handled = 1 .. MaxSerial
    BY DEF Typed
  <2> QED
    BY <2>1 DEF Replay, HandledOnce
<1> QED
  BY <1>1, Invariance, PTL DEF IInv

\* A key that a Regional Controller signs with after perform_key_exchange is the one
\* the Global Controller holds for it, unless that one is younger.
THEOREM ExchangedKeysAgree == Spec => []KeysAgree
<1>1. Typed /\ Agreement => KeysAgree
  <2> SUFFICES ASSUME Typed, Agreement, NEW r \in Regionals,
                      Cardinality(auth[r].key) = 2, keys[KeyId(r)] # NoKey
               PROVE  \/ keys[KeyId(r)] = auth[r].key
                      \/ Latest(keys[KeyId(r)]) > Latest(auth[r].key)
    BY DEF KeysAgree
  <2>1. auth[r].key # NoKey
    BY FS_EmptySet DEF NoKey
  <2>2. \A g \in Nat : auth[r].key # Configured(g)
    <3> SUFFICES ASSUME NEW g \in Nat, auth[r].key = {-g} PROVE FALSE
      BY DEF Configured
    <3>1. Cardinality({-g}) = 1
      BY FS_Singleton
    <3> QED
      BY <3>1
  <2>3. PICK i \in 1 .. serial, j \in 1 .. serial :
          i < j /\ auth[r].key = {i, j} /\ UpToDate(keys[KeyId(r)], i, j, serial)
    BY <2>1, <2>2 DEF Agreement, UsedAgrees
  <2>4. serial \in Nat
    BY DEF Typed
  <2>5. Latest(auth[r].key) = j
    BY <2>3, <2>4, LatestOfPair
  <2>6. ASSUME NEW a \in 1 .. serial, NEW b \in 1 .. serial, a < b, j < b,
               keys[KeyId(r)] = {a, b}
        PROVE  Latest(keys[KeyId(r)]) > Latest(auth[r].key)
    <3>1. Latest(keys[KeyId(r)]) = b
      BY <2>4, <2>6, LatestOfPair
    <3> QED
      BY <2>4, <2>5, <2>6, <3>1
  <2> QED
    BY <2>3, <2>6 DEF UpToDate
<1> QED
  BY <1>1, Invariance, PTL DEF IInv

============================================================================
