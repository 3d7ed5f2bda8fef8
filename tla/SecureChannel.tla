--------------------------- MODULE SecureChannel ---------------------------
(***************************************************************************)
(* Signed messages between Regional Controllers and the Global Controller  *)
(* over HTTP: the message authenticator (pdsno/security/message_auth.py),  *)
(* the Diffie-Hellman key exchange and the key rotation scheduler          *)
(* (pdsno/security/key_distribution.py, perform_key_exchange and           *)
(* handle_key_exchange_init of the controllers), the HTTP client with its  *)
(* retries (pdsno/communication/http_client.py) and the endpoint of the    *)
(* REST server (pdsno/communication/rest_server.py).                       *)
(*                                                                         *)
(* Requests are lost, delayed and delivered twice; answers are lost or     *)
(* come after the client's timeout; the Global Controller's process        *)
(* restarts.                                                               *)
(*                                                                         *)
(* Fresh random values (nonces, private keys, generated keys) are the      *)
(* numbers 1 .. MaxSerial in the order they are drawn.  A key is the set   *)
(* of the numbers it is computed from: {i, j} is the secret that both      *)
(* sides of an exchange derive from the private keys i and j, {n} a        *)
(* generated key, {-g} generation g of the secret the operators configure. *)
(***************************************************************************)
EXTENDS Integers, Sequences, FiniteSets

CONSTANTS
  Regionals,      \* the Regional Controllers
  Global,         \* the Global Controller
  Skew,           \* Skew[c]: how far c's clock is ahead
  Tolerance,      \* MessageAuthenticator.TIMESTAMP_TOLERANCE
  ClearAfter,     \* verified messages between two nonce cleanups
  MaxRetries,     \* max_retries of send_with_retry
  MaxVersion,     \* bound: longest chain of _v2 suffixes
  MaxGeneration,  \* bound: generations of the configured secret
  MaxSerial,      \* bound: fresh random values
  MaxTime,        \* bound: the clock
  MaxEpoch        \* bound: times the Global forgets its nonces

Controllers == Regionals \cup {Global}

ASSUME ChannelAssumption ==
  /\ Global \notin Regionals
  /\ Skew \in [Controllers -> Int]
  /\ {Tolerance, MaxTime, MaxEpoch} \subseteq Nat
  /\ {ClearAfter, MaxRetries, MaxVersion, MaxGeneration, MaxSerial}
       \subseteq Nat \ {0}

VARIABLES
  deployed,   \* the authenticator every process starts with, or NoAuth
  hosted,     \* Regional Controllers that run in the Global's process
  now,        \* real time
  serial,     \* random values drawn so far
  auth,       \* auth[c]: the authenticator c signs and verifies with, or NoAuth
  keys,       \* keys[k]: key k of the Global's KeyManager, or NoKey
  pending,    \* pending[r]: private key in active_exchanges, or 0
  validated,  \* validated[r]: controller_id is the assigned one
  call,       \* call[r]: the request r waits for, or Idle
  net,        \* requests under way
  answers,    \* answers under way
  epoch,      \* history: times the Global's nonces were forgotten
  handled     \* history: handled[n]: epochs in which nonce n was let through

server == <<deployed, hosted, epoch, handled>>
vars == <<deployed, hosted, now, serial, auth, keys, pending, validated, call,
          net, answers, epoch, handled>>

NoAuth == [key |-> {}, seen |-> {}, count |-> 0]
NoKey  == {}
Idle   == [kind |-> "idle", id |-> 0, left |-> 0]

Configured(g) == {-g}

\* MessageAuthenticator.__init__: nothing seen yet
NewAuth(key) == [key |-> key, seen |-> {}, count |-> 0]

\* KeyManager.derive_key_id sorts the pair: one id per Regional Controller at
\* the Global, v > 1 for the ids with v - 1 suffixes "_v2"
KeyIds == Regionals \X (1 .. MaxVersion)
KeyId(r) == <<r, 1>>

Clock(c) == now + Skew[c]

-----------------------------------------------------------------------------
(***************************************************************************)
(* MessageAuthenticator                                                    *)
(***************************************************************************)

Unsigned == [key |-> NoKey, nonce |-> 0, at |-> 0]

\* sign_message, by a controller that has an authenticator: every call draws a
\* nonce and stamps the signer's time
Signed(c, nonce) ==
  IF auth[c].key = NoKey
    THEN Unsigned
    ELSE [key |-> auth[c].key, nonce |-> nonce, at |-> Clock(c)]

\* verify_message up to the signature
Verified(c, s) ==
  /\ s.key # NoKey
  /\ Clock(c) - s.at \in -Tolerance .. Tolerance
  /\ s.nonce \notin auth[c].seen
  /\ s.key = auth[c].key

\* A bug to be caught: the nonce is not recorded
RecordedNot(a, nonce) ==
  IF a.count + 1 >= ClearAfter THEN NewAuth(a.key) ELSE [a EXCEPT !.count = @ + 1]

\* its last step: record the nonce, and _cleanup_old_nonces, which forgets
\* every nonce after ClearAfter verified messages
Recorded(a, nonce) ==
  IF a.count + 1 >= ClearAfter
    THEN NewAuth(a.key)
    ELSE [a EXCEPT !.seen = @ \cup {nonce}, !.count = @ + 1]

Forgets(a) == a.count + 1 >= ClearAfter

-----------------------------------------------------------------------------
(***************************************************************************)
(* The client: ControllerHTTPClient and perform_key_exchange               *)
(***************************************************************************)

Init ==
  /\ now = 0 /\ serial = 0 /\ epoch = 0
  /\ deployed \in {NoAuth, NewAuth(Configured(1))}
  /\ hosted \in SUBSET Regionals
  /\ auth = [c \in Controllers |-> deployed]
  /\ keys = [k \in KeyIds |-> NoKey]
  /\ pending = [r \in Regionals |-> 0]
  /\ validated = [r \in Regionals |-> FALSE]
  /\ call = [r \in Regionals |-> Idle]
  /\ net = {} /\ answers = {}
  /\ handled = [n \in 1 .. MaxSerial |-> <<>>]

\* send posts the envelope, signed if there is an authenticator and sign is set.
Post(r, kind, id, sig) ==
  net' = net \cup {[from |-> r, kind |-> kind, id |-> id, sig |-> sig,
                    copy |-> FALSE]}

\* send, alone or in send_with_retry with its max_retries attempts
Send(r, tries) ==
  /\ call[r] = Idle
  /\ serial + tries <= MaxSerial
  /\ serial' = serial + tries
  /\ call' = [call EXCEPT ![r] = [kind |-> "msg", id |-> serial + 1,
                                  left |-> tries - 1]]
  /\ Post(r, "msg", serial + 1, Signed(r, serial + 1))
  /\ UNCHANGED <<now, auth, keys, pending, validated, answers, server>>

\* DHKeyExchange.compute_shared_secret: both sides derive the same key
SharedSecret(i, j) == {i, j}

\* initiate_key_exchange: a new private key takes the place of one that an
\* earlier attempt left
Initiate(r) ==
  /\ serial < MaxSerial
  /\ serial' = serial + 1
  /\ pending' = [pending EXCEPT ![r] = serial + 1]

\* perform_key_exchange, steps 1 and 2: the request is not signed.  Processes
\* deployed with a common secret have no key protocol, and return at once.
Exchange(r) ==
  /\ call[r] = Idle
  /\ deployed = NoAuth
  /\ Initiate(r)
  /\ call' = [call EXCEPT ![r] = [kind |-> "init", id |-> serial + 1,
                                  left |-> 0]]
  /\ Post(r, "init", serial + 1, Unsigned)
  /\ UNCHANGED <<now, auth, keys, validated, answers, server>>

\* A timeout or a connection error: send_with_retry sends the payload in a new
\* envelope, signed anew, until its attempts are used up.
TimeOut(r) ==
  /\ call[r] # Idle
  /\ IF call[r].left > 0
       THEN /\ call' = [call EXCEPT ![r].id = @ + 1, ![r].left = @ - 1]
            /\ Post(r, "msg", call[r].id + 1, Signed(r, call[r].id + 1))
       ELSE /\ call' = [call EXCEPT ![r] = Idle]
            /\ UNCHANGED net
  /\ answers' = {a \in answers : a.to # r}
  /\ UNCHANGED <<now, serial, auth, keys, pending, validated, server>>

\* finalize_key_exchange: the key from the pending private key, which is used up
Finalize(r) == pending' = [pending EXCEPT ![r] = 0]

\* Step 4.  The key went through r's own KeyManager, stored under the id that the
\* protocol object was made with and read back under the current controller_id:
\* after validation these differ, there is no key to read, the exchange counts
\* as failed and the authenticator stays.
WithAuthenticator(auths, r, key) ==
  IF validated[r] THEN auths ELSE [auths EXCEPT ![r] = NewAuth(key)]

\* The answer comes in time.  An HTTP error is not retried.  A signed answer is
\* verified if there is an authenticator, an unsigned one is taken as it is; an
\* answer without a public key ends the exchange.
Receive(r, a) ==
  /\ a \in answers /\ a.to = r
  /\ LET verify  == auth[r].key # NoKey /\ a.sig.key # NoKey
         good    == a.code # "error" /\ (verify => Verified(r, a.sig))
         checked == IF good /\ verify
                      THEN [auth EXCEPT ![r] = Recorded(@, a.sig.nonce)]
                      ELSE auth
     IN IF good /\ a.code = "key"
          THEN /\ Finalize(r)
               /\ auth' = WithAuthenticator(checked, r,
                                            SharedSecret(pending[r], a.public))
          ELSE auth' = checked /\ UNCHANGED pending
  /\ call' = [call EXCEPT ![r] = Idle]
  /\ answers' = {b \in answers : b.to # r}
  /\ UNCHANGED <<now, serial, keys, validated, net, server>>

\* _handle_validation_result: the temporary id gives way to the assigned one
Validated(r) ==
  /\ ~validated[r]
  /\ validated' = [validated EXCEPT ![r] = TRUE]
  /\ UNCHANGED <<now, serial, auth, keys, pending, call, net, answers,
                 server>>

-----------------------------------------------------------------------------
(***************************************************************************)
(* The Global Controller's REST server                                     *)
(***************************************************************************)

\* The answer goes back over the request's connection: a client that has given
\* up on this request never sees it.
Answer(m, code, sig, public) ==
  answers' = IF call[m.from].id = m.id
               THEN answers \cup {[to |-> m.from, code |-> code, sig |-> sig,
                                  public |-> public]}
               ELSE answers

\* The request leaves the network, or leaves a copy to be delivered again; at
\* most one copy is under way.
Taken(m) ==
  \/ net' = net \ {m}
  \/ /\ \A n \in net : ~n.copy
     /\ net' = (net \ {m}) \cup {[m EXCEPT !.copy = TRUE]}

\* With an authenticator a request must verify, and its nonce is recorded before
\* the recipient is compared and the handler called; without one every request
\* passes.
Admitted(m) ==
  auth[Global].key = NoKey \/ Verified(Global, m.sig)

\* The request is answered with an HTTP error and nothing else happens.
TurnedAway(m) ==
  /\ net' = net \ {m}
  /\ Answer(m, "error", Unsigned, 0)
  /\ UNCHANGED <<now, serial, auth, keys, pending, validated, call,
                 server>>

\* The 401 of a request whose signature is missing or wrong, too old, or seen
\* before
Refuse(m) == m \in net /\ ~Admitted(m) /\ TurnedAway(m)

\* The middleware's rate limit, before the endpoint runs
Throttle(m) == m \in net /\ TurnedAway(m)

Admit(m) ==
  IF auth[Global].key = NoKey
    THEN UNCHANGED <<auth, server>>
    ELSE /\ auth' = [auth EXCEPT ![Global] = Recorded(@, m.id)]
         /\ handled' = [handled EXCEPT ![m.id] = Append(@, epoch)]
         /\ epoch' = IF Forgets(auth[Global]) THEN epoch + 1 ELSE epoch
         /\ UNCHANGED <<deployed, hosted>>

\* Past the signature, the request fails: its recipient is another controller
\* (400), or the handler raises (500).
Fail(m) ==
  /\ m \in net /\ m.kind = "msg" /\ Admitted(m) /\ epoch < MaxEpoch
  /\ Admit(m)
  /\ Taken(m)
  /\ Answer(m, "error", Unsigned, 0)
  /\ UNCHANGED <<now, serial, keys, pending, validated, call>>

\* The handler of an ordinary message answers with an envelope, which the server
\* signs if it can.
Handle(m) ==
  /\ m \in net /\ m.kind = "msg" /\ Admitted(m) /\ epoch < MaxEpoch
  /\ Admit(m)
  /\ Taken(m)
  /\ Answer(m, "ok", Signed(Global, -m.id), 0)
  /\ UNCHANGED <<now, serial, keys, pending, validated, call>>

\* A bug to be caught: a key that is there already stays
SetKeyOnce(k, key) ==
  IF keys[k] = NoKey THEN [keys EXCEPT ![k] = key] ELSE keys

\* KeyManager.set_key
SetKey(k, key) == [keys EXCEPT ![k] = key]

\* respond_to_key_exchange: the key is computed and stored before the answer
\* leaves, over whatever was stored for this controller.
RespondTo(m) ==
  /\ serial < MaxSerial
  /\ serial' = serial + 1
  /\ keys' = SetKey(KeyId(m.from), SharedSecret(m.id, serial + 1))
  /\ Answer(m, "key", Signed(Global, -m.id), serial + 1)

\* handle_key_exchange_init.  The group parameters are made once per process, so
\* the public key of a controller in another process is of another group: the
\* computation raises, nothing is stored and the answer is a rejection.
Respond(m) ==
  /\ m \in net /\ m.kind = "init" /\ Admitted(m) /\ epoch < MaxEpoch
  /\ Admit(m)
  /\ Taken(m)
  /\ \/ m.from \in hosted /\ RespondTo(m)
     \/ /\ m.from \notin hosted
        /\ Answer(m, "ok", Signed(Global, -m.id), 0)
        /\ UNCHANGED <<serial, keys>>
  /\ UNCHANGED <<now, pending, validated, call>>

\* The network loses a request; its client runs into the timeout.
Lose(m) ==
  /\ m \in net
  /\ net' = net \ {m}
  /\ UNCHANGED <<now, serial, auth, keys, pending, validated, call,
                 answers, server>>

-----------------------------------------------------------------------------
(***************************************************************************)
(* Keys: operators and the rotation scheduler                              *)
(***************************************************************************)

\* The operator gives the Global Controller an authenticator with the key it
\* shares with r, as the key distribution example does.
Configure(r) ==
  /\ keys[KeyId(r)] # NoKey /\ epoch < MaxEpoch
  /\ auth' = [auth EXCEPT ![Global] = NewAuth(keys[KeyId(r)])]
  /\ epoch' = epoch + 1
  /\ UNCHANGED <<now, serial, keys, pending, validated, call, net, answers,
                 deployed, hosted, handled>>

\* rotate_key: at once, and only on this side; the nonces stay
RotateKey(c, g) ==
  /\ auth[c].key = Configured(g) /\ g < MaxGeneration
  /\ auth' = [auth EXCEPT ![c].key = Configured(g + 1)]
  /\ UNCHANGED <<now, serial, keys, pending, validated, call, net, answers,
                 server>>

\* The scheduler's key_metadata (register_key) is not kept: it answers
\* check_rotation_needed, no operation on keys depends on it, and an id that is not
\* registered makes initiate_rotation raise only after the new key is stored.

\* initiate_rotation, due or not: the successor is generated and stored under an
\* id of its own, over one that an earlier call left
InitiateRotation(k) ==
  /\ k[2] < MaxVersion /\ serial < MaxSerial
  /\ serial' = serial + 1
  /\ keys' = SetKey(<<k[1], k[2] + 1>>, {serial + 1})
  /\ UNCHANGED <<now, auth, pending, validated, call, net, answers, server>>

\* complete_rotation: the old key is deleted; nobody asks whether a rotation was
\* begun, or an exchange has stored another key under the id since.
CompleteRotation(k) ==
  /\ keys[k] # NoKey
  /\ keys' = [keys EXCEPT ![k] = NoKey]
  /\ UNCHANGED <<now, serial, auth, pending, validated, call, net, answers, server>>

\* The Global Controller's process starts again, and with it the Regional
\* Controllers it hosts: authenticators are the deployed ones again, the key
\* managers are empty.
Restart ==
  LET gone == hosted \cup {Global}
  IN /\ epoch < MaxEpoch
     /\ epoch' = epoch + 1
     /\ auth' = [c \in Controllers |-> IF c \in gone THEN deployed ELSE auth[c]]
     /\ keys' = [k \in KeyIds |-> NoKey]
     /\ pending' = [r \in Regionals |-> IF r \in gone THEN 0 ELSE pending[r]]
     /\ validated' = [r \in Regionals |-> r \notin gone /\ validated[r]]
     /\ call' = [r \in Regionals |-> IF r \in gone THEN Idle ELSE call[r]]
     /\ answers' = {}
     /\ UNCHANGED <<deployed, hosted, now, serial, net, handled>>

Tick ==
  /\ now < MaxTime
  /\ now' = now + 1
  /\ UNCHANGED <<serial, auth, keys, pending, validated, call, net, answers,
                 server>>

ClientStep(r) == TimeOut(r) \/ \E a \in answers : Receive(r, a)

Next ==
  \/ \E r \in Regionals :
       \/ \E tries \in {1, MaxRetries} : Send(r, tries)
       \/ Exchange(r) \/ ClientStep(r) \/ Validated(r) \/ Configure(r)
  \/ \E m \in net :
       \/ Throttle(m) \/ Refuse(m) \/ Fail(m) \/ Handle(m) \/ Respond(m)
       \/ Lose(m)
  \/ \E c \in Controllers, g \in 1 .. MaxGeneration : RotateKey(c, g)
  \/ \E k \in KeyIds :
       InitiateRotation(k) \/ CompleteRotation(k)
  \/ Restart
  \/ Tick

Spec == Init /\ [][Next]_vars

-----------------------------------------------------------------------------
(***************************************************************************)
(* Properties                                                              *)
(***************************************************************************)

\* Replay protection: one signed transmission passes the Global Controller's
\* authenticator at most once between two moments at which the nonces are
\* forgotten (the cleanup after ClearAfter messages, a new authenticator, a
\* restart), whatever is delivered twice or late, whichever handlers fail after
\* the nonce was recorded, and across rotate_key.
HandledOnce ==
  \A n \in DOMAIN handled : \A i, j \in DOMAIN handled[n] :
    i < j => handled[n][i] < handled[n][j]

Latest(key) == CHOOSE n \in key : \A m \in key : m <= n

\* Key agreement: when a Regional Controller signs with a key from an exchange,
\* the Global Controller holds the same key for it, or a younger one, from a
\* request that reached it later (a duplicate, or an attempt the client gave up
\* on); it never holds an older one.
KeysAgree ==
  \A r \in Regionals :
    LET mine == auth[r].key
        held == keys[KeyId(r)]
    IN Cardinality(mine) = 2 /\ held # NoKey =>
         held = mine \/ Latest(held) > Latest(mine)

=============================================================================
