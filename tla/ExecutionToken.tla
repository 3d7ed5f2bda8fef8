---------------------------- MODULE ExecutionToken ----------------------------
(***************************************************************************)
(* ExecutionTokenManager: signed, device-specific, time-bounded tokens,    *)
(* issued by a Regional or the Global Controller and verified by Local     *)
(* Controllers.  Each verifier keeps the nonces it has accepted in memory, *)
(* and forgets all of them at every CleanupAt-th acceptance and when it    *)
(* restarts.  revoke_token only logs.                                      *)
(***************************************************************************)
EXTENDS Integers, FiniteSets, Sequences

CONSTANTS
    Issuers, Verifiers, Devices,
    SecretOf,     \* [Issuers \union Verifiers -> secrets]: one secret per region
    Lifetimes,    \* validity_minutes an issuer may ask for (5 and 15)
    CleanupAt,    \* 1000
    MaxTime,      \* bound on the clock
    MaxTokens,    \* bound: tokens issued
    MaxVerifies,  \* bound: acceptances of one token
    MaxCrashes    \* bound: restarts of verifiers

ASSUME ConstantsAssumption ==
    /\ Lifetimes \subseteq Nat
    /\ CleanupAt \in Nat \ {0}
    /\ MaxTime \in Nat /\ MaxTokens \in Nat /\ MaxVerifies \in Nat /\ MaxCrashes \in Nat

VARIABLES
    now,
    tokens,     \* the tokens issued; the nonce of the i-th is i
    usedNonces, \* usedNonces[v]: the nonces v remembers
    counter,    \* counter[v]: nonce_cleanup_counter of v
    accepted,   \* history: accepted[v][n]: the acceptances of nonce n by v, each
                \* told by forgot[v] at that time
    forgot,     \* history: forgot[v]: how often v forgot its nonces
    crashes

vars == <<now, tokens, usedNonces, counter, accepted, forgot, crashes>>

Nonces == 1..MaxTokens

Secrets == {SecretOf[m] : m \in Issuers \union Verifiers}

\* The signature covers every other field, so it is told by the secret it was made with.
Token == [nonce : Nonces, device : Devices, expires_at : Nat, secret : Secrets]

Init ==
    /\ now = 0
    /\ tokens = {}
    /\ usedNonces = [v \in Verifiers |-> {}]
    /\ counter = [v \in Verifiers |-> 0]
    /\ accepted = [v \in Verifiers |-> [n \in Nonces |-> <<>>]]
    /\ forgot = [v \in Verifiers |-> 0]
    /\ crashes = 0

\* Nonces in use so far; secrets.token_hex never repeats.
Issued == {t.nonce : t \in tokens}

\* issue_token
IssueToken(m, d, validity) ==
    \E n \in Nonces \ Issued :
        /\ \A k \in Nonces \ Issued : n <= k
        /\ tokens' = tokens \union
               {[nonce |-> n, device |-> d, expires_at |-> now + validity,
                 secret |-> SecretOf[m]]}
        /\ UNCHANGED <<now, usedNonces, counter, accepted, forgot, crashes>>

\* A bug to be caught: a replayed token is let through when it comes back to
\* another device than the one it names.
RejectedUnlessMisdirected(v, t, d) ==
    \/ SecretOf[v] # t.secret
    \/ now > t.expires_at
    \/ t.nonce \in usedNonces[v] /\ t.device # d

\* verify_token: the reasons to refuse t for device d.
Rejected(v, t, d) ==
    \/ SecretOf[v] # t.secret
    \/ now > t.expires_at
    \/ t.nonce \in usedNonces[v]
    \/ t.device # d

Cleanup(v) == counter[v] + 1 >= CleanupAt

\* The nonce is added, and then _cleanup_nonces may clear the set, the nonce
\* just added included.
CleanupNonces(v, n) ==
    /\ usedNonces' = [usedNonces EXCEPT ![v] = IF Cleanup(v) THEN {} ELSE @ \union {n}]
    /\ counter' = [counter EXCEPT ![v] = IF Cleanup(v) THEN 0 ELSE @ + 1]
    /\ forgot' = [forgot EXCEPT ![v] = IF Cleanup(v) THEN @ + 1 ELSE @]

\* A bug to be caught: the nonce is noted before the device is compared, so that
\* a token presented for the wrong device is burnt.
VerifyTokenBurns(v, t, d) ==
    /\ SecretOf[v] = t.secret /\ now <= t.expires_at /\ t.nonce \notin usedNonces[v]
    /\ CleanupNonces(v, t.nonce)
    /\ accepted' = IF t.device = d
                   THEN [accepted EXCEPT ![v][t.nonce] = Append(@, forgot[v])] ELSE accepted
    /\ UNCHANGED <<now, tokens, crashes>>

\* verify_token accepts t.  (When it refuses, nothing changes.)
VerifyToken(v, t, d) ==
    /\ ~Rejected(v, t, d)
    /\ CleanupNonces(v, t.nonce)
    /\ accepted' = [accepted EXCEPT ![v][t.nonce] = Append(@, forgot[v])]
    /\ UNCHANGED <<now, tokens, crashes>>

\* A verifier restarts with a new ExecutionTokenManager.
Restart(v) ==
    /\ crashes < MaxCrashes
    /\ crashes' = crashes + 1
    /\ usedNonces' = [usedNonces EXCEPT ![v] = {}]
    /\ counter' = [counter EXCEPT ![v] = 0]
    /\ forgot' = [forgot EXCEPT ![v] = @ + 1]
    /\ UNCHANGED <<now, tokens, accepted>>

Tick ==
    /\ now < MaxTime
    /\ now' = now + 1
    /\ UNCHANGED <<tokens, usedNonces, counter, accepted, forgot, crashes>>

Bounded == \A v \in Verifiers : \A n \in Nonces : Len(accepted[v][n]) < MaxVerifies

Next ==
    \/ \E m \in Issuers, d \in Devices, w \in Lifetimes : IssueToken(m, d, w)
    \/ \E v \in Verifiers, t \in tokens, d \in Devices : Bounded /\ VerifyToken(v, t, d)
    \/ \E v \in Verifiers : Restart(v)
    \/ Tick

Spec == Init /\ [][Next]_vars
-----------------------------------------------------------------------------

\* Type correctness of the tokens and of what the verifiers remember.
TypeOK ==
    /\ now \in Nat
    /\ tokens \subseteq Token
    /\ usedNonces \in [Verifiers -> SUBSET Nonces]
    /\ counter \in [Verifiers -> 0..(CleanupAt - 1)]
    /\ accepted \in [Verifiers -> [Nonces -> Seq(Nat)]]
    /\ forgot \in [Verifiers -> Nat]
    /\ crashes \in Nat

\* The replay memory of a verifier holds exactly as many nonces as the counter
\* says, hence fewer than CleanupAt: it never grows beyond its limit, and it is
\* never cleared before it is full.
MemoryCounted ==
    \A v \in Verifiers : Cardinality(usedNonces[v]) = counter[v]

\* verify_token accepts a token again only after _cleanup_nonces or a restart has
\* emptied the memory that held its nonce: of two acceptances by one verifier, the
\* later one was made with a memory that began after the earlier one.
OncePerMemory ==
    \A v \in Verifiers : \A n \in Nonces :
        \A i, j \in 1..Len(accepted[v][n]) :
            i < j => accepted[v][n][i] < accepted[v][n][j]

\* What the module documentation of execution_token.py says: a token is single-use,
\* at least as long as its verifier runs.  _cleanup_nonces breaks it.
SingleUse ==
    \A v \in Verifiers : \A n \in Nonces : Len(accepted[v][n]) <= 1

\* No token is refused as a replay that was not accepted before: a token that was
\* presented for the wrong device, or to the wrong region, can still be redeemed.
ReplayIsReal ==
    \A v \in Verifiers : \A n \in usedNonces[v] : accepted[v][n] # <<>>

\* Why OncePerMemory is inductive: no acceptance is younger than the memory, and
\* the nonces accepted with this memory are in it.
Remembered ==
    \A v \in Verifiers : \A n \in Nonces :
        \A i \in 1..Len(accepted[v][n]) :
            /\ accepted[v][n][i] <= forgot[v]
            /\ accepted[v][n][i] = forgot[v] => n \in usedNonces[v]

\* The inductive invariant.
IInv == TypeOK /\ MemoryCounted /\ Remembered /\ OncePerMemory /\ ReplayIsReal
=============================================================================
