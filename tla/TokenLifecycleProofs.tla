------------------------- MODULE TokenLifecycleProofs -------------------------
(***************************************************************************)
(* Proofs about the life of a change and of the tokens it is executed      *)
(* with: about ExecutionToken for every set of issuers, verifiers and      *)
(* devices, every cleanup threshold and every bound; and about             *)
(* ConfigLifecycle for every set of changes and devices, every             *)
(* classification, every choice of engines and keep_count and every bound. *)
(***************************************************************************)
EXTENDS ExecutionToken, ConfigLifecycle, FiniteSetTheorems, TLAPS

\* A verifier's memory is finite: it holds nonces of tokens.
LEMMA MemoryFinite ==
    ASSUME NEW S \in SUBSET Nonces
    PROVE  IsFiniteSet(S)
<1>1. IsFiniteSet(Nonces)
  BY FS_Interval, ConstantsAssumption DEF Nonces
<1> QED
  BY <1>1, FS_Subset

\* Remembering a new nonce makes the memory larger by one.
LEMMA MemoryGrows ==
    ASSUME NEW S \in SUBSET Nonces, NEW n \in Nonces, n \notin S
    PROVE  Cardinality(S \union {n}) = Cardinality(S) + 1
BY MemoryFinite, FS_AddElement

\* Verifiers start with nothing remembered and nothing accepted.
LEMMA InitIInv == Init => IInv
<1> SUFFICES ASSUME Init PROVE IInv
  OBVIOUS
<1>1. TypeOK
  BY ConstantsAssumption DEF Init, TypeOK
<1>2. MemoryCounted
  BY FS_EmptySet DEF Init, MemoryCounted
<1> QED
  BY <1>1, <1>2 DEF Init, IInv, Remembered, OncePerMemory, ReplayIsReal

\* The history after an acceptance: the earlier ones, and this one at the end.
LEMMA AcceptedAgain ==
    ASSUME TypeOK, NEW v \in Verifiers, NEW n \in Nonces,
           accepted' = [accepted EXCEPT ![v][n] = Append(@, forgot[v])]
    PROVE  /\ accepted' \in [Verifiers -> [Nonces -> Seq(Nat)]]
           /\ \A w \in Verifiers : \A k \in Nonces : w # v \/ k # n => accepted'[w][k] = accepted[w][k]
           /\ Len(accepted[v][n]) \in Nat
           /\ \A i \in 1..Len(accepted[v][n]) : accepted[v][n][i] \in Nat
           /\ Len(accepted'[v][n]) = Len(accepted[v][n]) + 1
           /\ accepted'[v][n][Len(accepted[v][n]) + 1] = forgot[v]
           /\ \A i \in 1..Len(accepted[v][n]) : accepted'[v][n][i] = accepted[v][n][i]
           /\ accepted'[v][n] # <<>>
<1>1. accepted[v][n] \in Seq(Nat) /\ forgot[v] \in Nat
  BY DEF TypeOK
<1>2. accepted'[v][n] = Append(accepted[v][n], forgot[v])
  BY DEF TypeOK
<1>3. Append(accepted[v][n], forgot[v]) \in Seq(Nat)
  BY <1>1
<1>4. /\ accepted' \in [Verifiers -> [Nonces -> Seq(Nat)]]
      /\ \A w \in Verifiers : \A k \in Nonces : w # v \/ k # n => accepted'[w][k] = accepted[w][k]
  BY <1>1, <1>3 DEF TypeOK
<1> QED
  BY <1>1, <1>2, <1>4

\* A nonce that is not remembered was accepted, if at all, with earlier memories, so
\* that accepting it now keeps the acceptances in order.
LEMMA StaysInOrder ==
    ASSUME TypeOK, Remembered, OncePerMemory, NEW v \in Verifiers, NEW n \in Nonces,
           n \notin usedNonces[v],
           accepted' = [accepted EXCEPT ![v][n] = Append(@, forgot[v])]
    PROVE  OncePerMemory'
<1> SUFFICES ASSUME NEW w \in Verifiers, NEW k \in Nonces,
                    NEW i \in 1..Len(accepted'[w][k]), NEW j \in 1..Len(accepted'[w][k]), i < j
             PROVE  accepted'[w][k][i] < accepted'[w][k][j]
  BY DEF OncePerMemory
<1>0. /\ accepted' \in [Verifiers -> [Nonces -> Seq(Nat)]]
      /\ \A x \in Verifiers : \A y \in Nonces : x # v \/ y # n => accepted'[x][y] = accepted[x][y]
      /\ Len(accepted[v][n]) \in Nat
      /\ \A x \in 1..Len(accepted[v][n]) : accepted[v][n][x] \in Nat
      /\ Len(accepted'[v][n]) = Len(accepted[v][n]) + 1
      /\ accepted'[v][n][Len(accepted[v][n]) + 1] = forgot[v]
      /\ \A x \in 1..Len(accepted[v][n]) : accepted'[v][n][x] = accepted[v][n][x]
      /\ accepted'[v][n] # <<>>
  BY AcceptedAgain
<1>1. CASE w # v \/ k # n
  BY <1>0, <1>1 DEF OncePerMemory
<1>2. CASE w = v /\ k = n
  <2> DEFINE s == accepted[v][n]
             t == accepted'[v][n]
             m == Len(accepted[v][n])
  <2>1. /\ m \in Nat /\ Len(t) = m + 1 /\ t[m + 1] = forgot[v]
        /\ \A x \in 1..m : t[x] = s[x]
    BY <1>0
  <2>2. \A x \in 1..m : s[x] \in Nat
    BY <1>0
  <2>3. forgot[v] \in Nat
    BY DEF TypeOK
  <2>4. \A x \in 1..m : s[x] < forgot[v]
    BY <2>2, <2>3 DEF Remembered
  <2>5. \A x, y \in 1..m : x < y => s[x] < s[y]
    BY DEF OncePerMemory
  <2>6. i \in 1..(m + 1) /\ j \in 1..(m + 1)
    BY <1>2, <2>1
  <2> HIDE DEF s, t, m
  <2>7. t[i] < t[j]
    BY <2>1, <2>4, <2>5, <2>6
  <2> QED
    BY <1>2, <2>7 DEF t
<1> QED
  BY <1>1, <1>2

\* verify_token preserves the inductive invariant, whether or not the acceptance
\* is the one at which the memory is cleared.
LEMMA VerifyIInv ==
    ASSUME IInv, NEW v \in Verifiers, NEW t \in tokens, NEW d \in Devices,
           VerifyToken(v, t, d)
    PROVE  IInv'
<1> DEFINE n == t.nonce
<1>1. n \in Nonces /\ n \notin usedNonces[v]
  BY DEF IInv, TypeOK, Token, VerifyToken, Rejected
<1>2. /\ accepted' = [accepted EXCEPT ![v][n] = Append(@, forgot[v])]
      /\ UNCHANGED <<now, tokens, crashes>>
  BY DEF VerifyToken
<1>3. counter[v] \in Nat /\ counter[v] < CleanupAt /\ CleanupAt \in Nat
  BY ConstantsAssumption DEF IInv, TypeOK
<1>4. /\ accepted' \in [Verifiers -> [Nonces -> Seq(Nat)]]
      /\ \A w \in Verifiers : \A k \in Nonces : w # v \/ k # n => accepted'[w][k] = accepted[w][k]
      /\ Len(accepted[v][n]) \in Nat
      /\ \A i \in 1..Len(accepted[v][n]) : accepted[v][n][i] \in Nat
      /\ Len(accepted'[v][n]) = Len(accepted[v][n]) + 1
      /\ accepted'[v][n][Len(accepted[v][n]) + 1] = forgot[v]
      /\ \A i \in 1..Len(accepted[v][n]) : accepted'[v][n][i] = accepted[v][n][i]
      /\ accepted'[v][n] # <<>>
  <2>1. TypeOK
    BY DEF IInv
  <2> HIDE DEF n
  <2> QED
    BY <1>1, <1>2, <2>1, AcceptedAgain
<1>5. OncePerMemory'
  BY <1>1, <1>2, StaysInOrder DEF IInv
<1>6. TypeOK /\ MemoryCounted /\ Remembered /\ ReplayIsReal
  BY DEF IInv
<1>7. \A w \in Verifiers : forgot[w] \in Nat
  BY <1>6 DEF TypeOK
<1>8. \A w \in Verifiers, k \in Nonces : \A i \in 1..Len(accepted'[w][k]) :
         /\ accepted'[w][k][i] \in Nat /\ accepted'[w][k][i] <= forgot[w]
         /\ accepted'[w][k][i] = forgot[w] => k \in usedNonces[w] \/ (w = v /\ k = n)
  <2> SUFFICES ASSUME NEW w \in Verifiers, NEW k \in Nonces,
                      NEW i \in 1..Len(accepted'[w][k])
               PROVE  /\ accepted'[w][k][i] \in Nat /\ accepted'[w][k][i] <= forgot[w]
                      /\ accepted'[w][k][i] = forgot[w] =>
                           k \in usedNonces[w] \/ (w = v /\ k = n)
    OBVIOUS
  <2>1. accepted'[w][k][i] \in Nat
    BY <1>4
  <2>2. CASE w # v \/ k # n
    BY <1>4, <1>6, <2>1, <2>2 DEF Remembered
  <2>3. CASE w = v /\ k = n
    <3>1. i \in 1..Len(accepted[v][n]) \/ i = Len(accepted[v][n]) + 1
      BY <1>4, <2>3
    <3>2. CASE i \in 1..Len(accepted[v][n])
      BY <1>1, <1>4, <1>6, <2>1, <2>3, <3>2 DEF Remembered
    <3>3. CASE i = Len(accepted[v][n]) + 1
      BY <1>4, <1>7, <2>1, <2>3, <3>3
    <3> QED
      BY <3>1, <3>2, <3>3
  <2> QED
    BY <2>2, <2>3
<1> HIDE DEF n
<1>9. CASE Cleanup(v)
  <2>1. /\ usedNonces' = [usedNonces EXCEPT ![v] = {}]
        /\ counter' = [counter EXCEPT ![v] = 0]
        /\ forgot' = [forgot EXCEPT ![v] = @ + 1]
    BY <1>9 DEF VerifyToken, CleanupNonces
  <2>2. TypeOK'
    BY <1>2, <1>4, <1>6, <2>1, ConstantsAssumption DEF TypeOK
  <2>3. MemoryCounted'
    BY <1>6, <2>1, FS_EmptySet DEF TypeOK, MemoryCounted
  <2>4. \A w \in Verifiers : /\ forgot'[w] = IF w = v THEN forgot[w] + 1 ELSE forgot[w]
                             /\ usedNonces'[w] = IF w = v THEN {} ELSE usedNonces[w]
    BY <1>6, <2>1 DEF TypeOK
  <2>5. Remembered'
    <3> SUFFICES ASSUME NEW w \in Verifiers, NEW k \in Nonces,
                        NEW i \in 1..Len(accepted'[w][k])
                 PROVE  /\ accepted'[w][k][i] <= forgot'[w]
                        /\ accepted'[w][k][i] = forgot'[w] => k \in usedNonces'[w]
      BY DEF Remembered
    <3> QED
      BY <1>7, <1>8, <2>4
  <2>6. ReplayIsReal'
    <3> SUFFICES ASSUME NEW w \in Verifiers, NEW k \in usedNonces'[w]
                 PROVE  accepted'[w][k] # <<>>
      BY DEF ReplayIsReal
    <3>1. w # v /\ k \in usedNonces[w]
      BY <2>4
    <3>2. k \in Nonces
      BY <1>6, <3>1 DEF TypeOK
    <3> QED
      BY <1>4, <1>6, <3>1, <3>2 DEF ReplayIsReal
  <2> QED
    BY <1>5, <2>2, <2>3, <2>5, <2>6 DEF IInv
<1>10. CASE ~Cleanup(v)
  <2>1. /\ usedNonces' = [usedNonces EXCEPT ![v] = @ \union {n}]
        /\ counter' = [counter EXCEPT ![v] = @ + 1]
        /\ forgot' = forgot
    BY <1>6, <1>10 DEF VerifyToken, CleanupNonces, TypeOK, n
  <2>2. counter[v] + 1 < CleanupAt
    BY <1>3, <1>10 DEF Cleanup
  <2>3. TypeOK'
    BY <1>1, <1>2, <1>3, <1>4, <1>6, <2>1, <2>2 DEF TypeOK
  <2>4. MemoryCounted'
    BY <1>1, <1>6, <2>1, MemoryGrows DEF TypeOK, MemoryCounted
  <2>5. \A w \in Verifiers : usedNonces'[w] = IF w = v THEN usedNonces[w] \union {n}
                                              ELSE usedNonces[w]
    BY <1>6, <2>1 DEF TypeOK
  <2>6. Remembered'
    <3> SUFFICES ASSUME NEW w \in Verifiers, NEW k \in Nonces,
                        NEW i \in 1..Len(accepted'[w][k])
                 PROVE  /\ accepted'[w][k][i] <= forgot[w]
                        /\ accepted'[w][k][i] = forgot[w] => k \in usedNonces'[w]
      BY <2>1 DEF Remembered
    <3> QED
      BY <1>8, <2>5
  <2>7. ReplayIsReal'
    <3> SUFFICES ASSUME NEW w \in Verifiers, NEW k \in usedNonces'[w]
                 PROVE  accepted'[w][k] # <<>>
      BY DEF ReplayIsReal
    <3>1. k \in usedNonces[w] \/ (w = v /\ k = n)
      BY <2>5
    <3>2. k \in Nonces
      BY <1>1, <1>6, <3>1 DEF TypeOK
    <3> QED
      BY <1>4, <1>6, <3>1, <3>2 DEF ReplayIsReal
  <2> QED
    BY <1>5, <2>3, <2>4, <2>6, <2>7 DEF IInv
<1> QED
  BY <1>9, <1>10

\* Every step preserves the inductive invariant.
LEMMA NextIInv == IInv /\ [Next]_vars => IInv'
<1> SUFFICES ASSUME IInv, [Next]_vars PROVE IInv'
  OBVIOUS
<1>1. ASSUME NEW m \in Issuers, NEW d \in Devices, NEW w \in Lifetimes, IssueToken(m, d, w)
      PROVE  IInv'
  <2>1. PICK n \in Nonces :
           tokens' = tokens \union {[nonce |-> n, device |-> d, expires_at |-> now + w,
                                     secret |-> SecretOf[m]]}
    BY <1>1 DEF IssueToken
  <2>2. w \in Nat /\ SecretOf[m] \in Secrets
    BY ConstantsAssumption DEF Secrets
  <2>3. tokens' \subseteq Token
    BY <2>1, <2>2 DEF IInv, TypeOK, Token
  <2> QED
    BY <1>1, <2>3 DEF IssueToken, IInv, TypeOK, MemoryCounted, Remembered, OncePerMemory,
          ReplayIsReal
<1>2. ASSUME NEW v \in Verifiers, NEW t \in tokens, NEW d \in Devices, VerifyToken(v, t, d)
      PROVE  IInv'
  BY <1>2, VerifyIInv
<1>3. ASSUME NEW v \in Verifiers, Restart(v)
      PROVE  IInv'
  <2>1. TypeOK'
    BY <1>3, ConstantsAssumption DEF Restart, IInv, TypeOK
  <2>2. MemoryCounted'
    BY <1>3, FS_EmptySet DEF Restart, IInv, TypeOK, MemoryCounted
  <2>3. \A w \in Verifiers : /\ forgot[w] \in Nat
                             /\ forgot'[w] = IF w = v THEN forgot[w] + 1 ELSE forgot[w]
                             /\ usedNonces'[w] = IF w = v THEN {} ELSE usedNonces[w]
    BY <1>3 DEF Restart, IInv, TypeOK
  <2>4. /\ accepted' = accepted
        /\ \A w \in Verifiers, k \in Nonces : \A i \in 1..Len(accepted[w][k]) :
             accepted[w][k][i] \in Nat
    BY <1>3 DEF Restart, IInv, TypeOK
  <2>5. Remembered'
    BY <2>3, <2>4 DEF IInv, Remembered
  <2>6. OncePerMemory' /\ ReplayIsReal'
    BY <2>3, <2>4 DEF IInv, OncePerMemory, ReplayIsReal
  <2> QED
    BY <2>1, <2>2, <2>5, <2>6 DEF IInv
<1>4. CASE Tick
  BY <1>4 DEF Tick, IInv, TypeOK, MemoryCounted, Remembered, OncePerMemory,
          ReplayIsReal
<1>5. CASE UNCHANGED vars
  BY <1>5 DEF vars, IInv, TypeOK, MemoryCounted, Remembered, OncePerMemory,
          ReplayIsReal
<1> QED
  BY <1>1, <1>2, <1>3, <1>4, <1>5 DEF Next

\* The inductive invariant holds in every reachable state.
THEOREM Invariance == Spec => []IInv
BY InitIInv, NextIInv, PTL DEF Spec

\* What the verifiers remember is well typed; the counter stays below the
\* cleanup threshold.
THEOREM TypeCorrect == Spec => []TypeOK
<1>1. IInv => TypeOK
  BY DEF IInv
<1> QED
  BY <1>1, Invariance, PTL

\* The replay memory of _cleanup_nonces is bounded and counted exactly.
THEOREM MemoryIsCounted == Spec => []MemoryCounted
<1>1. IInv => MemoryCounted
  BY DEF IInv
<1> QED
  BY <1>1, Invariance, PTL

\* verify_token accepts a token again only after the memory of its nonce was lost,
\* by _cleanup_nonces or a restart.
THEOREM AcceptedOncePerMemory == Spec => []OncePerMemory
<1>1. IInv => OncePerMemory
  BY DEF IInv
<1> QED
  BY <1>1, Invariance, PTL

\* verify_token reports a replay only for a token it has accepted before.
THEOREM ReplaysAreReal == Spec => []ReplayIsReal
<1>1. IInv => ReplayIsReal
  BY DEF IInv
<1> QED
  BY <1>1, Invariance, PTL

-----------------------------------------------------------------------------
(***************************************************************************)
(* ConfigLifecycle.  What a change has behind it is told by its state, its *)
(* request and what the driver thinks of its execution: Reached.  The      *)
(* backups of a device are younger the higher their number, and no backup  *)
(* belongs to two devices: Kept.                                           *)
(***************************************************************************)

Requests == {None, "PENDING_APPROVAL", "APPROVED"}
Executions == {"open", "started", "succeeded", "failed"}

LifecycleTyped ==
    /\ state \in [Configs -> States \cup {None}]
    /\ request \in [Configs -> Requests]
    /\ token \in [Configs -> {None, "issued", "verified", "rejected"}]
    /\ execution \in [Configs -> Executions]
    /\ own \in [Configs -> Nat \cup {None}]
    /\ DOMAIN events = Configs
    /\ created \in Nat
    /\ DOMAIN backups \subseteq 1..created
    /\ device_backups \in [Targets -> SUBSET (1..created)]
    /\ newest \in [Targets -> (1..created) \cup {None}]

Past == {"APPROVED", "EXECUTING", "EXECUTED", "FAILED", "ROLLED_BACK"}

\* The driver begins with a record; a change that was let through by the state
\* machine was approved, its request too, and the driver has taken the steps that
\* its state tells of.
Reached(c) ==
    /\ state[c] = None => request[c] = None /\ token[c] = None /\ own[c] = None
                          /\ execution[c] = "open"
    /\ state[c] \in Past => c \in approved /\ request[c] = "APPROVED"
    /\ state[c] = "APPROVED" /\ execution[c] = "open" => events[c] = "CONFIG_APPROVED"
    /\ state[c] = "EXECUTING" => execution[c] = "started" /\ events[c] = "CONFIG_APPROVED"
    /\ state[c] = "EXECUTED" => execution[c] = "succeeded" /\ events[c] = "CONFIG_EXECUTED"
    /\ state[c] = "FAILED" => execution[c] = "failed" /\ events[c] = "CONFIG_FAILED"
    /\ state[c] = "ROLLED_BACK" => /\ execution[c] \in {"succeeded", "failed"}
                                   /\ events[c] = "CONFIG_ROLLED_BACK"

Kept ==
    /\ \A d \in Targets : newest[d] # None =>
          newest[d] \in DeviceBackups(d) /\ \A b \in DeviceBackups(d) : b <= newest[d]
    /\ \A d, e \in Targets : d # e => device_backups[d] \cap device_backups[e] = {}

LifecycleInv == LifecycleTyped /\ (\A c \in Configs : Reached(c)) /\ Kept

\* What the transition table allows
LEMMA Table ==
    /\ \A s \in States : "APPROVED" \in VALID_TRANSITIONS[s] => s \in {"DRAFT", "PENDING_APPROVAL"}
    /\ \A s \in States : "PENDING_APPROVAL" \in VALID_TRANSITIONS[s] => s = "DRAFT"
    /\ \A s \in States : "EXECUTING" \in VALID_TRANSITIONS[s] <=> s = "APPROVED"
    /\ \A s \in States : "EXECUTED" \in VALID_TRANSITIONS[s] <=> s = "EXECUTING"
    /\ \A s \in States : "FAILED" \in VALID_TRANSITIONS[s] <=> s = "EXECUTING"
    /\ \A s \in States : "ROLLED_BACK" \in VALID_TRANSITIONS[s] <=> s \in {"EXECUTED", "FAILED"}
BY DEF VALID_TRANSITIONS, States

\* transition() moves this change or leaves everything.
LEMMA TransitionEffect ==
    ASSUME LifecycleTyped, NEW c \in Configs, NEW to \in States, state[c] # None,
           Transition(c, to)
    PROVE  /\ state' \in [Configs -> States \cup {None}]
           /\ \A q \in Configs : q # c =>
                state'[q] = state[q] /\ (q \in approved <=> q \in approved')
           /\ \/ /\ to \in VALID_TRANSITIONS[state[c]] /\ state'[c] = to
                 /\ to # "DRAFT" /\ c \in approved => c \in approved'
                 /\ to = "APPROVED" => c \in approved'
              \/ /\ to \notin VALID_TRANSITIONS[state[c]]
                 /\ state'[c] = state[c] /\ approved' = approved
<1>1. state[c] \in States
  BY DEF LifecycleTyped
<1>2. CASE to \in VALID_TRANSITIONS[state[c]]
  BY <1>2 DEF Transition, LifecycleTyped
<1>3. CASE to \notin VALID_TRANSITIONS[state[c]]
  BY <1>3 DEF Transition, LifecycleTyped
<1> QED
  BY <1>2, <1>3

\* A change that nothing happened to is where it was.
LEMMA ReachedKept ==
    ASSUME NEW q \in Configs, Reached(q),
           state'[q] = state[q], request'[q] = request[q], token'[q] = token[q],
           own'[q] = own[q], execution'[q] = execution[q], events'[q] = events[q],
           q \in approved => q \in approved'
    PROVE  Reached(q)'
BY DEF Reached

\* Backups that nothing happened to are kept.
LEMMA BackupsKept ==
    ASSUME LifecycleTyped, Kept, UNCHANGED backupVars
    PROVE  /\ Kept' /\ created' \in Nat /\ DOMAIN backups' \subseteq 1..created'
           /\ device_backups' \in [Targets -> SUBSET (1..created')]
           /\ newest' \in [Targets -> (1..created') \cup {None}]
BY DEF LifecycleTyped, Kept, DeviceBackups, backupVars

\* The rest of a step: the other changes stay, and so do the backups.
LEMMA OneChange ==
    ASSUME LifecycleInv, NEW c \in Configs, UNCHANGED backupVars,
           state' \in [Configs -> States \cup {None}],
           request' \in [Configs -> Requests],
           token' \in [Configs -> {None, "issued", "verified", "rejected"}],
           execution' \in [Configs -> Executions],
           own' \in [Configs -> Nat \cup {None}],
           DOMAIN events' = Configs,
           \A q \in Configs : q # c =>
             /\ state'[q] = state[q] /\ request'[q] = request[q] /\ token'[q] = token[q]
             /\ own'[q] = own[q] /\ execution'[q] = execution[q] /\ events'[q] = events[q]
             /\ q \in approved => q \in approved',
           Reached(c)'
    PROVE  LifecycleInv'
<1>1. LifecycleTyped /\ Kept /\ \A q \in Configs : Reached(q)
  BY DEF LifecycleInv
<1>2. ASSUME NEW q \in Configs PROVE Reached(q)'
  <2>1. CASE q # c
    BY <1>1, <2>1, ReachedKept
  <2> QED
    BY <2>1
<1>3. LifecycleTyped' /\ Kept'
  BY <1>1, BackupsKept DEF LifecycleTyped
<1> QED
  BY <1>2, <1>3 DEF LifecycleInv

\* Creation, submission and approval
LEMMA ApprovalLifecycle ==
    ASSUME LifecycleInv, NEW c \in Configs,
           CreateConfig(c) \/ SubmitLow(c) \/ Submit(c) \/ Approve(c)
    PROVE  LifecycleInv'
<1>1. LifecycleTyped /\ Reached(c)
  BY DEF LifecycleInv
<1>2. CASE CreateConfig(c)
  <2>1. /\ state' \in [Configs -> States \cup {None}] /\ state'[c] = "DRAFT"
        /\ \A q \in Configs : q # c => state'[q] = state[q]
    BY <1>1, <1>2 DEF CreateConfig, LifecycleTyped, States
  <2>2. DOMAIN events' = Configs /\ \A q \in Configs : q # c => events'[q] = events[q]
    BY <1>1, <1>2 DEF CreateConfig, LifecycleTyped, Log
  <2>3. UNCHANGED <<request, token, execution, own, backupVars, approved>>
    BY <1>2 DEF CreateConfig
  <2>4. Reached(c)'
    BY <2>1, LifecycleAssumption DEF Reached, Past, States
  <2> QED
    BY <1>1, <2>1, <2>2, <2>3, <2>4, OneChange DEF LifecycleTyped
<1>3. ASSUME SubmitLow(c) \/ Approve(c) PROVE LifecycleInv'
  <2>1. /\ state[c] # None /\ request[c] # "APPROVED"
        /\ request' = [request EXCEPT ![c] = "APPROVED"]
        /\ Transition(c, "APPROVED") /\ events' = [events EXCEPT ![c] = "CONFIG_APPROVED"]
        /\ UNCHANGED <<token, execution, own, backupVars>>
    BY <1>1, <1>3, LifecycleAssumption DEF SubmitLow, Approve, Log, Reached, States
  <2>2. /\ request' \in [Configs -> Requests] /\ request'[c] = "APPROVED"
        /\ DOMAIN events' = Configs /\ events'[c] = "CONFIG_APPROVED"
        /\ \A q \in Configs : q # c => request'[q] = request[q] /\ events'[q] = events[q]
    BY <1>1, <2>1 DEF LifecycleTyped, Requests
  <2>3. state[c] \in States /\ state[c] \notin Past
    BY <1>1, <2>1 DEF LifecycleTyped, Reached
  <2>4. "APPROVED" \in States
    BY DEF States
  <2>5. /\ state' \in [Configs -> States \cup {None}]
        /\ \A q \in Configs : q # c =>
             state'[q] = state[q] /\ (q \in approved <=> q \in approved')
        /\ \/ state'[c] = "APPROVED" /\ c \in approved'
           \/ state'[c] = state[c]
    BY <1>1, <2>1, <2>4, TransitionEffect
  <2>6. Reached(c)'
    <3>1. state[c] # None /\ "APPROVED" # None
      BY <2>1, LifecycleAssumption DEF States
    <3>2. CASE state'[c] = "APPROVED" /\ c \in approved'
      BY <2>2, <3>1, <3>2 DEF Reached, Past
    <3>3. CASE state'[c] = state[c]
      BY <2>3, <3>1, <3>3 DEF Reached, Past
    <3> QED
      BY <2>5, <3>2, <3>3
  <2> QED
    BY <1>1, <2>1, <2>2, <2>5, <2>6, OneChange DEF LifecycleTyped
<1>4. CASE Submit(c)
  <2>1. /\ state[c] # None /\ request[c] = None
        /\ request' = [request EXCEPT ![c] = "PENDING_APPROVAL"]
        /\ Transition(c, "PENDING_APPROVAL") /\ events' = [events EXCEPT ![c] = "CONFIG_SUBMITTED"]
        /\ UNCHANGED <<token, execution, own, backupVars>>
    BY <1>4 DEF Submit, Log
  <2>2. /\ request' \in [Configs -> Requests] /\ DOMAIN events' = Configs
        /\ \A q \in Configs : q # c => request'[q] = request[q] /\ events'[q] = events[q]
    BY <1>1, <2>1 DEF LifecycleTyped, Requests
  <2>3. state[c] \in States /\ state[c] \notin Past
    BY <1>1, <2>1, LifecycleAssumption DEF LifecycleTyped, Reached, States
  <2>4. "PENDING_APPROVAL" \in States /\ "PENDING_APPROVAL" \notin Past
    BY DEF States, Past
  <2>5. /\ state' \in [Configs -> States \cup {None}]
        /\ \A q \in Configs : q # c =>
             state'[q] = state[q] /\ (q \in approved <=> q \in approved')
        /\ state'[c] = "PENDING_APPROVAL" \/ state'[c] = state[c]
    BY <1>1, <2>1, <2>4, TransitionEffect
  <2>6. state'[c] \notin Past /\ state'[c] # None
    BY <2>1, <2>3, <2>4, <2>5, LifecycleAssumption
  <2>7. Reached(c)'
    BY <2>6 DEF Reached, Past
  <2> QED
    BY <1>1, <2>1, <2>2, <2>5, <2>7, OneChange DEF LifecycleTyped
<1> QED
  BY <1>2, <1>3, <1>4

\* Withdrawal and revision
LEMMA RevisionLifecycle ==
    ASSUME LifecycleInv, NEW c \in Configs, Withdraw(c) \/ Revise(c)
    PROVE  LifecycleInv'
<1>1. LifecycleTyped /\ Reached(c)
  BY DEF LifecycleInv
<1>2. CASE Withdraw(c)
  <2>1. /\ state[c] # None /\ Transition(c, "CANCELLED")
        /\ UNCHANGED <<request, token, execution, own, backupVars, events>>
    BY <1>2 DEF Withdraw
  <2>2. "CANCELLED" \in States /\ "CANCELLED" \notin Past
    BY DEF States, Past
  <2>3. /\ state' \in [Configs -> States \cup {None}]
        /\ \A q \in Configs : q # c =>
             state'[q] = state[q] /\ (q \in approved <=> q \in approved')
        /\ state'[c] = "CANCELLED" \/ (state'[c] = state[c] /\ approved' = approved)
    BY <1>1, <2>1, <2>2, TransitionEffect
  <2>4. Reached(c)'
    <3>1. CASE state'[c] = "CANCELLED"
      BY <2>2, <3>1, LifecycleAssumption DEF Reached, Past
    <3>2. CASE state'[c] = state[c] /\ approved' = approved
      BY <1>1, <2>1, <3>2, ReachedKept
    <3> QED
      BY <2>3, <3>1, <3>2
  <2> QED
    BY <1>1, <2>1, <2>3, <2>4, OneChange DEF LifecycleTyped
<1>3. CASE Revise(c)
  <2>1. /\ state[c] # None /\ "DRAFT" \in VALID_TRANSITIONS[state[c]]
        /\ Transition(c, "DRAFT") /\ UNCHANGED <<backupVars, events>>
        /\ request' = [request EXCEPT ![c] = None] /\ token' = [token EXCEPT ![c] = None]
        /\ own' = [own EXCEPT ![c] = None] /\ execution' = [execution EXCEPT ![c] = "open"]
    BY <1>3 DEF Revise
  <2>2. "DRAFT" \in States /\ "DRAFT" \notin Past
    BY DEF States, Past
  <2>3. /\ state' \in [Configs -> States \cup {None}]
        /\ \A q \in Configs : q # c =>
             state'[q] = state[q] /\ (q \in approved <=> q \in approved')
        /\ state'[c] = "DRAFT"
    BY <1>1, <2>1, <2>2, TransitionEffect
  <2>4. Reached(c)'
    BY <2>2, <2>3, LifecycleAssumption DEF Reached, Past
  <2>5. /\ request' \in [Configs -> Requests]
        /\ token' \in [Configs -> {None, "issued", "verified", "rejected"}]
        /\ execution' \in [Configs -> Executions]
        /\ own' \in [Configs -> Nat \cup {None}]
    BY <1>1, <2>1 DEF LifecycleTyped, Requests, Executions
  <2>6. \A q \in Configs : q # c =>
          /\ request'[q] = request[q] /\ token'[q] = token[q]
          /\ own'[q] = own[q] /\ execution'[q] = execution[q]
    BY <1>1, <2>1 DEF LifecycleTyped
  <2> QED
    BY <1>1, <2>1, <2>3, <2>4, <2>5, <2>6, OneChange DEF LifecycleTyped
<1> QED
  BY <1>2, <1>3


\* Token, execution and outcome
LEMMA ExecutionLifecycle ==
    ASSUME LifecycleInv, NEW c \in Configs,
           AskForToken(c) \/ CheckToken(c) \/ Start(c) \/ Finish(c)
    PROVE  LifecycleInv'
<1>1. LifecycleTyped /\ Reached(c)
  BY DEF LifecycleInv
<1>2. CASE AskForToken(c) \/ CheckToken(c)
  <2>1. UNCHANGED <<state, request, execution, own, backupVars, events, approved>>
    BY <1>2 DEF AskForToken, CheckToken
  <2>2. \E t \in {"issued", "verified", "rejected"} : token' = [token EXCEPT ![c] = t]
    BY <1>2 DEF AskForToken, CheckToken
  <2>3. /\ token' \in [Configs -> {None, "issued", "verified", "rejected"}]
        /\ \A q \in Configs : q # c => token'[q] = token[q]
    BY <1>1, <2>2 DEF LifecycleTyped
  <2>4. state[c] # None
    BY <1>1, <1>2, LifecycleAssumption DEF AskForToken, CheckToken, Reached
  <2>5. Reached(c)'
    BY <1>1, <2>1, <2>4 DEF Reached
  <2> QED
    BY <1>1, <2>1, <2>3, <2>5, OneChange DEF LifecycleTyped
<1>3. CASE Start(c)
  <2>1. /\ own[c] # None /\ execution[c] = "open" /\ Transition(c, "EXECUTING")
        /\ execution' = [execution EXCEPT ![c] = "started"]
        /\ UNCHANGED <<request, token, own, backupVars, events>>
    BY <1>3 DEF Start
  <2>2. state[c] # None /\ "EXECUTING" \in States /\ state[c] \in States /\ "EXECUTING" # None
    BY <1>1, <2>1, LifecycleAssumption DEF Reached, States, LifecycleTyped
  <2>3. /\ execution' \in [Configs -> Executions] /\ execution'[c] = "started"
        /\ \A q \in Configs : q # c => execution'[q] = execution[q]
    BY <1>1, <2>1 DEF LifecycleTyped, Executions
  <2>4. /\ state' \in [Configs -> States \cup {None}]
        /\ \A q \in Configs : q # c =>
             state'[q] = state[q] /\ (q \in approved <=> q \in approved')
        /\ \/ /\ state[c] = "APPROVED" /\ state'[c] = "EXECUTING"
              /\ c \in approved => c \in approved'
           \/ state[c] # "APPROVED" /\ state'[c] = state[c] /\ approved' = approved
    BY <1>1, <2>1, <2>2, Table, TransitionEffect
  <2>5. Reached(c)'
    <3>1. CASE state[c] = "APPROVED"
      BY <1>1, <2>1, <2>2, <2>3, <2>4, <3>1 DEF Reached, Past
    <3>2. CASE state[c] # "APPROVED"
      BY <1>1, <2>1, <2>2, <2>3, <2>4, <3>2 DEF Reached, Past
    <3> QED
      BY <3>1, <3>2
  <2> QED
    BY <1>1, <2>1, <2>3, <2>4, <2>5, OneChange DEF LifecycleTyped
<1>4. ASSUME NEW to \in {"EXECUTED", "FAILED"}, NEW how \in Executions, NEW event,
             to = "EXECUTED" => how = "succeeded" /\ event = "CONFIG_EXECUTED",
             to = "FAILED" => how = "failed" /\ event = "CONFIG_FAILED",
             execution[c] = "started", Transition(c, to),
             execution' = [execution EXCEPT ![c] = how],
             events' = [events EXCEPT ![c] = event],
             UNCHANGED <<request, token, own, backupVars>>
      PROVE  LifecycleInv'
  <2>1. state[c] # None /\ to \in States /\ state[c] \in States /\ to # None
    BY <1>1, <1>4, LifecycleAssumption DEF Reached, States, LifecycleTyped
  <2>2. /\ execution' \in [Configs -> Executions] /\ execution'[c] = how
        /\ DOMAIN events' = Configs /\ events'[c] = event
        /\ \A q \in Configs : q # c => execution'[q] = execution[q] /\ events'[q] = events[q]
    BY <1>1, <1>4 DEF LifecycleTyped
  <2>3. /\ state' \in [Configs -> States \cup {None}]
        /\ \A q \in Configs : q # c =>
             state'[q] = state[q] /\ (q \in approved <=> q \in approved')
        /\ \/ state[c] = "EXECUTING" /\ state'[c] = to /\ (c \in approved => c \in approved')
           \/ state[c] # "EXECUTING" /\ state'[c] = state[c] /\ approved' = approved
    <3>1. to \in VALID_TRANSITIONS[state[c]] <=> state[c] = "EXECUTING"
      BY <2>1, Table
    <3>2. to # "DRAFT"
      OBVIOUS
    <3>3. Transition(c, to)
      BY <1>4
    <3> QED
      BY <1>1, <2>1, <3>1, <3>2, <3>3, TransitionEffect
  <2>4. how \in {"succeeded", "failed"}
    BY <1>4
  <2>5. Reached(c)'
    <3>1. CASE state[c] = "EXECUTING"
      BY <1>1, <1>4, <2>1, <2>2, <2>3, <3>1 DEF Reached, Past
    <3>2. CASE state[c] # "EXECUTING"
      BY <1>1, <1>4, <2>1, <2>2, <2>3, <2>4, <3>2 DEF Reached, Past
    <3> QED
      BY <3>1, <3>2
  <2> QED
    BY <1>1, <1>4, <2>2, <2>3, <2>5, OneChange DEF LifecycleTyped
<1>5. CASE Finish(c)
  BY <1>4, <1>5 DEF Finish, Log, Executions
<1> QED
  BY <1>2, <1>3, <1>5

\* Rollbacks
LEMMA RollbackLifecycle ==
    ASSUME LifecycleInv, NEW c \in Configs, RollbackOwn(c) \/ AutoRollback(c)
    PROVE  LifecycleInv'
<1>1. LifecycleTyped /\ Reached(c)
  BY DEF LifecycleInv
<1>2. execution[c] \in {"succeeded", "failed"}
  BY DEF RollbackOwn, AutoRollback
<1>3. /\ UNCHANGED <<request, token, execution, own, backupVars>>
      /\ \/ /\ Transition(c, "ROLLED_BACK")
            /\ events' = [events EXCEPT ![c] = "CONFIG_ROLLED_BACK"]
         \/ UNCHANGED <<state, approved, events>>
  BY DEF RollbackOwn, AutoRollback, Rollback, Log
<1>4. CASE UNCHANGED <<state, approved, events>>
  BY <1>1, <1>3, <1>4, ReachedKept, OneChange DEF LifecycleTyped
<1>5. CASE Transition(c, "ROLLED_BACK") /\ events' = [events EXCEPT ![c] = "CONFIG_ROLLED_BACK"]
  <2>1. state[c] # None /\ "ROLLED_BACK" \in States /\ state[c] \in States
        /\ "ROLLED_BACK" # None
    BY <1>1, <1>2, LifecycleAssumption DEF Reached, States, LifecycleTyped
  <2>2. /\ DOMAIN events' = Configs /\ events'[c] = "CONFIG_ROLLED_BACK"
        /\ \A q \in Configs : q # c => events'[q] = events[q]
    BY <1>1, <1>5 DEF LifecycleTyped
  <2>3. /\ state' \in [Configs -> States \cup {None}]
        /\ \A q \in Configs : q # c =>
             state'[q] = state[q] /\ (q \in approved <=> q \in approved')
        /\ \/ /\ state[c] \in {"EXECUTED", "FAILED"} /\ state'[c] = "ROLLED_BACK"
              /\ c \in approved => c \in approved'
           \/ /\ state[c] \notin {"EXECUTED", "FAILED"}
              /\ state'[c] = state[c] /\ approved' = approved
    BY <1>1, <1>5, <2>1, Table, TransitionEffect
  <2>4. Reached(c)'
    <3>1. CASE state[c] \in {"EXECUTED", "FAILED"}
      BY <1>1, <1>2, <1>3, <2>1, <2>2, <2>3, <3>1 DEF Reached, Past
    <3>2. CASE state[c] \notin {"EXECUTED", "FAILED"}
      BY <1>1, <1>2, <1>3, <2>1, <2>2, <2>3, <3>2 DEF Reached, Past
    <3> QED
      BY <3>1, <3>2
  <2> QED
    BY <1>1, <1>3, <2>2, <2>3, <2>4, OneChange DEF LifecycleTyped
<1> QED
  BY <1>3, <1>4, <1>5

\* A new backup is the device's newest, and no other device's.
LEMMA CreateBackupLifecycle ==
    ASSUME LifecycleInv, NEW c \in Configs, CreateBackup(c)
    PROVE  LifecycleInv'
<1> DEFINE d == DeviceOf[c]
           n == created + 1
<1>1. LifecycleTyped /\ Kept /\ (\A q \in Configs : Reached(q))
  BY DEF LifecycleInv
<1>2. /\ d \in Targets /\ created \in Nat /\ n \in Nat /\ n \notin 1..created /\ n \in 1..n
      /\ 1..created \subseteq 1..n
      /\ \A b \in 1..created : b <= n
  BY <1>1 DEF Targets, LifecycleTyped
<1>3. /\ token[c] = "verified" /\ created' = n
      /\ backups' = [b \in DOMAIN backups \cup {n} |-> IF b = n THEN d ELSE backups[b]]
      /\ device_backups' = [device_backups EXCEPT ![d] = device_backups[d] \cup {n}]
      /\ newest' = [newest EXCEPT ![d] = n]
      /\ own' = [own EXCEPT ![c] = n]
      /\ UNCHANGED <<state, request, token, execution, events, approved>>
  BY DEF CreateBackup
<1> HIDE DEF d, n
<1>4. LifecycleTyped'
  BY <1>1, <1>2, <1>3 DEF LifecycleTyped
<1>5. ASSUME NEW q \in Configs PROVE Reached(q)'
  <2>1. CASE q = c
    <3>1. state[c] # None
      BY <1>1, <1>3, LifecycleAssumption DEF Reached
    <3> QED
      BY <1>1, <1>3, <2>1, <3>1 DEF Reached
  <2>2. CASE q # c
    BY <1>1, <1>3, <2>2, ReachedKept DEF LifecycleTyped
  <2> QED
    BY <2>1, <2>2
<1>6. DOMAIN backups' = DOMAIN backups \cup {n}
  BY <1>3
<1>7. \A e \in Targets : /\ device_backups'[e] = IF e = d THEN device_backups[d] \cup {n}
                                                 ELSE device_backups[e]
                         /\ device_backups[e] \subseteq 1..created
                         /\ newest'[e] = IF e = d THEN n ELSE newest[e]
  BY <1>1, <1>2, <1>3 DEF LifecycleTyped
<1>8. ASSUME NEW e \in Targets, newest'[e] # None
      PROVE  newest'[e] \in DeviceBackups(e)' /\ \A b \in DeviceBackups(e)' : b <= newest'[e]
  <2>1. CASE e = d
    <3>1. DeviceBackups(e)' \subseteq 1..created \cup {n} /\ n \in DeviceBackups(e)'
      BY <1>2, <1>6, <1>7, <2>1 DEF DeviceBackups
    <3>2. newest'[e] = n /\ n <= n
      BY <1>2, <1>7, <2>1
    <3> QED
      BY <1>2, <3>1, <3>2
  <2>2. CASE e # d
    <3>1. DeviceBackups(e)' = DeviceBackups(e) /\ newest'[e] = newest[e]
      BY <1>2, <1>6, <1>7, <2>2 DEF DeviceBackups
    <3> QED
      BY <1>1, <1>8, <3>1 DEF Kept
  <2> QED
    BY <2>1, <2>2
<1>9. ASSUME NEW e \in Targets, NEW g \in Targets, e # g
      PROVE  device_backups'[e] \cap device_backups'[g] = {}
  BY <1>1, <1>2, <1>7, <1>9 DEF Kept
<1> QED
  BY <1>4, <1>5, <1>8, <1>9 DEF LifecycleInv, Kept

\* cleanup_old_backups leaves the newest: no other is younger, so fewer than
\* keep_count are.
LEMMA CleanupLifecycle ==
    ASSUME LifecycleInv, NEW d \in Targets, NEW keep \in KeepCounts, CleanupOldBackups(d, keep)
    PROVE  LifecycleInv'
<1> DEFINE gone == ToDelete(d, keep)
<1>1. LifecycleTyped /\ Kept /\ (\A q \in Configs : Reached(q))
  BY DEF LifecycleInv
<1>2. /\ backups' = [b \in DOMAIN backups \ gone |-> backups[b]]
      /\ device_backups' = [device_backups EXCEPT ![d] = device_backups[d] \ gone]
      /\ UNCHANGED <<state, request, token, execution, own, events, created, newest, approved>>
  BY DEF CleanupOldBackups
<1>3. gone \subseteq DeviceBackups(d) /\ gone \subseteq device_backups[d]
  BY DEF ToDelete, DeviceBackups
<1>4. newest[d] # None => newest[d] \notin gone
  <2> SUFFICES ASSUME newest[d] # None, newest[d] \in gone PROVE FALSE
    OBVIOUS
  <2>1. /\ newest[d] \in Nat
        /\ \A b \in DeviceBackups(d) : b \in Nat /\ b <= newest[d]
    BY <1>1 DEF LifecycleTyped, Kept, DeviceBackups
  <2>2. {o \in DeviceBackups(d) : o > newest[d]} = {}
    BY <2>1
  <2>3. Cardinality({o \in DeviceBackups(d) : o > newest[d]}) = 0
    BY <2>2, FS_EmptySet
  <2>4. Cardinality({o \in DeviceBackups(d) : o > newest[d]}) >= keep
    BY DEF ToDelete
  <2>5. keep \in Nat /\ keep > 0
    BY LifecycleAssumption
  <2> QED
    BY <2>3, <2>4, <2>5
<1> HIDE DEF gone
<1>5. DOMAIN backups' = DOMAIN backups \ gone
  BY <1>2
<1>6. \A e \in Targets : device_backups'[e] = IF e = d THEN device_backups[d] \ gone
                                              ELSE device_backups[e]
  BY <1>1, <1>2 DEF LifecycleTyped
<1>7. LifecycleTyped'
  BY <1>1, <1>2, <1>5 DEF LifecycleTyped
<1>8. \A q \in Configs : Reached(q)'
  BY <1>1, <1>2, ReachedKept
<1>9. ASSUME NEW e \in Targets, newest'[e] # None
      PROVE  newest'[e] \in DeviceBackups(e)' /\ \A b \in DeviceBackups(e)' : b <= newest'[e]
  <2>1. CASE e = d
    <3>1. DeviceBackups(e)' = DeviceBackups(d) \ gone
      BY <1>5, <1>6, <2>1 DEF DeviceBackups
    <3> QED
      BY <1>1, <1>2, <1>4, <1>9, <2>1, <3>1 DEF Kept
  <2>2. CASE e # d
    <3>1. device_backups[e] \cap gone = {}
      BY <1>1, <1>3, <2>2 DEF Kept
    <3>2. DeviceBackups(e)' = DeviceBackups(e)
      BY <1>5, <1>6, <2>2, <3>1 DEF DeviceBackups
    <3> QED
      BY <1>1, <1>2, <1>9, <3>2 DEF Kept
  <2> QED
    BY <2>1, <2>2
<1>10. ASSUME NEW e \in Targets, NEW g \in Targets, e # g
       PROVE  device_backups'[e] \cap device_backups'[g] = {}
  BY <1>1, <1>6, <1>10 DEF Kept
<1> QED
  BY <1>7, <1>8, <1>9, <1>10 DEF LifecycleInv, Kept

\* Nothing is there at the start.
LEMMA InitLifecycle == LifecycleInit => LifecycleInv
<1> SUFFICES ASSUME LifecycleInit PROVE LifecycleInv
  OBVIOUS
<1>1. LifecycleTyped
  BY DEF LifecycleInit, LifecycleTyped, Requests, Executions
<1>2. \A c \in Configs : Reached(c)
  BY LifecycleAssumption DEF LifecycleInit, Reached, Past, States
<1>3. Kept
  BY DEF LifecycleInit, Kept
<1> QED
  BY <1>1, <1>2, <1>3 DEF LifecycleInv

\* Every step keeps the invariant.
LEMMA NextLifecycle ==
    ASSUME LifecycleInv, [LifecycleNext]_lifecycleVars
    PROVE  LifecycleInv'
<1>1. CASE UNCHANGED lifecycleVars
  <2>1. LifecycleTyped' /\ Kept'
    BY <1>1 DEF LifecycleInv, LifecycleTyped, Kept, DeviceBackups, lifecycleVars
  <2>2. \A c \in Configs : Reached(c)'
    BY <1>1 DEF LifecycleInv, Reached, lifecycleVars
  <2> QED
    BY <2>1, <2>2 DEF LifecycleInv
<1> QED
  BY <1>1, ApprovalLifecycle, RevisionLifecycle, ExecutionLifecycle, RollbackLifecycle,
     CreateBackupLifecycle, CleanupLifecycle DEF LifecycleNext

\* So it holds in every state.
LEMMA LifecycleInvariance == LifecycleSpec => []LifecycleInv
BY InitLifecycle, NextLifecycle, PTL DEF LifecycleSpec

\* config_state.py: no change is executed, fails or is rolled back that was not
\* approved after it last was a draft, whatever the driver attempts.
THEOREM ExecutedApproved == LifecycleSpec => []ExecutedWasApproved
<1>1. LifecycleInv => ExecutedWasApproved
  BY DEF LifecycleInv, Reached, Past, ExecutedWasApproved
<1> QED
  BY <1>1, LifecycleInvariance, PTL

\* audit_trail.py: the last event of a change that was executed tells its state.
THEOREM AuditExplains == LifecycleSpec => []AuditExplainsState
<1>1. LifecycleInv => AuditExplainsState
  BY DEF LifecycleInv, Reached, AuditExplainsState
<1> QED
  BY <1>1, LifecycleInvariance, PTL

\* rollback_manager.py: get_latest_backup finds the backup that was made last, however
\* many of the older ones cleanup_old_backups has deleted.
THEOREM NewestIsKept == LifecycleSpec => []NewestSurvives
<1>1. LifecycleInv => NewestSurvives
  <2> SUFFICES ASSUME LifecycleInv, NEW d \in Targets, newest[d] # None
               PROVE  LatestBackup(d) = newest[d]
    BY DEF NewestSurvives
  <2>1. /\ newest[d] \in DeviceBackups(d)
        /\ \A b \in DeviceBackups(d) : b \in Nat /\ b <= newest[d]
    BY DEF LifecycleInv, LifecycleTyped, Kept, DeviceBackups
  <2>2. \A b \in DeviceBackups(d) : (\A o \in DeviceBackups(d) : o <= b) => b = newest[d]
    BY <2>1
  <2> QED
    BY <2>1, <2>2 DEF LatestBackup
<1> QED
  BY <1>1, LifecycleInvariance, PTL
=============================================================================
