------------------------------- MODULE RateMeter -------------------------------
(***************************************************************************)
(* What the rate limiter promises its callers, without buckets, refill     *)
(* times or clean-ups: each client owes a debt that falls by one with      *)
(* every tick of the clock, a request is allowed exactly when its cost     *)
(* still fits under the burst size, and only an operator's reset (of one   *)
(* client) or a restart of the process (of all) forgives a debt; these are *)
(* counted.  AccessControl, with RateLimiter inside, implements this.      *)
(***************************************************************************)
EXTENDS Naturals

CONSTANTS
    Clients,    \* client ids (addresses, user names)
    Cost,       \* what a request costs, in ticks of refill
    Capacity,   \* the burst size, in ticks of refill
    None        \* no answer yet

VARIABLES
    now,        \* the clock
    debt,       \* client -> ticks until its bucket is full again
    verdict,    \* the last answer: [client, allowed], or None
    forgiven    \* client -> how often its debt was forgiven

vars == <<now, debt, verdict, forgiven>>

Init ==
    /\ now = 0
    /\ debt = [c \in Clients |-> 0]
    /\ verdict = None
    /\ forgiven = [c \in Clients |-> 0]

Tick ==
    /\ now' = now + 1
    /\ debt' = [c \in Clients |-> IF debt[c] = 0 THEN 0 ELSE debt[c] - 1]
    /\ UNCHANGED <<verdict, forgiven>>

Allow(c) ==
    /\ debt[c] + Cost <= Capacity
    /\ debt' = [debt EXCEPT ![c] = @ + Cost]
    /\ verdict' = [client |-> c, allowed |-> TRUE]
    /\ UNCHANGED <<now, forgiven>>

Refuse(c) ==
    /\ debt[c] + Cost > Capacity
    /\ verdict' = [client |-> c, allowed |-> FALSE]
    /\ UNCHANGED <<now, debt, forgiven>>

Forgive(c) ==
    /\ debt' = [debt EXCEPT ![c] = 0]
    /\ forgiven' = [forgiven EXCEPT ![c] = @ + 1]
    /\ UNCHANGED <<now, verdict>>

\* The debts are in memory only.
Restart ==
    /\ debt' = [c \in Clients |-> 0]
    /\ verdict' = None
    /\ forgiven' = [c \in Clients |-> forgiven[c] + 1]
    /\ UNCHANGED now

Next ==
    \/ Tick
    \/ Restart
    \/ \E c \in Clients : Allow(c) \/ Refuse(c) \/ Forgive(c)

Spec == Init /\ [][Next]_vars

================================================================================
