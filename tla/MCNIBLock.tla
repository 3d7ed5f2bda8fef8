------------------------------ MODULE MCNIBLock ------------------------------
(* Model-checking instance of NIBLock with NIBRetention: two controllers    *)
(* compete for locks on one subject, with a short and a long time to live,  *)
(* while the clean-up script goes over a small database.                    *)
EXTENDS NIBRetention

CONSTANTS r1, r2, dev, config_lock, device_lock

MCControllers == {r1, r2}
MCSubjects    == {dev}
MCLockTypes   == {device_lock}
MCTTLs        == {0, 2}

\* Two approvals and a token with their config record, all as old as can be:
\* full batches, empty last batches, and a record held by an unused token.
MCOldRows ==
    {[table |-> "config_approvals", id |-> 1, at |-> 0, terminal |-> FALSE, parent |-> 1],
     [table |-> "config_approvals", id |-> 2, at |-> 0, terminal |-> FALSE, parent |-> 1],
     [table |-> "execution_tokens", id |-> 1, at |-> 0, terminal |-> FALSE, parent |-> 1],
     [table |-> "config_records", id |-> 1, at |-> 0, terminal |-> TRUE, parent |-> None]}
=============================================================================
