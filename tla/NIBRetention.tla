----------------------------- MODULE NIBRetention ------------------------------
(***************************************************************************)
(* scripts/cleanup_old_data.py at work on a NIB whose controllers keep     *)
(* taking and releasing locks (NIBLock.tla).  The script goes through its  *)
(* tables one by one, counts the stale rows and deletes them in batches,   *)
(* each committed on its own, so controllers' calls fall between them.     *)
(* It runs on all its tables, as without --tables.                         *)
(*                                                                         *)
(* Rows of the other tables are written by code outside this repository's  *)
(* services (only scripts/init_db.py, which makes the tables, and the      *)
(* tests know them): they are there from the start, and their status may   *)
(* become final at any time.  A row's status column is abstracted to       *)
(* whether it meets the table's status_filter.                             *)
(***************************************************************************)
EXTENDS NIBLock, Sequences

CONSTANTS
    OldRows,        \* the rows that may be in the database at the start
    Retention,      \* retention_days
    BatchSize,      \* rows deleted per transaction
    None

ASSUME RetentionAssumption == Retention \in Nat \ {0} /\ BatchSize \in Nat \ {0}

\* ALL_TABLE_SPECS, sorted by fk_order: children before parents.
Specs == <<"config_approvals", "execution_tokens", "configs", "config_records",
           "backups", "discovery_reports", "locks", "policies">>

\* The tables with a status_filter.
Filtered == {"execution_tokens", "configs", "config_records", "policies"}

\* A row of any table but locks; terminal: its status meets the status_filter.
OldRow == [table : {Specs[i] : i \in 1..Len(Specs)} \ {"locks"}, id : Nat, at : Nat,
           terminal : BOOLEAN, parent : Nat \cup {None}]

\* The tables whose config_id refers to config_records, NOT NULL.
Children == {"config_approvals", "execution_tokens"}

ASSUME OldRowsAssumption ==
    /\ OldRows \subseteq OldRow
    /\ \A r \in OldRows : r.table \in Children => r.parent # None
    /\ \A r, q \in OldRows : r.table = q.table /\ r.id = q.id => r = q

VARIABLES
    rows,       \* rows of all tables but locks: [table, id, at, terminal, parent]
    script,     \* None, or [table, phase, cutoff, dry, open, owed]: its place in the loop,
                \* whether its connection holds a transaction open, and (only for
                \* the properties) the rows that were stale when it started
    errors,     \* tables whose result carries an error
    done        \* the script has written its report

retentionVars == <<rows, script, errors, done>>
rvars == <<vars, retentionVars>>

--------------------------------------------------------------------------------

\* _build_where: older than the cutoff, strictly, and past its status filter.
Stale(r, cutoff) ==
    /\ r.at < cutoff
    /\ r.table \in Filtered => r.terminal

\* The stale rows of the table at hand.  A lock row's time is its expires_at.
StaleRows ==
    IF Specs[script.table] = "locks"
    THEN {l \in locks : l.expires_at < script.cutoff}
    ELSE {r \in rows : r.table = Specs[script.table] /\ Stale(r, script.cutoff)}

\* The references from approvals and tokens to config records.
ForeignKeysHold(rs) ==
    \A r \in rs : r.parent # None =>
        \E p \in rs : p.table = "config_records" /\ p.id = r.parent

\* LIMIT: the whole of what is stale, or a full batch of it.
Limited(batch) ==
    /\ Cardinality(batch) <= BatchSize
    /\ batch = StaleRows \/ Cardinality(batch) = BatchSize

\* PRAGMA foreign_keys = ON: a DELETE that would leave a reference to a missing
\* row fails as a whole.
Deletable(batch) == ForeignKeysHold(rows \ batch)

RInit ==
    /\ Init
    /\ rows \in {rs \in SUBSET OldRows : ForeignKeysHold(rs)}
    /\ script = None
    /\ errors = {}
    /\ done = FALSE

\* The for loop moves to the next table; after the last the connection is closed
\* and the report printed.
NextTable(open) ==
    IF script.table = Len(Specs)
    THEN script' = None /\ done' = TRUE
    ELSE /\ script' = [script EXCEPT !.table = @ + 1, !.phase = "count", !.open = open]
         /\ UNCHANGED done

\* run_cleanup fixes the cutoff once, for all tables.
StartCleanup(dry) ==
    LET cutoff == now - Retention
    IN  /\ script = None /\ ~done
        /\ script' = [table |-> 1, phase |-> "count", cutoff |-> cutoff, dry |-> dry,
                      open |-> FALSE, owed |-> {r \in rows : Stale(r, cutoff)}]
        /\ UNCHANGED <<vars, rows, errors, done>>

\* _process_table: count; a dry run and an empty table stop here.
CountStale ==
    /\ script # None /\ script.phase = "count"
    /\ \/ (script.dry \/ StaleRows = {}) /\ NextTable(script.open)
       \/ /\ ~script.dry /\ StaleRows # {}
          /\ script' = [script EXCEPT !.phase = "delete"]
          /\ UNCHANGED done
    /\ UNCHANGED <<vars, rows, errors>>

\* A batch is deleted and committed.
BatchDeleted(batch) ==
    /\ Deletable(batch)
    /\ locks' = locks \ batch
    /\ rows' = rows \ batch
    /\ UNCHANGED errors

\* The DELETE fails and is the table's error, which ends the table's turn.  Its
\* implicit transaction is not rolled back: it stays open, without changes, and
\* keeps every other connection from writing until the next commit or the close.
BatchFails(batch) ==
    /\ ~Deletable(batch)
    /\ errors' = errors \cup {Specs[script.table]}
    /\ NextTable(TRUE)
    /\ UNCHANGED <<locks, rows>>

\* A bug to be caught: a failed batch is tried again.
DeleteBatchRetry ==
    /\ script # None /\ script.phase = "delete"
    /\ \E batch \in SUBSET StaleRows :
        /\ Limited(batch)
        /\ BatchDeleted(batch)
        /\ \/ Cardinality(batch) < BatchSize /\ NextTable(FALSE)
           \/ /\ Cardinality(batch) = BatchSize
              /\ script' = [script EXCEPT !.open = FALSE]
              /\ UNCHANGED done
    /\ UNCHANGED <<issued, leases, now>>

\* A bug to be caught: a full batch is taken for the last one.
DeleteBatchOnce ==
    /\ script # None /\ script.phase = "delete"
    /\ \E batch \in SUBSET StaleRows :
        /\ Limited(batch)
        /\ (BatchDeleted(batch) /\ NextTable(FALSE)) \/ BatchFails(batch)
    /\ UNCHANGED <<issued, leases, now>>

\* One round of _delete_stale_batched, which ends with a batch that is not full.
DeleteBatch ==
    /\ script # None /\ script.phase = "delete"
    /\ \E batch \in SUBSET StaleRows :
        /\ Limited(batch)
        /\ \/ /\ BatchDeleted(batch)
              /\ \/ Cardinality(batch) < BatchSize /\ NextTable(FALSE)
                 \/ /\ Cardinality(batch) = BatchSize
                    /\ script' = [script EXCEPT !.open = FALSE]
                    /\ UNCHANGED done
           \/ BatchFails(batch)
    /\ UNCHANGED <<issued, leases, now>>

\* The script's connection holds the write lock of the database.
WritersWait == script # None /\ script.open

\* A config reaches a final state, a token is used, a policy deactivated.
BecomeTerminal(r) ==
    /\ r.table \in Filtered /\ ~r.terminal /\ ~WritersWait
    /\ rows' = (rows \ {r}) \cup {[r EXCEPT !.terminal = TRUE]}
    /\ UNCHANGED <<vars, script, errors, done>>

ScriptStep == CountStale \/ DeleteBatch

RNext ==
    \/ Next /\ (WritersWait => Tick) /\ UNCHANGED retentionVars
    \/ \E dry \in BOOLEAN : StartCleanup(dry)
    \/ CountStale
    \/ DeleteBatch
    \/ \E r \in rows : BecomeTerminal(r)

\* Time goes on, and a script that was started keeps running.
RSpec ==
    /\ RInit /\ [][RNext]_rvars
    /\ WF_rvars(Tick /\ UNCHANGED retentionVars)
    /\ WF_rvars(ScriptStep)

--------------------------------------------------------------------------------
\* Properties

\* cleanup_old_data.py _delete_stale_batched ("fewer than a full batch -> nothing
\* left"): when the report of a clean-up is printed, every row that was stale when
\* it started is gone or its table is reported with an error, and no lock is left
\* that had expired before the cutoff, whatever the controllers did in between.
ReportIsComplete ==
    [][~done /\ done' /\ ~script.dry =>
        /\ \A r \in script.owed \cap rows' : r.table \in errors'
        /\ \A l \in locks' : l.expires_at >= script.cutoff]_rvars

\* cleanup_old_data.py _process_table and _delete_stale_batched: a clean-up that
\* was started gets to its report, whatever batches fail and however many rows
\* exactly fill the last one.
CleanupEnds == (script # None) ~> done

================================================================================
