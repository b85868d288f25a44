-------------------------- MODULE SchemaMigrations --------------------------
(***************************************************************************)
(* How a local catalog with private text gets its current schema           *)
(* (schema_migrations.py and the _install_schema of playerlex.py and       *)
(* player_lessons.py): the transform, its ledger row and the marker of the *)
(* cleanup it owes are one transaction, and what the old tables held is    *)
(* out of the database file and its WAL before the catalog is served,      *)
(* whatever crashes and whoever else opens the file.                       *)
(*                                                                         *)
(* Between two statements another process may run; what is read first is   *)
(* old when it is used.                                                    *)
(***************************************************************************)
CONSTANT Hosts   \* processes that open the database

Shape == {"none", "old", "current", "foreign"}
Phase == {"down", "looked", "peeked", "ready", "migrated", "scrubbed", "up"}

VARIABLES
    shape,    \* what the tables of the catalog look like
    ledger,   \* whether aetherstate_schema_migrations has the baseline's row
    owed,     \* whether aetherstate_schema_pending_cleanup has it
    remains,  \* whether the files still hold text of tables that were dropped
    host      \* the installation of a process, with what it read

schemaVars == <<shape, ledger, owed, remains, host>>

Down == [at |-> "down", rebuild |-> FALSE, pending |-> FALSE, committed |-> FALSE]

-----------------------------------------------------------------------------
\* Mutant: the rebuild another process finished meanwhile is not this one's.
OwedOnly(m) == m.pending \/ m.committed

\* The condition of the second checkpoint.
MustScrub(m) == m.rebuild \/ m.pending \/ m.committed

\* _install_schema looks at the tables first.
Look(h) ==
    /\ host[h].at = "down"
    /\ host' = [host EXCEPT ![h] = [Down EXCEPT !.at = "looked", !.rebuild = shape = "old"]]
    /\ UNCHANGED <<shape, ledger, owed, remains>>

\* cleanup_pending
Peek(h) ==
    /\ host[h].at = "looked"
    /\ host' = [host EXCEPT ![h].at = "peeked", ![h].pending = owed]
    /\ UNCHANGED <<shape, ledger, owed, remains>>

\* The checkpoint before a rebuild.
Prepare(h) ==
    /\ host[h].at = "peeked"
    /\ host' = [host EXCEPT ![h].at = "ready"]
    /\ UNCHANGED <<shape, ledger, owed, remains>>

\* run_domain: everything is looked at again in the transaction.  (The checks before it refuse
\* only what these refuse.)  A schema that is current is adopted, with the same marker.
Migrate(h) ==
    /\ host[h].at = "ready"
    /\ IF ledger
       THEN /\ shape = "current"
            /\ host' = [host EXCEPT ![h].at = "migrated"]
            /\ UNCHANGED <<shape, ledger, owed, remains>>
       ELSE /\ shape \in {"none", "old", "current"}
            /\ shape' = "current" /\ ledger' = TRUE /\ owed' = TRUE
            /\ remains' = (remains \/ shape = "old")
            /\ host' = [host EXCEPT ![h].at = "migrated", ![h].committed = TRUE]

\* The checkpoint after it, which empties the WAL unless a reader is in its way.
Scrub(h) ==
    /\ host[h].at = "migrated" /\ MustScrub(host[h])
    /\ remains' = FALSE
    /\ host' = [host EXCEPT ![h].at = "scrubbed"]
    /\ UNCHANGED <<shape, ledger, owed>>

\* clear_cleanup_pending, and the catalog is served.
Clear(h) ==
    /\ host[h].at = "scrubbed"
    /\ owed' = FALSE
    /\ host' = [host EXCEPT ![h].at = "up"]
    /\ UNCHANGED <<shape, ledger, remains>>

\* Nothing had to be scrubbed.
Serve(h) ==
    /\ host[h].at = "migrated" /\ ~ MustScrub(host[h])
    /\ host' = [host EXCEPT ![h].at = "up"]
    /\ UNCHANGED <<shape, ledger, owed, remains>>

\* A step fails, a reader keeps a checkpoint from the files, or the process ends: the console
\* or the next start tries again.
Stops(h) ==
    /\ host[h].at # "down"
    /\ host' = [host EXCEPT ![h] = Down]
    /\ UNCHANGED <<shape, ledger, owed, remains>>

-----------------------------------------------------------------------------
SchemaInit ==
    /\ shape \in Shape
    /\ ledger = FALSE /\ owed = FALSE /\ remains = FALSE
    /\ host = [h \in Hosts |-> Down]

SchemaNext ==
    \E h \in Hosts :
        \/ Look(h) \/ Peek(h) \/ Prepare(h) \/ Migrate(h)
        \/ Scrub(h) \/ Clear(h) \/ Serve(h) \/ Stops(h)

SchemaSpec == SchemaInit /\ [][SchemaNext]_schemaVars

-----------------------------------------------------------------------------
(* Properties *)

\* The types of the state.
SchemaTypeOK ==
    /\ shape \in Shape
    /\ ledger \in BOOLEAN /\ owed \in BOOLEAN /\ remains \in BOOLEAN
    /\ host \in [Hosts -> [at : Phase, rebuild : BOOLEAN, pending : BOOLEAN, committed : BOOLEAN]]

\* A catalog is served only in its current schema, and only when nothing the old tables held
\* is left in the files, also when another process did the rebuild and died before the
\* checkpoint (_install_schema, _run_unledgered).
CleanWhenServed ==
    \A h \in Hosts : host[h].at = "up" => shape = "current" /\ ledger /\ ~ remains
=============================================================================
