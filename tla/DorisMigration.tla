--------------------------- MODULE DorisMigration ---------------------------
(***************************************************************************)
(* The copy of a project's SQLite database into Doris (doris_migration.py).*)
(* The tool takes a snapshot, copies it table by table in batches that are *)
(* safe to repeat, reads the tables back and writes a receipt, on which an *)
(* operator retires the database.  The project may be written to on either *)
(* side meanwhile, and a run that was cut is started again.                *)
(*                                                                         *)
(* A record stands for the rows of a table with one identity.              *)
(***************************************************************************)
EXTENDS Naturals, Sequences, FiniteSets

CONSTANTS Records,        \* rows of the project
          TableOf,        \* [Records -> their tables]
          Unsuited,       \* [Records -> BOOLEAN]: its copy differs from it, as
                          \*   that of a metric with a space_id (bulk_log is
                          \*   given none), or of two rows with one identity
          MaxMigrations,  \* runs of the tool
          MaxSideWrites,  \* records written or deleted beside it
          MaxToolCuts     \* runs cut

\* The order in which _migrate_project goes through the tables.
MigratedTables == <<"metrics", "configs", "system_metrics", "alerts", "traces",
                    "project_metadata", "artifact_graph">>

\* The order in which _target_records reads them back.
ReadTables == <<"metrics", "configs", "system_metrics", "traces", "alerts",
                "project_metadata", "artifact_graph">>

ASSUME MigrationAssumption ==
    /\ TableOf \in [Records -> {MigratedTables[i] : i \in DOMAIN MigratedTables}]
    /\ Unsuited \in [Records -> BOOLEAN]

VARIABLES source,     \* records in the SQLite database
          target,     \* records in Doris
          migration,  \* the run of the tool
          verified,   \* the receipt of the run begun last: its snapshot, if it
                      \*   was verified; earlier receipts speak of earlier copies
          altered,    \* history: records others wrote to Doris or deleted there
          toolCount

migrationVars == <<source, target, migration, verified, altered, toolCount>>

Stopped == [at |-> "stopped"]

Unverified == [ok |-> FALSE, records |-> {}]

Count(what, bound) == /\ toolCount[what] < bound
                      /\ toolCount' = [toolCount EXCEPT ![what] = @ + 1]

InTable(table, S) == {r \in S : TableOf[r] = table}

MigrationInit ==
    /\ source \in SUBSET Records
    /\ target = {}
    /\ migration = Stopped
    /\ verified = Unverified
    /\ altered = {}
    /\ toolCount = [migrations |-> 0, writes |-> 0, cuts |-> 0]

\* _sqlite_snapshot and the evidence of _source_records.  With verify_only
\* nothing is copied.
Snapshot(verifyOnly) ==
    /\ migration = Stopped
    /\ Count("migrations", MaxMigrations)
    /\ migration' = [at |-> "copying", snapshot |-> source, evidence |-> {},
                     left |-> IF verifyOnly THEN << >> ELSE MigratedTables,
                     unread |-> ReadTables]
    /\ verified' = Unverified
    /\ UNCHANGED <<source, target, altered>>

\* A batch: the inserts of some records of the next table, whose identities
\* keep a repeated one from adding a row.
CopyBatch ==
    /\ migration.at = "copying"
    /\ migration.left # << >>
    /\ \E batch \in SUBSET InTable(Head(migration.left), migration.snapshot) :
          /\ target' = target \cup batch
          /\ migration' = IF InTable(Head(migration.left), migration.snapshot) = batch
                          THEN [migration EXCEPT !.left = Tail(@)] ELSE migration
    /\ UNCHANGED <<source, verified, altered, toolCount>>

\* _target_records: one SELECT per table.
ReadTarget ==
    /\ migration.at = "copying"
    /\ migration.left = << >>
    /\ migration.unread # << >>
    /\ migration' = [migration EXCEPT
                        !.evidence = @ \cup InTable(Head(migration.unread), target),
                        !.unread = Tail(@)]
    /\ UNCHANGED <<source, target, verified, altered, toolCount>>

\* Faulty variant: rows that Doris has beyond the snapshot do not matter.
MatchesLoosely == migration.snapshot \subseteq migration.evidence

\* The evidence of every table is that of the snapshot; a copy that is not
\* equal to its row does not match.
Matches == /\ migration.evidence = migration.snapshot
           /\ \A r \in migration.snapshot : ~Unsuited[r]

\* The receipt; without a match it says so, and an exception is raised.
Conclude ==
    /\ migration.at = "copying"
    /\ migration.left = << >>
    /\ migration.unread = << >>
    /\ verified' = IF Matches THEN [ok |-> TRUE, records |-> migration.snapshot]
                   ELSE Unverified
    /\ migration' = Stopped
    /\ UNCHANGED <<source, target, altered, toolCount>>

CutMigration == /\ migration # Stopped
                /\ Count("cuts", MaxToolCuts)
                /\ migration' = Stopped
                /\ UNCHANGED <<source, target, verified, altered>>

\* Runs go on logging into the SQLite database, or are deleted there.
ChangeSource == /\ Count("writes", MaxSideWrites)
                /\ \E r \in Records : source' \in {source \cup {r}, source \ {r}}
                /\ UNCHANGED <<target, migration, verified, altered>>

\* The same in Doris, by a server that uses it already.
ChangeTarget == /\ Count("writes", MaxSideWrites)
                /\ \E r \in Records : /\ target' \in {target \cup {r}, target \ {r}}
                                      /\ altered' = altered \cup {r}
                /\ UNCHANGED <<source, migration, verified>>

MigrationNext == \/ \E verifyOnly \in BOOLEAN : Snapshot(verifyOnly)
                 \/ CopyBatch \/ ReadTarget \/ Conclude \/ CutMigration
                 \/ ChangeSource \/ ChangeTarget

MigrationSpec == MigrationInit /\ [][MigrationNext]_migrationVars

----------------------------------------------------------------------------
(***************************************************************************)
(* What must hold.                                                         *)
(***************************************************************************)

\* The type invariant.
MigrationTypeOK ==
    /\ source \subseteq Records
    /\ target \subseteq Records
    /\ altered \subseteq Records
    /\ verified.records \subseteq Records
    /\ migration # Stopped => migration.snapshot \subseteq Records

\* A receipt that calls the migration verified is true, although both sides are
\* written to while the tables are copied and read back one by one, and runs
\* are cut and repeated: Doris has the records of the snapshot, in the form the
\* source had them, and no others, but for what others changed in Doris.
VerifiedIsMigrated ==
    verified.ok => \A r \in Records \ altered : /\ r \in verified.records <=> r \in target
                                                /\ r \in target => ~Unsuited[r]

=============================================================================
