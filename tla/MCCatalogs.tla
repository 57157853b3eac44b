----------------------------- MODULE MCCatalogs ------------------------------
(***************************************************************************)
(* The catalogs on small instances: artifacts with SQLite storage, the     *)
(* runs and the artifacts with Doris storage, and the two migrations.  The *)
(* models share no state: part says which of them a behaviour is of, and   *)
(* the others stay in one initial state.                                   *)
(***************************************************************************)
EXTENDS MCArtifactCatalog, DorisRuns, DorisCatalog, DorisMigration,
        ArtifactMigration

VARIABLE part

migrationsVars == <<migrationVars, copyVars>>

catalogsVars == <<part, vars, dorisRunsVars, dorisCatalogVars, migrationsVars>>

MCBlobsOf == [c \in Contents |-> IF c = "c1" THEN {"b1", "b2"} ELSE {"b2"}]

MCRequested == [c \in Contents |-> IF c = "c1" THEN <<"best">> ELSE << >>]

MCTableOf == [r \in Records |-> IF r = "metric" THEN "metrics"
                                ELSE IF r = "version" THEN "artifact_graph" ELSE "traces"]

MCUnsuited == [r \in Records |-> r = "metric"]

\* RunIds and Producers are the same model values as Runs, Threads as Workers.
CatalogsSymmetry == Permutations(Runs) \cup Permutations(Workers)

MCInit == /\ part \in {"sqlite", "doris runs", "doris catalog", "migration", "copy"}
          /\ Init /\ DorisRunsInit /\ DorisCatalogInit /\ MigrationInit /\ CopyInit
          /\ part # "migration" => source = {}
          /\ part # "copy" => local = {}

\* Bound: a use, a deletion, a purge and a crash do not all meet, and where
\* three of them do there is only one log_artifact.
Catalogs ==
    LET crossed == count'.use + count'.delete + count'.purge + count'.crash
    IN Next /\ crossed + (IF count'.log = MaxLogs THEN 1 ELSE 0) <= 3

\* Bound: a use, a deletion and a cut do not all meet, and where two of them
\* do there are only two commits.
DorisCommits ==
    LET crossed == catalogCount'.use + catalogCount'.delete + catalogCount'.cut
    IN DorisCatalogNext /\ crossed + (IF catalogCount'.commit = MaxCommits THEN 1 ELSE 0) <= 2

MCNext ==
    /\ UNCHANGED part
    /\ \/ /\ UNCHANGED <<dorisRunsVars, dorisCatalogVars, migrationsVars>>
          /\ part = "sqlite" /\ Catalogs
       \/ /\ UNCHANGED <<vars, dorisCatalogVars, migrationsVars>>
          /\ part = "doris runs" /\ DorisRunsNext
       \/ /\ UNCHANGED <<vars, dorisRunsVars, migrationsVars>>
          /\ part = "doris catalog" /\ DorisCommits
       \/ /\ UNCHANGED <<vars, dorisRunsVars, dorisCatalogVars>>
          /\ \/ part = "migration" /\ MigrationNext /\ UNCHANGED copyVars
             \/ part = "copy" /\ CopyNext /\ UNCHANGED migrationVars

MCSpec == MCInit /\ [][MCNext]_catalogsVars

\* A run in Doris is hidden, a version is without blobs and `latest' is not on
\* the newest version only after a cut or beside an operation on the same run.
DorisSound == /\ DorisRunsTypeOK /\ HiddenOnlyIfMangled
              /\ DorisCatalogTypeOK /\ DorisCatalogResolves /\ LatestUnlessCut

\* What a migration reports as copied is at its destination.
MigratedIsThere == /\ MigrationTypeOK /\ VerifiedIsMigrated
                   /\ CopyTypeOK /\ UnlinkedIsStored

=============================================================================
