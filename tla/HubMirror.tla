------------------------------ MODULE HubMirror ------------------------------
(***************************************************************************)
(* The mirror of a Space's projects in a dataset repository: the scheduler *)
(* exports tables to Parquet files and uploads those that changed          *)
(* (commit_scheduler.py, export_to_parquet), and the first request of a    *)
(* process downloads and imports them (load_from_dataset).  force_sync     *)
(* exports beside the scheduler; requests insert and delete rows without   *)
(* its lock; the process may end, and its disk be kept or not.             *)
(*                                                                         *)
(* Modification times are abstracted to two sets: the files newer than     *)
(* their database (newer), and those whose time is the one last uploaded   *)
(* (pushed).  A file is written whole.                                     *)
(***************************************************************************)
EXTENDS Naturals, FiniteSets

CONSTANTS Sheets,         \* tables of projects, each with its Parquet file
          Main,           \* the metrics tables, whose file makes an import
                          \*   create the database
          OwnerOf,        \* [Sheets -> projects]
          HubRows, SheetOf,  \* rows, [HubRows -> Sheets]
          MaxEvents       \* restarts, calls of force_sync, deletions, and uploads,
                          \*   downloads and imports that fail

ASSUME HubMirrorAssumption ==
    /\ Main \subseteq Sheets /\ SheetOf \in [HubRows -> Sheets] /\ DOMAIN OwnerOf = Sheets

VARIABLES content,    \* per sheet, the rows of its table
          based,      \* projects with a database file
          parquet,    \* per sheet, the rows of its local Parquet file, or NoFile
          newer, pushed,
          hub,        \* per sheet, the rows of the file in the dataset, or NoFile
          flags,      \* _dataset_remote_synced, _dataset_import_pending and
                      \*   _dataset_import_attempted
          push,       \* the scheduler's thread
          forced,     \* force_sync's export
          load,       \* _load_from_dataset_impl, in the thread of a request
          through,    \* whether a request goes on behind an import that failed
          entered,    \* history: rows that were inserted
          erased,     \* history: rows that somebody deleted, or that an import
                      \*   found in the table it replaced
          missed,     \* history: sheets whose file was written from rows that
                      \*   had been read before another change of either
          unseen,     \* history: sheets whose file in the dataset the database
                      \*   was not given since the disk was empty
          bypassed,   \* history: a load was called done although there were any
          events

hubVars == <<content, based, parquet, newer, pushed, hub, flags, push, forced, load,
             through, entered, erased, missed, unseen, bypassed, events>>

disk == <<content, based, parquet, newer>>

RowsOfSheet(s) == {r \in HubRows : SheetOf[r] = s}

NoFile == {"no file"}

HubProjects == {OwnerOf[s] : s \in Sheets}

OfProject(p) == {s \in Sheets : OwnerOf[s] = p}

Resting == [at |-> "resting"]

FirstFlags == [synced |-> FALSE, pending |-> FALSE, attempted |-> FALSE]

Event == /\ events < MaxEvents
         /\ events' = events + 1

\* An earlier process may have left a dataset.
HubInit == /\ content = [s \in Sheets |-> {}]
           /\ based = {}
           /\ parquet = [s \in Sheets |-> NoFile]
           /\ newer = {} /\ pushed = {}
           /\ hub \in {h \in [Sheets -> {NoFile} \cup SUBSET HubRows] :
                          \A s \in Sheets : h[s] # NoFile =>
                             h[s] # {} /\ h[s] \subseteq RowsOfSheet(s)}
           /\ flags = FirstFlags
           /\ push = Resting /\ forced = Resting /\ load = Resting
           /\ through = FALSE
           /\ unseen = {s \in Sheets : hub[s] # NoFile}
           /\ entered = UNION {hub[s] : s \in unseen}
           /\ erased = {} /\ missed = {} /\ bypassed = FALSE
           /\ events = 0

\* The scheduler's lock: push_to_hub up to its list, and the load.
LockHeld == push.at = "exporting" \/ load # Resting

Exports == {push, forced}

\* The sheets an export has read and not written yet.
Reading == {e.sheet : e \in {x \in Exports : x.at = "exporting" /\ x.sheet # "none"}}

(***************************************************************************)
(* Requests.                                                               *)
(***************************************************************************)
\* A change of a database makes its files older than it.
Touch(p) == newer' = newer \ OfProject(p)

InsertRow(r) ==
    /\ r \notin entered
    /\ flags.attempted \/ through
    /\ through' = (through /\ flags.attempted)
    /\ content' = [content EXCEPT ![SheetOf[r]] = @ \cup {r}]
    /\ based' = based \cup {OwnerOf[SheetOf[r]]}
    /\ Touch(OwnerOf[SheetOf[r]])
    /\ entered' = entered \cup {r}
    /\ missed' = missed \cup (Reading \cap {SheetOf[r]})
    /\ UNCHANGED <<parquet, pushed, hub, flags, push, forced, load, erased, unseen,
                   events, bypassed>>

\* delete_run, of its rows in one table.
DeleteRow(r) ==
    /\ r \in content[SheetOf[r]]
    /\ Event
    /\ content' = [content EXCEPT ![SheetOf[r]] = @ \ {r}]
    /\ Touch(OwnerOf[SheetOf[r]])
    /\ erased' = erased \cup {r}
    /\ missed' = missed \cup (Reading \cap {SheetOf[r]})
    /\ UNCHANGED <<based, parquet, pushed, hub, flags, push, forced, load, through, entered,
                   unseen, bypassed>>

\* delete_project: the database and the local files; the dataset keeps its own.
DeleteMirrored(p) ==
    /\ p \in based
    /\ Event
    /\ based' = based \ {p}
    /\ content' = [s \in Sheets |-> IF s \in OfProject(p) THEN {} ELSE content[s]]
    /\ parquet' = [s \in Sheets |-> IF s \in OfProject(p) THEN NoFile ELSE parquet[s]]
    /\ erased' = erased \cup {r \in entered : OwnerOf[SheetOf[r]] = p}
    /\ missed' = missed \cup (Reading \cap OfProject(p))
    /\ UNCHANGED <<newer, pushed, hub, flags, push, forced, load, through, entered,
                   unseen, bypassed>>

(***************************************************************************)
(* export_to_parquet.                                                      *)
(***************************************************************************)
\* Faulty variant: the tables are exported before the import.
GateOpen == {s \in Sheets : OwnerOf[s] \in based}

\* The tables it goes through.
ToExport == IF flags.attempted THEN {s \in Sheets : OwnerOf[s] \in based} ELSE {}

Exporting(sheets) == [at |-> "exporting", left |-> sheets, sheet |-> "none", rows |-> {}]

\* A file that is newer than the database is left as it is.
Needed(s) == parquet[s] = NoFile \/ s \notin newer

\* One table is read, the metrics of a project first.  Opening a database that
\* was deleted makes an empty one.
ReadSheet(e, s) ==
    /\ e.at = "exporting" /\ e.sheet = "none" /\ s \in e.left
    /\ s \in Main \/ e.left \cap Main \cap OfProject(OwnerOf[s]) = {}
    /\ based' = IF Needed(s) THEN based \cup {OwnerOf[s]} ELSE based

AfterReading(e, s) ==
    IF Needed(s) /\ content[s] # {}
    THEN [e EXCEPT !.left = @ \ {s}, !.sheet = s, !.rows = content[s]]
    ELSE [e EXCEPT !.left = @ \ {s}]

\* Its file is written.
WriteSheet(e, other) ==
    /\ e.at = "exporting" /\ e.sheet # "none"
    /\ parquet' = [parquet EXCEPT ![e.sheet] = e.rows]
    /\ newer' = newer \cup {e.sheet}
    /\ pushed' = pushed \ {e.sheet}
    /\ missed' = (IF e.rows = content[e.sheet] THEN missed \ {e.sheet} ELSE missed)
                 \cup {s \in {e.sheet} : other.at = "exporting" /\ other.sheet = s}

\* The time of the file is no longer the one that the push has listed.
Renews(s) == push' = IF push.at \in {"uploading", "marking"}
                     THEN [push EXCEPT !.listed = @ \ {s}] ELSE push

AfterWriting(e) == [e EXCEPT !.sheet = "none", !.rows = {}]

\* The trigger that follows the export is a push like the others.
UnlessDone(e) == IF e.left = {} /\ e.sheet = "none" THEN Resting ELSE e

ForceSync ==
    /\ forced = Resting
    /\ Event
    /\ flags' = [flags EXCEPT !.attempted = TRUE]
    /\ bypassed' = (bypassed \/ (~flags.attempted /\ unseen # {}))
    /\ forced' = UnlessDone(Exporting({s \in Sheets : OwnerOf[s] \in based}))
    /\ UNCHANGED <<disk, pushed, hub, push, load, through, entered, erased, missed, unseen>>

ForcedReads(s) == /\ ReadSheet(forced, s)
                  /\ forced' = UnlessDone(AfterReading(forced, s))
                  /\ UNCHANGED <<content, parquet, newer, pushed, hub, flags, push, load,
                                 through, entered, erased, missed, unseen, events,
                                 bypassed>>

ForcedWrites == /\ WriteSheet(forced, push)
                /\ forced' = UnlessDone(AfterWriting(forced))
                /\ Renews(forced.sheet)
                /\ UNCHANGED <<content, based, hub, flags, load, through, entered, erased,
                               unseen, events, bypassed>>

(***************************************************************************)
(* CommitScheduler.push_to_hub.                                            *)
(***************************************************************************)
BeginPush == /\ push = Resting
             /\ load = Resting
             /\ push' = Exporting(ToExport)
             /\ UNCHANGED <<disk, pushed, hub, flags, forced, load, through, entered, erased,
                            missed, unseen, events, bypassed>>

PushReads(s) == /\ ReadSheet(push, s)
                /\ push' = AfterReading(push, s)
                /\ UNCHANGED <<content, parquet, newer, pushed, hub, flags, forced, load,
                               through, entered, erased, missed, unseen, events, bypassed>>

PushWrites == /\ WriteSheet(push, forced)
              /\ push' = AfterWriting(push)
              /\ UNCHANGED <<content, based, hub, flags, forced, load, through, entered,
                             erased, unseen, events, bypassed>>

\* The files whose time is not the one last uploaded; then the lock is released.
ListFiles ==
    /\ push.at = "exporting" /\ push.sheet = "none" /\ push.left = {}
    /\ LET files == {s \in Sheets : parquet[s] # NoFile /\ s \notin pushed}
       IN push' = IF files = {} THEN Resting
                  ELSE [at |-> "uploading", files |-> files, listed |-> files]
    /\ UNCHANGED <<disk, pushed, hub, flags, forced, load, through, entered, erased, missed,
                   unseen, events, bypassed>>

\* create_commit reads the files as they are now; one that is gone makes it fail.
Upload ==
    /\ push.at = "uploading"
    /\ IF \A s \in push.files : parquet[s] # NoFile
       THEN /\ hub' = [s \in Sheets |-> IF s \in push.files THEN parquet[s] ELSE hub[s]]
            /\ push' = [push EXCEPT !.at = "marking"]
       ELSE /\ push' = Resting
            /\ UNCHANGED hub
    /\ UNCHANGED <<disk, pushed, flags, forced, load, through, entered, erased, missed,
                   unseen, events, bypassed>>

UploadFails == /\ push.at = "uploading"
               /\ Event
               /\ push' = Resting
               /\ UNCHANGED <<disk, pushed, hub, flags, forced, load, through, entered,
                              erased,
                              missed, unseen, bypassed>>

\* Faulty variant: the times that the files have by now are recorded.
MarkAsTheyAre ==
    /\ push.at = "marking"
    /\ pushed' = pushed \cup push.files
    /\ push' = Resting
    /\ UNCHANGED <<disk, hub, flags, forced, load, through, entered, erased, missed, unseen,
                   events, bypassed>>

\* last_uploaded gets the times that were listed.
MarkUploaded ==
    /\ push.at = "marking"
    /\ pushed' = pushed \cup push.listed
    /\ push' = Resting
    /\ UNCHANGED <<disk, hub, flags, forced, load, through, entered, erased, missed, unseen,
                   events, bypassed>>

(***************************************************************************)
(* _load_from_dataset_impl.                                                *)
(***************************************************************************)
ListRemote == {s \in Sheets : hub[s] # NoFile /\ parquet[s] = NoFile}

\* The import goes through the files there are, the metrics first.
Importing == [at |-> "importing", left |-> {s \in Sheets : parquet[s] # NoFile}, made |-> {}]

BeginLoad ==
    /\ ~flags.attempted
    /\ ~LockHeld
    /\ load' = IF flags.synced THEN Importing
               ELSE [at |-> "downloading", left |-> ListRemote]
    /\ UNCHANGED <<disk, pushed, hub, flags, push, forced, through, entered, erased, missed,
                   unseen, events, bypassed>>

DownloadFile(s) ==
    /\ load.at = "downloading" /\ s \in load.left
    /\ parquet' = [parquet EXCEPT ![s] = hub[s]]
    /\ newer' = newer \cup {s}
    /\ pushed' = pushed \ {s}
    /\ flags' = [flags EXCEPT !.pending = TRUE]
    /\ load' = [load EXCEPT !.left = @ \ {s}]
    /\ unseen' = unseen \cup {s}
    /\ Renews(s)
    /\ UNCHANGED <<content, based, hub, forced, through, entered, erased, missed,
                   events, bypassed>>

\* The exception leaves the request.
DownloadFails == /\ load.at = "downloading" /\ load.left # {}
                 /\ Event
                 /\ load' = Resting
                 /\ UNCHANGED <<disk, pushed, hub, flags, push, forced, through, entered,
                                erased, missed, unseen, bypassed>>

RemoteSynced == /\ load.at = "downloading" /\ load.left = {}
                /\ flags' = [flags EXCEPT !.synced = TRUE, !.attempted = @ \/ ~flags.pending]
                /\ bypassed' = (bypassed \/ (~flags.pending /\ unseen # {}))
                /\ load' = IF flags.pending THEN Importing ELSE Resting
                /\ UNCHANGED <<disk, pushed, hub, push, forced, through, entered, erased,
                               missed, unseen, events>>

\* _replace_table_rows.  The sidecars of a project that has neither metrics nor
\* a database are skipped.
ImportSheet(s) ==
    /\ load.at = "importing" /\ s \in load.left
    /\ s \in Main \/ load.left \cap Main = {}
    /\ LET p     == OwnerOf[s]
           known == s \in Main \/ p \in load.made \/ p \in based
           rows  == IF parquet[s] = NoFile THEN {} ELSE parquet[s]
       IN IF known
          THEN /\ content' = [content EXCEPT ![s] = rows]
               /\ based' = based \cup {p}
               /\ Touch(p)
               /\ load' = [load EXCEPT !.left = @ \ {s},
                                       !.made = @ \cup {p : x \in Main \cap {s}}]
               /\ unseen' = IF parquet[s] = hub[s] THEN unseen \ {s} ELSE unseen
               /\ missed' = missed \cup (Reading \cap {s})
               /\ erased' = erased \cup (content[s] \ rows)
          ELSE /\ load' = [load EXCEPT !.left = @ \ {s}]
               /\ UNCHANGED <<content, based, newer, missed, erased, unseen>>
    /\ UNCHANGED <<parquet, pushed, hub, flags, push, forced, through, entered, events,
                   bypassed>>

\* A warning; the request goes on without it, and the next one tries again.
ImportFails == /\ load.at = "importing"
               /\ Event
               /\ load' = Resting
               /\ through' = TRUE
               /\ UNCHANGED <<disk, pushed, hub, flags, push, forced, entered, erased,
                              missed,
                              unseen, bypassed>>

ImportEnds == /\ load.at = "importing" /\ load.left = {}
              /\ flags' = [flags EXCEPT !.pending = FALSE, !.attempted = TRUE]
              /\ bypassed' = (bypassed \/ unseen # {})
              /\ load' = Resting
              /\ UNCHANGED <<disk, pushed, hub, push, forced, through, entered, erased,
                             missed,
                             unseen, events>>

(***************************************************************************)
(* The process ends; the disk of its successor is kept or empty.           *)
(***************************************************************************)
RestartSpace(kept) ==
    /\ Event
    /\ flags' = FirstFlags
    /\ push' = Resting /\ forced' = Resting /\ load' = Resting
    /\ through' = FALSE
    /\ pushed' = {}
    /\ IF kept THEN UNCHANGED <<disk, missed, unseen>>
       ELSE /\ content' = [s \in Sheets |-> {}]
            /\ based' = {}
            /\ parquet' = [s \in Sheets |-> NoFile]
            /\ newer' = {}
            /\ missed' = {}
            /\ unseen' = {s \in Sheets : hub[s] # NoFile}
    /\ UNCHANGED <<hub, entered, erased, bypassed>>

HubNext ==
    \/ \E r \in HubRows : InsertRow(r) \/ DeleteRow(r)
    \/ \E p \in HubProjects : DeleteMirrored(p)
    \/ ForceSync \/ ForcedWrites
    \/ BeginPush \/ PushWrites \/ ListFiles \/ Upload \/ UploadFails \/ MarkUploaded
    \/ BeginLoad \/ DownloadFails \/ RemoteSynced \/ ImportFails \/ ImportEnds
    \/ \E s \in Sheets : ForcedReads(s) \/ PushReads(s) \/ DownloadFile(s) \/ ImportSheet(s)
    \/ \E kept \in BOOLEAN : RestartSpace(kept)

HubSpec == HubInit /\ [][HubNext]_hubVars

----------------------------------------------------------------------------
(***************************************************************************)
(* What must hold.                                                         *)
(***************************************************************************)

\* The type invariant.
HubTypeOK ==
    /\ \A s \in Sheets : content[s] # {} => OwnerOf[s] \in based
    /\ \A s \in Sheets : /\ content[s] \subseteq {r \in entered : SheetOf[r] = s}
                         /\ parquet[s] = NoFile \/ parquet[s] \subseteq entered
                         /\ hub[s] = NoFile \/ hub[s] \subseteq entered
    /\ push.at = "exporting" => load = Resting

\* What the database and its files lag behind: a sheet whose export met a
\* change or another export, or whose file in the dataset was not imported.
Behind == missed \cup unseen

\* What reached the dataset is safe: no upload takes a row from it that was not
\* deleted, however the process is restarted in between and its load fails, and
\* a process that has loaded it has all such rows in its database.  It may lag
\* behind only when force_sync declared the load done before it was, when a
\* process ended between download and import and its disk was kept, or for the
\* sidecars of a project without metrics.
ArchivedKept ==
    [][\A s \in Sheets \ (IF bypassed THEN Behind ELSE missed) : hub[s] # NoFile =>
          /\ hub[s] \ hub'[s] \subseteq erased
          /\ flags.attempted /\ load = Resting => hub[s] \subseteq content[s] \cup erased
      ]_hubVars

\* What no later push would export or upload is what the dataset has: a file
\* taken for current holds the rows of its table (but that of an emptied table
\* is never rewritten), and a file taken for uploaded is the one uploaded.
MirrorFresh ==
    \A s \in Sheets \ Behind :
       /\ s \in newer /\ content[s] # {} => parquet[s] = content[s]
       /\ s \in pushed /\ parquet[s] # NoFile => hub[s] = parquet[s]

=============================================================================
