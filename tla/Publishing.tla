------------------------------ MODULE Publishing ------------------------------
(***************************************************************************)
(* How local projects reach a Space (deploy.py, bucket_storage.py): sync   *)
(* replaces a project's database in the bucket that the Space mounts, or   *)
(* sends its rows; sync with sdk="static" and freeze export a snapshot for *)
(* a static Space.  Each is a sequence of calls to the Hub, beside runs    *)
(* that log and a purge, and two of them may go on in background threads.  *)
(*                                                                         *)
(* An entry stands for a file, the row that names it and a link to the     *)
(* row: an artifact version's blob, the version and its run link, or a     *)
(* media file and the metric row that names it.                            *)
(***************************************************************************)
EXTENDS Naturals, FiniteSets

CONSTANTS Entries,      \* what runs log
          Remote,       \* the entries logged straight to the Space
          ProjectOf,    \* the project of each entry
          RunNo,        \* the run of each entry, in the order they started
          RunLabel,     \* the name of that run
          Jobs,         \* calls of sync and freeze
          Buckets,      \* 1 is the one named after the Space, the others have a suffix
          NoBucket,
          MaxHubFaults, \* calls to the Hub that fail for good
          MaxPurged     \* entries purged

ASSUME PublishingAssumption ==
    /\ RunNo \in [Entries -> Nat]
    /\ Buckets \subseteq Nat /\ NoBucket \notin Buckets

VARIABLES files,   \* entries whose file is in the local project
          rows,    \* entries whose row is committed in the local database
          bucket,  \* per bucket, the entries whose row and file it holds, and whether it exists
          mount,   \* the bucket mounted by the Space, if there is a Space
          static,  \* per project and kind, the snapshot a static Space reads
          job,     \* per job, what it does
          served,  \* per project, the entries sent when its Space was last recorded
          inbox,   \* entries sent to the Space and not yet in its database
          hubFaults, purgedEntries,
          moved,     \* history: a Space that had a bucket was given another
          overtaken  \* history: rows that a later upload of the database lacked

crossings == <<moved, overtaken>>

pubVars == <<files, rows, bucket, mount, static, job, served, inbox, hubFaults,
             purgedEntries, crossings>>

Projects == {ProjectOf[e] : e \in Entries}

Local == Entries \ Remote

Of(p, R) == {e \in R : ProjectOf[e] = p}

Begun(s) == job[s].pc # "idle"

\* get_run_summary by name: the rows of the latest run of that name.
Counted(R, n) == LET named == {e \in R : RunLabel[e] = n} IN
                 {e \in named : \A o \in named : RunNo[o] <= RunNo[e]}

Named(R, n) == {e \in R : RunLabel[e] = n}

OnSpace(p) == IF mount = NoBucket THEN {} ELSE Of(p, bucket[mount].rows)

NewJob == [op |-> "none", pc |-> "idle", project |-> "none", bucket |-> NoBucket,
           rows |-> {}, links |-> {}, files |-> {}, expected |-> {}, names |-> {},
           beside |-> {}, early |-> FALSE]

Exports == {"static", "dataset", "freeze"}

NoSnapshot == [rows |-> {}, links |-> {}, files |-> {}, beside |-> {}]

Empty == [rows |-> {}, files |-> {}, made |-> FALSE]

PubInit == /\ files = {} /\ rows = {}
           /\ bucket = [b \in Buckets |-> Empty]
           /\ mount = NoBucket
           /\ static = [k \in Projects \X Exports |-> NoSnapshot]
           /\ job = [s \in Jobs |-> NewJob]
           /\ served = [p \in Projects |-> {}]
           /\ inbox = {}
           /\ hubFaults = 0
           /\ purgedEntries = {}
           /\ moved = FALSE /\ overtaken = {}

-----------------------------------------------------------------------------
(* Runs and a purge beside the jobs. *)

\* The jobs of a project, told that one of its entries changed.
Noting(e) == [s \in Jobs |-> IF Begun(s) /\ job[s].project = ProjectOf[e]
                             THEN [job[s] EXCEPT !.beside = @ \cup {e}] ELSE job[s]]

\* The file is stored before the row that names it.
StoreFile(e) == /\ e \in Local \ (files \cup purgedEntries)
                /\ files' = files \cup {e}
                /\ UNCHANGED <<rows, bucket, mount, static, job, served, inbox, hubFaults,
                               purgedEntries, crossings>>

CommitRow(e) == /\ e \in files \ (rows \cup purgedEntries)
                /\ rows' = rows \cup {e}
                /\ job' = Noting(e)
                /\ UNCHANGED <<files, bucket, mount, static, served, inbox, hubFaults,
                               purgedEntries, crossings>>

\* purge_runs commits the deletion of the row, then deletes the file.
PurgeRow(e) == /\ e \in rows
               /\ Cardinality(purgedEntries) < MaxPurged
               /\ rows' = rows \ {e}
               /\ purgedEntries' = purgedEntries \cup {e}
               /\ job' = Noting(e)
               /\ UNCHANGED <<files, bucket, mount, static, served, inbox, hubFaults, crossings>>

PurgeFile(e) == /\ e \in files \cap purgedEntries
                /\ files' = files \ {e}
                /\ UNCHANGED <<rows, bucket, mount, static, job, served, inbox, hubFaults,
                               purgedEntries, crossings>>

\* A run on another machine logs to the Space, whose database is in the bucket.
LogToSpace(e) ==
    /\ e \in Remote
    /\ mount # NoBucket
    /\ e \notin bucket[mount].rows
    /\ bucket' = [bucket EXCEPT ![mount].rows = @ \cup {e}, ![mount].files = @ \cup {e}]
    /\ job' = Noting(e)
    /\ UNCHANGED <<files, rows, mount, static, served, inbox, hubFaults, purgedEntries, crossings>>

-----------------------------------------------------------------------------
(* Steps shared by the jobs. *)

Ended(j, next) == [NewJob EXCEPT !.op = j.op, !.project = j.project, !.pc = next]

\* A job that ends, but for timing out, remembers what it was only.
Goes(s, next) ==
    job' = [job EXCEPT ![s] = IF next \in {"done", "failed"}
                               THEN Ended(@, next)
                               ELSE [@ EXCEPT !.pc = next]]

At(s, op, pc) == job[s].op = op /\ job[s].pc = pc

\* A call to the Hub fails after its retries: the job raises.
HubFails(s) ==
    /\ job[s].pc \notin {"idle", "done", "failed", "timedout"}
    /\ hubFaults < MaxHubFaults
    /\ hubFaults' = hubFaults + 1
    /\ Goes(s, "failed")
    /\ UNCHANGED <<files, rows, bucket, mount, static, served, inbox, purgedEntries, crossings>>

Free(b) == ~bucket[b].made

\* Faulty variant: the bucket of an existing Space is not looked for.
ResolveAutoBucketFresh(b) == Free(b) /\ \A c \in Buckets : c < b => ~Free(c)

\* resolve_auto_bucket_id: the Space's bucket, or the first free name.
ResolveAutoBucket(b) ==
    IF mount # NoBucket THEN b = mount ELSE Free(b) /\ \A c \in Buckets : c < b => ~Free(c)

\* sync() of a project that has a database, up to the thread of _do_sync.  Its
\* argument force is read nowhere.
BeginSync(s, p) ==
    /\ ~Begun(s)
    /\ Of(p, rows) # {}
    /\ \E b \in Buckets :
          /\ ResolveAutoBucket(b)
          /\ job' = [job EXCEPT ![s] = [NewJob EXCEPT !.op = "gradio", !.pc = "create",
                                                     !.project = p, !.bucket = b,
                                                     !.early = mount = NoBucket]]
    /\ UNCHANGED <<files, rows, bucket, mount, static, served, inbox, hubFaults,
                   purgedEntries, crossings>>

\* set_project_metadata(space_id): the sync is done.
Record(s) ==
    /\ job[s].pc = "record"
    /\ Goes(s, "done")
    /\ served' = [served EXCEPT ![job[s].project] =
                     IF job[s].op \in Exports THEN @ ELSE job[s].expected \ job[s].beside]
    /\ UNCHANGED <<files, rows, bucket, mount, static, inbox, hubFaults, purgedEntries, crossings>>

-----------------------------------------------------------------------------
(* sync to a Space with a bucket. *)

CreateBucket(s) ==
    /\ At(s, "gradio", "create")
    /\ bucket' = [bucket EXCEPT ![job[s].bucket].made = TRUE]
    /\ Goes(s, "list")
    /\ UNCHANGED <<files, rows, mount, static, served, inbox, hubFaults, purgedEntries, crossings>>

\* Faulty variant: the write-ahead log is not checkpointed first.
ListFilesOnly(s) ==
    /\ At(s, "gradio", "list")
    /\ job' = [job EXCEPT ![s].pc = "upload", ![s].files = Of(job[s].project, files)]
    /\ UNCHANGED <<files, rows, bucket, mount, static, served, inbox, hubFaults,
                   purgedEntries, crossings>>

\* upload_project_to_bucket checkpoints the database and lists the files...
ListFiles(s) ==
    /\ At(s, "gradio", "list")
    /\ job' = [job EXCEPT ![s].pc = "upload", ![s].rows = Of(job[s].project, rows),
                          ![s].files = Of(job[s].project, files)]
    /\ UNCHANGED <<files, rows, bucket, mount, static, served, inbox, hubFaults,
                   purgedEntries, crossings>>

\* ... and uploads them as they are by then: the database file holds what was
\* checkpointed, or also what was committed since.
UploadProject(s) ==
    \E R \in {job[s].rows, Of(job[s].project, rows)} :
       /\ At(s, "gradio", "upload")
       /\ job[s].files \subseteq files
       /\ bucket' = [bucket EXCEPT ![job[s].bucket].rows = (@ \ Of(job[s].project, @)) \cup R,
                                   ![job[s].bucket].files = @ \cup job[s].files]
       /\ job' = [job EXCEPT ![s].pc = "mount", ![s].rows = R]
       /\ overtaken' = overtaken \cup (Of(job[s].project, rows) \ R)
       /\ UNCHANGED <<files, rows, mount, static, served, inbox, hubFaults, purgedEntries, moved>>

\* create_space_if_not_exists: the Space is created with the bucket, or the
\* bucket takes the place of the one it mounts.
MountBucket(s) ==
    /\ At(s, "gradio", "mount")
    /\ mount' = job[s].bucket
    /\ moved' = (moved \/ (mount # NoBucket /\ mount # job[s].bucket /\ job[s].early))
    /\ job' = [job EXCEPT ![s].pc = "wait", ![s].expected = Of(job[s].project, rows),
                          ![s].names = {RunLabel[e] : e \in Of(job[s].project, rows)}]
    /\ UNCHANGED <<files, rows, bucket, static, served, inbox, hubFaults, purgedEntries,
                   overtaken>>

\* The Space counts as many rows of the name as were expected.
Seen(s, n) == Cardinality(Counted(OnSpace(job[s].project), n))
              = Cardinality(Named(job[s].expected, n))

\* _wait_for_remote_sync polls the names that are still pending.
Poll(s, n) ==
    /\ job[s].pc = "wait"
    /\ n \in job[s].names
    /\ Seen(s, n)
    /\ job' = [job EXCEPT ![s].names = @ \ {n}]
    /\ UNCHANGED <<files, rows, bucket, mount, static, served, inbox, hubFaults,
                   purgedEntries, crossings>>

EndWait(s) == /\ job[s].pc = "wait"
              /\ job[s].names = {}
              /\ Goes(s, "record")
              /\ UNCHANGED <<files, rows, bucket, mount, static, served, inbox, hubFaults,
                             purgedEntries, crossings>>

\* The deadline passes, long enough for all that was sent to be imported.
TimesOut(s) == /\ job[s].pc = "wait"
               /\ job[s].names # {}
               /\ inbox = {}
               /\ \A n \in job[s].names : ~Seen(s, n)
               /\ Goes(s, "timedout")
               /\ UNCHANGED <<files, rows, bucket, mount, static, served, inbox, hubFaults,
                              purgedEntries, crossings>>

-----------------------------------------------------------------------------
(* sync_incremental to a Space that exists. *)

BeginIncremental(s, p) ==
    /\ ~Begun(s)
    /\ mount # NoBucket
    /\ Of(p, rows) # {}
    /\ job' = [job EXCEPT ![s] = [NewJob EXCEPT !.op = "incremental", !.pc = "send",
                                               !.project = p, !.expected = Of(p, rows)]]
    /\ UNCHANGED <<files, rows, bucket, mount, static, served, inbox, hubFaults,
                   purgedEntries, crossings>>

\* bulk_log acknowledges the batches; log_ids keep rows from being repeated.
SendRows(s) ==
    /\ At(s, "incremental", "send")
    /\ inbox' = inbox \cup job[s].expected
    /\ job' = [job EXCEPT ![s].pc = "wait", ![s].names = {RunLabel[e] : e \in job[s].expected}]
    /\ UNCHANGED <<files, rows, bucket, mount, static, served, hubFaults, purgedEntries, crossings>>

ImportRow(e) ==
    /\ e \in inbox
    /\ inbox' = inbox \ {e}
    /\ bucket' = [bucket EXCEPT ![mount].rows = @ \cup {e}]
    /\ UNCHANGED <<files, rows, mount, static, job, served, hubFaults, purgedEntries, crossings>>

-----------------------------------------------------------------------------
(* Snapshots for a static Space. *)

\* export_for_static_space reads table after table.
ExportRows(s, p, op) ==
    /\ ~Begun(s)
    /\ Of(p, rows) # {}
    /\ job' = [job EXCEPT ![s] = [NewJob EXCEPT !.op = op, !.pc = "links", !.project = p,
                                               !.rows = Of(p, rows)]]
    /\ UNCHANGED <<files, rows, bucket, mount, static, served, inbox, hubFaults,
                   purgedEntries, crossings>>

ExportLinks(s) ==
    /\ job[s].pc = "links"
    /\ job' = [job EXCEPT ![s].pc = "upload", ![s].links = Of(job[s].project, rows)]
    /\ UNCHANGED <<files, rows, bucket, mount, static, served, inbox, hubFaults,
                   purgedEntries, crossings>>

Key(s) == <<job[s].project, job[s].op>>

\* The tables of the snapshot are replaced.
Tables(s) == [static[Key(s)] EXCEPT !.rows = job[s].rows, !.links = job[s].links,
                                    !.beside = job[s].beside]

Publish(s, snapshot, next) ==
    /\ static' = [static EXCEPT ![Key(s)] = snapshot]
    /\ Goes(s, next)
    /\ UNCHANGED <<files, rows, bucket, mount, served, inbox, hubFaults, purgedEntries, crossings>>

\* _export_and_upload_static: one batch of tables and files.
UploadStatic(s) ==
    /\ At(s, "static", "upload")
    /\ Publish(s, [Tables(s) EXCEPT !.files = @ \cup Of(job[s].project, files)], "record")

\* Faulty variant: the tables go first.
UploadDatasetTablesFirst(s) ==
    /\ At(s, "dataset", "upload")
    /\ Publish(s, Tables(s), "tables")

\* upload_dataset_for_static: the files, and then the tables.
UploadDatasetFiles(s) ==
    /\ At(s, "dataset", "upload")
    /\ Publish(s, [static[Key(s)] EXCEPT !.files = @ \cup Of(job[s].project, files)], "tables")

UploadTables(s) ==
    /\ At(s, "dataset", "tables")
    /\ Publish(s, Tables(s), "record")

\* freeze of a Space: export_from_bucket_for_static takes the database, with
\* what it lacks already...
BeginFreeze(s, p) ==
    /\ ~Begun(s)
    /\ mount # NoBucket
    /\ Of(p, bucket[mount].rows) # {}
    /\ job' = [job EXCEPT ![s] = [NewJob EXCEPT !.op = "freeze", !.pc = "tables", !.project = p,
                                               !.bucket = mount,
                                               !.rows = Of(p, bucket[mount].rows),
                                               !.links = Of(p, bucket[mount].rows),
                                               !.beside = bucket[mount].rows \ bucket[mount].files]]
    /\ UNCHANGED <<files, rows, bucket, mount, static, served, inbox, hubFaults,
                   purgedEntries, crossings>>

\* ... publishes its tables...
FreezeTables(s) ==
    /\ At(s, "freeze", "tables")
    /\ Publish(s, Tables(s), "copy")

\* ... and copies the files of the source bucket.
CopyFiles(s) ==
    /\ At(s, "freeze", "copy")
    /\ Publish(s, [static[Key(s)] EXCEPT !.files =
                      @ \cup Of(job[s].project, bucket[job[s].bucket].files)], "done")

PubNext ==
    \/ \E e \in Entries : \/ StoreFile(e) \/ CommitRow(e) \/ PurgeRow(e) \/ PurgeFile(e)
                          \/ LogToSpace(e) \/ ImportRow(e)
    \/ \E s \in Jobs, p \in Projects :
          \/ BeginSync(s, p)
          \/ BeginIncremental(s, p)
          \/ \E op \in {"static", "dataset"} : ExportRows(s, p, op)
          \/ BeginFreeze(s, p)
    \/ \E s \in Jobs :
          \/ CreateBucket(s) \/ ListFiles(s) \/ UploadProject(s) \/ MountBucket(s)
          \/ EndWait(s) \/ TimesOut(s) \/ Record(s) \/ HubFails(s)
          \/ SendRows(s) \/ ExportLinks(s) \/ UploadStatic(s)
          \/ UploadDatasetFiles(s) \/ UploadTables(s) \/ FreezeTables(s) \/ CopyFiles(s)
          \/ \E n \in job[s].names : Poll(s, n)

PubSpec == PubInit /\ [][PubNext]_pubVars

-----------------------------------------------------------------------------
(* Properties. *)

PubTypeOK ==
    /\ files \subseteq Local /\ rows \subseteq Local
    /\ \A b \in Buckets : bucket[b].rows \cup bucket[b].files # {} => bucket[b].made
    /\ mount \in Buckets \cup {NoBucket}
    /\ \A s \in Jobs : job[s].rows \cup job[s].links \cup job[s].files \subseteq Entries

\* Files of the snapshot are still to come, or their copy has failed.
Copying(p, op) == \E s \in Jobs : /\ job[s].op = "freeze" /\ op = "freeze" /\ job[s].project = p
                                 /\ job[s].pc \in {"copy", "failed"}

\* A published snapshot has every row its links name and every file its rows
\* name, but for the entries that a run or a purge changed while it was
\* taken, and between the two uploads of a freeze.
SnapshotsResolve ==
    \A k \in DOMAIN static :
       /\ static[k].links \subseteq static[k].rows \cup static[k].beside
       /\ Copying(k[1], k[2]) \/ static[k].rows \subseteq static[k].files \cup static[k].beside

\* What a sync had sent when it recorded its Space stays there, or waits in
\* the inbox of the Space, unless it was purged, a sync that began before the
\* Space existed mounted another bucket, or one uploaded a database that it had
\* checkpointed before.
SyncedIsServed ==
    moved \/ \A p \in Projects :
                served[p] \subseteq OnSpace(p) \cup inbox \cup purgedEntries \cup overtaken

Namesakes(p) == \E e, o \in Of(p, Entries) : RunLabel[e] = RunLabel[o] /\ RunNo[e] # RunNo[o]

\* A sync whose rows all arrived waits in vain for a run only when others logged
\* or purged beside it, another sync moved the Space or overtook this one, the
\* Space still has rows that were purged before, or runs share a name: their rows
\* are added up on one side and those of the latest run counted on the other.
GivesUpWithReason ==
    \A s \in Jobs : LET p == job[s].project IN
       (job[s].pc = "wait" /\ inbox = {}) => \A n \in job[s].names :
          \/ Seen(s, n)
          \/ job[s].beside # {} \/ moved \/ Of(p, overtaken) # {} \/ Namesakes(p)
          \/ OnSpace(p) \cap purgedEntries # {}
          \/ job[s].op = "incremental" /\ OnSpace(p) \cap Remote # {}

=============================================================================
