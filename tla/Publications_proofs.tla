------------------------ MODULE Publications_proofs -------------------------
(***************************************************************************)
(* What the client publishes and writes down, for all constants: the syncs *)
(* and exports of runs to Spaces and buckets (Publishing) with any         *)
(* entries, and the logbook (Logbook) with any editors, sync workers and   *)
(* cells.  For each the inductive invariant, one lemma per action that it  *)
(* is kept, and the theorem.                                               *)
(***************************************************************************)
EXTENDS Publishing, Logbook, TLAPS

-----------------------------------------------------------------------------
(* The publications (Publishing).  What a job has read differs from the    *)
(* rows committed only in what was written beside it; each stage of a sync *)
(* has put on the Hub what the stages before were to put.                  *)

Operations == {"none", "gradio", "incremental"} \cup Exports

Stages == {"idle", "create", "list", "upload", "mount", "wait", "record", "send", "links", "tables",
           "copy", "done", "failed", "timedout"}

JobStates == [op : Operations, pc : Stages, project : Projects \cup {"none"},
              bucket : Buckets \cup {NoBucket},
              rows : SUBSET Entries, links : SUBSET Entries, files : SUBSET Entries,
              expected : SUBSET Entries, names : SUBSET {RunLabel[e] : e \in Entries},
              beside : SUBSET Entries, early : BOOLEAN]

Snapshots == [rows : SUBSET Entries, links : SUBSET Entries, files : SUBSET Entries,
              beside : SUBSET Entries]

PubTyped ==
  /\ bucket \in [Buckets -> [rows : SUBSET Entries, files : SUBSET Entries, made : BOOLEAN]]
  /\ mount \in Buckets \cup {NoBucket}
  /\ static \in [Projects \X Exports -> Snapshots]
  /\ job \in [Jobs -> JobStates]
  /\ served \in [Projects -> SUBSET Entries]
  /\ moved \in BOOLEAN

\* What was committed once.
Known == rows \cup purgedEntries

RowsSound ==
  /\ files \subseteq Local /\ rows \subseteq files
  /\ purgedEntries \subseteq Local /\ rows \cap purgedEntries = {}
  /\ inbox \subseteq Known
  /\ inbox # {} => mount # NoBucket
  /\ \A p \in Projects : served[p] \subseteq Of(p, Known)

BucketsSound ==
  /\ \A b \in Buckets : /\ bucket[b].rows \subseteq Remote \cup Known
                        /\ bucket[b].rows \cup bucket[b].files # {} => bucket[b].made
  /\ mount # NoBucket => bucket[mount].made

Busy(j) == j.pc \notin {"idle", "done", "failed", "timedout"}

\* Each stage belongs to some operations.
Staged(j) ==
  /\ j.pc # "idle" => j.project \in Projects
  /\ j.pc = "wait" => j.op \in {"gradio", "incremental"}
  /\ j.pc = "record" => j.op \in {"gradio", "incremental", "static", "dataset"}
  /\ j.pc = "links" => j.op \in {"static", "dataset"}

\* What a job has read differs from the rows that there are in what was noted.
Reads(j, R) == /\ R \subseteq Of(j.project, Known)
               /\ R \ rows \subseteq j.beside
               /\ Of(j.project, rows) \ R \subseteq j.beside

ReadFits(j) ==
  /\ \/ j.op = "gradio" /\ j.pc \in {"upload", "mount", "wait", "record"}
     \/ j.op \in {"static", "dataset"} /\ j.pc \in {"links", "upload", "tables"}
     => Reads(j, j.rows)
  /\ \/ j.op \in {"gradio", "incremental"} /\ j.pc \in {"wait", "record"}
     \/ j.op = "incremental" /\ j.pc = "send"
     => Reads(j, j.expected)

LinksFit(j) ==
  \/ j.op \in {"static", "dataset"} /\ j.pc \in {"upload", "tables"}
  \/ j.op = "freeze" /\ j.pc = "tables"
  => j.links \subseteq j.rows \cup j.beside

\* The files of what will be published.
FilesFit(j) ==
  /\ j.op = "dataset" /\ j.pc = "tables" =>
       j.rows \subseteq static[<<j.project, "dataset">>].files \cup j.beside
  /\ j.op = "freeze" /\ j.pc \in {"tables", "copy"} => j.bucket \in Buckets
  /\ j.op = "freeze" /\ j.pc = "tables" =>
       /\ \A e \in j.rows : ProjectOf[e] = j.project
       /\ j.rows \subseteq bucket[j.bucket].files \cup j.beside

\* What a sync has uploaded is in its bucket, and nothing else.
UploadFits(j) ==
  j.op = "gradio" /\ Busy(j) =>
    /\ j.bucket \in Buckets
    /\ j.pc # "create" => bucket[j.bucket].made
    /\ j.pc \in {"mount", "wait", "record"} =>
         /\ j.rows \subseteq bucket[j.bucket].rows \cup purgedEntries \cup overtaken
         /\ Of(j.project, bucket[j.bucket].rows) \subseteq j.rows \cup j.beside \cup purgedEntries

\* And its bucket is the one of the Space.
MountFits(j) ==
  /\ j.op = "gradio" /\ Busy(j) /\ (~j.early \/ j.pc \in {"wait", "record"}) /\ ~moved =>
       mount = j.bucket
  /\ j.op = "incremental" /\ Busy(j) => mount # NoBucket

SentFits(j) ==
  j.op = "incremental" /\ j.pc \in {"wait", "record"} /\ ~moved =>
    j.expected \subseteq OnSpace(j.project) \cup inbox \cup purgedEntries \cup overtaken

JobFits(j) == /\ Staged(j) /\ ReadFits(j) /\ LinksFit(j) /\ FilesFit(j)
              /\ UploadFits(j) /\ MountFits(j) /\ SentFits(j)

\* A freeze that is copying files, or has failed to.
Copies(p, R) == \E s \in Jobs : /\ job[s].op = "freeze" /\ job[s].project = p
                                /\ \/ job[s].pc = "failed"
                                   \/ job[s].pc = "copy" /\ R \subseteq bucket[job[s].bucket].files

StaticAt(p, op) ==
  /\ \A e \in static[<<p, op>>].rows : ProjectOf[e] = p
  /\ static[<<p, op>>].links \subseteq static[<<p, op>>].rows \cup static[<<p, op>>].beside
  /\ \/ static[<<p, op>>].rows \subseteq static[<<p, op>>].files \cup static[<<p, op>>].beside
     \/ op = "freeze" /\ Copies(p, static[<<p, op>>].rows \ (static[<<p, op>>].files
                                                               \cup static[<<p, op>>].beside))

StaticSound == \A p \in Projects, op \in Exports : StaticAt(p, op)

PubInv == /\ PubTyped /\ RowsSound /\ BucketsSound
          /\ \A s \in Jobs : JobFits(job[s])
          /\ StaticSound /\ SyncedIsServed

----------------------------------------------------------------------------

LEMMA PubInvInit == PubInit => PubInv
<1> SUFFICES ASSUME PubInit PROVE PubInv
  OBVIOUS
<1>1. NewJob \in JobStates
  BY PublishingAssumption DEF NewJob, JobStates, Operations, Stages
<1>2. PubTyped
  BY <1>1 DEF PubInit, PubTyped, Empty, NoSnapshot, Snapshots
<1>3. RowsSound /\ BucketsSound /\ SyncedIsServed
  BY PublishingAssumption DEF PubInit, RowsSound, BucketsSound, Empty, Known, SyncedIsServed
<1>4. ASSUME NEW s \in Jobs PROVE JobFits(job[s])
  BY DEF PubInit, NewJob, JobFits, Staged, ReadFits, LinksFit, FilesFit, UploadFits, MountFits,
     SentFits, Busy
<1>5. StaticSound
  BY DEF PubInit, StaticSound, StaticAt, NoSnapshot
<1> QED
  BY <1>2, <1>3, <1>4, <1>5 DEF PubInv

\* What may happen beside a job: it notes the changes to the rows of its project, and
\* the buckets lose and gain only what it allows for.
Bystander(x) ==
  /\ job'[x].op = job[x].op /\ job'[x].pc = job[x].pc /\ job'[x].project = job[x].project
  /\ job'[x].bucket = job[x].bucket /\ job'[x].rows = job[x].rows /\ job'[x].links = job[x].links
  /\ job'[x].expected = job[x].expected /\ job'[x].early = job[x].early
  /\ job'[x].names = job[x].names
  /\ job[x].beside \subseteq job'[x].beside
  /\ job[x].pc # "idle" =>
       \A e \in Entries : ProjectOf[e] = job[x].project /\ e \notin job'[x].beside =>
          /\ e \in rows <=> e \in rows'
          /\ \A b \in Buckets : e \in bucket'[b].rows =>
                e \in bucket[b].rows \/ e \in rows \/ e \in purgedEntries

Forward ==
  /\ rows' \subseteq Entries
  /\ Known \subseteq Known' /\ purgedEntries \subseteq purgedEntries'
  /\ overtaken \subseteq overtaken'
  /\ moved => moved'
  /\ \A b \in Buckets : /\ bucket[b].files \subseteq bucket'[b].files
                        /\ bucket[b].made => bucket'[b].made
                        /\ \A e \in Local : e \in bucket[b].rows =>
                             e \in bucket'[b].rows \/ e \in purgedEntries' \/ e \in overtaken'
  /\ \A k \in Projects \X Exports : static[k].files \subseteq static'[k].files
  /\ moved' \/ mount' = mount \/ mount = NoBucket
  /\ mount # NoBucket => mount' # NoBucket
  /\ moved' \/ \A e \in inbox : e \in inbox' \/ e \in bucket'[mount'].rows

LEMMA OthersFit ==
  ASSUME PubInv, PubTyped', NEW x \in Jobs, Bystander(x), Forward
  PROVE  JobFits(job[x])'
<1> USE DEF PubInv
<1>1. job[x] \in JobStates /\ job'[x] \in JobStates /\ JobFits(job[x])
  BY DEF PubTyped
<1>2. Staged(job[x])'
  BY <1>1 DEF JobFits, Staged, Bystander
<1>3. ASSUME NEW R \in SUBSET Entries, Reads(job[x], R), job[x].pc # "idle"
      PROVE  Reads(job[x], R)'
  <2>1. Of(job[x].project, Known) \subseteq Of(job'[x].project, Known')
    BY DEF Bystander, Forward, Of
  <2>2. \A e \in R : ProjectOf[e] = job[x].project
    BY <1>3 DEF Reads, Of
  <2>4. R \ rows' \subseteq job'[x].beside
    BY <1>3, <2>2 DEF Bystander, Reads
  <2>5. Of(job'[x].project, rows') \ R \subseteq job'[x].beside
    <3> SUFFICES ASSUME NEW e \in rows', ProjectOf[e] = job[x].project, e \notin R, e \in Entries,
                        e \notin job'[x].beside
                 PROVE  FALSE
      BY DEF Of, Bystander, Forward
    <3>1. e \in rows
      BY <1>3 DEF Bystander
    <3> QED
      BY <1>3, <3>1 DEF Reads, Of, Bystander
  <2> QED
    BY <1>3, <2>1, <2>4, <2>5 DEF Reads
<1>4. ReadFits(job[x])'
  <2>1. job[x].rows \in SUBSET Entries /\ job[x].expected \in SUBSET Entries
    BY <1>1 DEF JobStates
  <2> QED
    BY <1>1, <1>3, <2>1 DEF JobFits, ReadFits, Bystander
<1>5. LinksFit(job[x])'
  BY <1>1 DEF JobFits, LinksFit, Bystander
<1>6. FilesFit(job[x])'
  <2>1. job[x].project \in Projects \/ job[x].pc = "idle"
    BY <1>1 DEF JobFits, Staged
  <2>2. <<job[x].project, "dataset">> \in Projects \X Exports \/ job[x].pc = "idle"
    BY <2>1 DEF Exports
  <2> QED
    BY <1>1, <2>2 DEF JobFits, FilesFit, Bystander, Forward
<1>7. UploadFits(job[x])'
  <2> SUFFICES ASSUME job[x].op = "gradio", Busy(job[x])
               PROVE  /\ job[x].bucket \in Buckets
                      /\ job[x].pc # "create" => bucket'[job[x].bucket].made
                      /\ job[x].pc \in {"mount", "wait", "record"} =>
                           /\ job[x].rows \subseteq bucket'[job[x].bucket].rows \cup purgedEntries'
                                                    \cup overtaken'
                           /\ Of(job[x].project, bucket'[job[x].bucket].rows)
                                \subseteq job[x].rows \cup job'[x].beside \cup purgedEntries'
    BY DEF UploadFits, Bystander, Busy
  <2>1. /\ job[x].bucket \in Buckets
        /\ job[x].pc # "create" => bucket[job[x].bucket].made
        /\ job[x].pc \in {"mount", "wait", "record"} =>
             /\ job[x].rows \subseteq bucket[job[x].bucket].rows \cup purgedEntries \cup overtaken
             /\ Of(job[x].project, bucket[job[x].bucket].rows)
                  \subseteq job[x].rows \cup job[x].beside \cup purgedEntries
             /\ Reads(job[x], job[x].rows)
    BY <1>1 DEF JobFits, UploadFits, ReadFits
  <2>2. bucket[job[x].bucket].made => bucket'[job[x].bucket].made
    BY <2>1 DEF Forward
  <2>3. ASSUME job[x].pc \in {"mount", "wait", "record"}
        PROVE  job[x].rows \subseteq bucket'[job[x].bucket].rows \cup purgedEntries' \cup overtaken'
    <3>1. job[x].rows \subseteq Local
      BY <2>1, <2>3 DEF Reads, Of, Known, RowsSound
    <3> SUFFICES ASSUME NEW e \in job[x].rows
                 PROVE  \/ e \in bucket'[job[x].bucket].rows \/ e \in purgedEntries'
                        \/ e \in overtaken'
      OBVIOUS
    <3>2. e \in bucket[job[x].bucket].rows \/ e \in purgedEntries \/ e \in overtaken
      BY <2>1, <2>3
    <3> QED
      BY <2>1, <3>1, <3>2 DEF Forward
  <2>4. ASSUME job[x].pc \in {"mount", "wait", "record"}
        PROVE  Of(job[x].project, bucket'[job[x].bucket].rows)
                 \subseteq job[x].rows \cup job'[x].beside \cup purgedEntries'
    <3> SUFFICES ASSUME NEW e \in bucket'[job[x].bucket].rows, ProjectOf[e] = job[x].project,
                        e \notin job'[x].beside, e \notin purgedEntries'
                 PROVE  e \in job[x].rows
      BY DEF Of
    <3>1. e \in Entries
      BY <2>1 DEF PubTyped
    <3>2. e \in bucket[job[x].bucket].rows \/ e \in rows
      BY <2>1, <2>4, <3>1 DEF Bystander, Forward
    <3>3. e \notin job[x].beside /\ e \notin purgedEntries
      BY DEF Bystander, Forward
    <3> QED
      BY <2>1, <2>4, <3>2, <3>3 DEF Of, Reads
  <2> QED
    BY <2>1, <2>2, <2>3, <2>4
<1>8. MountFits(job[x])'
  <2>1. ASSUME job[x].op = "gradio", Busy(job[x]), ~job[x].early \/ job[x].pc \in {"wait", "record"},
               ~moved'
        PROVE  mount' = job[x].bucket
    <3>1. mount = job[x].bucket /\ job[x].bucket \in Buckets
      BY <1>1, <2>1 DEF JobFits, MountFits, UploadFits, Forward
    <3> QED
      BY <2>1, <3>1, PublishingAssumption DEF Forward
  <2>2. ASSUME job[x].op = "incremental", Busy(job[x]) PROVE mount' # NoBucket
    BY <1>1, <2>2 DEF JobFits, MountFits, Forward
  <2> QED
    BY <2>1, <2>2 DEF MountFits, Bystander, Busy
<1>9. SentFits(job[x])'
  <2> SUFFICES ASSUME job[x].op = "incremental", job[x].pc \in {"wait", "record"}, ~moved',
                      NEW e \in job[x].expected, e \notin inbox', e \notin purgedEntries',
                      e \notin overtaken'
               PROVE  mount' # NoBucket /\ e \in Of(job[x].project, bucket'[mount'].rows)
    BY DEF SentFits, Bystander, OnSpace
  <2>1. Busy(job[x]) /\ ~moved
    BY DEF Busy, Forward
  <2>2. mount # NoBucket /\ mount' = mount /\ mount \in Buckets
    BY <1>1, <2>1 DEF JobFits, MountFits, Forward, PubTyped
  <2>3. e \in Local /\ ProjectOf[e] = job[x].project
    BY <1>1 DEF JobFits, ReadFits, Reads, Of, Known, RowsSound
  <2>4. e \notin purgedEntries /\ e \notin overtaken
    BY DEF Forward
  <2>5. e \in inbox \/ e \in bucket[mount].rows
    BY <1>1, <2>1, <2>2, <2>4 DEF JobFits, SentFits, OnSpace, Of
  <2>6. e \in bucket'[mount'].rows
    BY <2>2, <2>3, <2>5 DEF Forward
  <2> QED
    BY <2>2, <2>3, <2>6 DEF Of
<1> QED
  BY <1>2, <1>4, <1>5, <1>6, <1>7, <1>8, <1>9 DEF JobFits

\* The snapshots, beside steps that leave them.
StillCopies(x) ==
  \/ Bystander(x)
  \/ job[x].pc \notin {"copy", "failed"}
  \/ job'[x].op = job[x].op /\ job'[x].project = job[x].project /\ job'[x].pc = "failed"

LEMMA CopiesKept ==
  ASSUME PubInv, Forward, NEW x \in Jobs, StillCopies(x), NEW p, NEW R,
         job[x].op = "freeze", job[x].project = p,
         \/ job[x].pc = "failed"
         \/ job[x].pc = "copy" /\ R \subseteq bucket[job[x].bucket].files
  PROVE  Copies(p, R)'
<1>1. JobFits(job[x])
  BY DEF PubInv
<1>2. CASE job'[x].op = job[x].op /\ job'[x].project = job[x].project /\ job'[x].pc = "failed"
  BY <1>2 DEF Copies
<1>3. CASE Bystander(x)
  <2>1. CASE job[x].pc = "failed"
    BY <1>3, <2>1 DEF Copies, Bystander
  <2>2. CASE job[x].pc = "copy"
    <3>1. job[x].bucket \in Buckets
      BY <1>1, <2>2 DEF JobFits, FilesFit
    <3>2. R \subseteq bucket'[job'[x].bucket].files
      BY <1>3, <2>2, <3>1 DEF Bystander, Forward
    <3> QED
      BY <1>3, <2>2, <3>2 DEF Copies, Bystander
  <2> QED
    BY <2>1, <2>2
<1> QED
  BY <1>2, <1>3 DEF StillCopies

LEMMA StaticKept ==
  ASSUME PubInv, Forward, NEW p \in Projects, NEW op \in Exports,
         static'[<<p, op>>] = static[<<p, op>>],
         \A x \in Jobs : job[x].project = p /\ job[x].op = op => StillCopies(x)
  PROVE  StaticAt(p, op)'
<1> SUFFICES ASSUME NEW R, op = "freeze", Copies(p, R)
             PROVE  Copies(p, R)'
  BY DEF PubInv, StaticSound, StaticAt
<1>1. PICK x \in Jobs : /\ job[x].op = "freeze" /\ job[x].project = p
                        /\ \/ job[x].pc = "failed"
                           \/ job[x].pc = "copy" /\ R \subseteq bucket[job[x].bucket].files
  BY DEF Copies
<1> QED
  BY <1>1, CopiesKept

LEMMA ServedKept ==
  ASSUME PubInv, served' = served, Forward
  PROVE  SyncedIsServed'
<1> SUFFICES ASSUME ~moved', NEW p \in Projects, NEW e \in served[p]
             PROVE  \/ mount' # NoBucket /\ e \in Of(p, bucket'[mount'].rows)
                    \/ e \in inbox' \/ e \in purgedEntries' \/ e \in overtaken'
  BY DEF SyncedIsServed, OnSpace
<1>1. e \in Local /\ ProjectOf[e] = p
  BY DEF PubInv, RowsSound, Of, Known
<1>2. \/ mount # NoBucket /\ e \in bucket[mount].rows
      \/ e \in inbox \/ e \in purgedEntries \/ e \in overtaken
  BY DEF PubInv, SyncedIsServed, OnSpace, Of, Forward
<1>3. ASSUME e \in inbox, e \notin inbox' PROVE mount' # NoBucket /\ e \in bucket'[mount'].rows
  <2>1. mount # NoBucket
    BY <1>3 DEF PubInv, RowsSound
  <2> QED
    BY <1>3, <2>1 DEF Forward
<1>4. ASSUME mount # NoBucket, e \in bucket[mount].rows
      PROVE  \/ mount' # NoBucket /\ e \in bucket'[mount'].rows
             \/ e \in purgedEntries' \/ e \in overtaken'
  <2>1. mount' = mount /\ mount \in Buckets
    BY <1>4 DEF Forward, PubInv, PubTyped
  <2> QED
    BY <1>1, <1>4, <2>1 DEF Forward
<1> QED
  BY <1>1, <1>2, <1>3, <1>4 DEF Of, Forward

\* A step of the world beside the jobs.
LEMMA WorldStep ==
  ASSUME PubInv, PubTyped', RowsSound', BucketsSound', Forward,
         static' = static, served' = served, \A x \in Jobs : Bystander(x)
  PROVE  PubInv'
<1>1. StaticSound'
  BY StaticKept DEF StillCopies, StaticSound
<1> QED
  BY <1>1, OthersFit, ServedKept DEF PubInv

\* A step of a job that changes nothing else.
World == <<files, rows, bucket, mount, static, served, inbox, purgedEntries, crossings>>

LEMMA JobStep ==
  ASSUME PubInv, NEW s \in Jobs, UNCHANGED World, job' \in [Jobs -> JobStates],
         \A x \in Jobs \ {s} : job'[x] = job[x],
         JobFits(job[s])', StillCopies(s)
  PROVE  PubInv'
<1>1. PubTyped' /\ RowsSound' /\ BucketsSound'
  BY DEF PubInv, PubTyped, RowsSound, BucketsSound, Known, World, crossings
<1>2. Forward
  BY DEF Forward, World, crossings, Known, PubInv, RowsSound, Local
<1>3. \A x \in Jobs \ {s} : Bystander(x)
  BY DEF Bystander, World
<1>4. StaticSound'
  BY <1>2, <1>3, StaticKept DEF StillCopies, StaticSound, World
<1>5. SyncedIsServed'
  BY <1>2, ServedKept DEF World
<1> QED
  BY <1>1, <1>2, <1>3, <1>4, <1>5, OthersFit DEF PubInv

----------------------------------------------------------------------------
(* Runs and purges. *)

LEMMA StoreFileKeeps == ASSUME PubInv, NEW e \in Entries, StoreFile(e) PROVE PubInv'
<1>1. PubTyped' /\ RowsSound' /\ BucketsSound'
  BY DEF PubInv, PubTyped, RowsSound, BucketsSound, Known, StoreFile, crossings
<1>2. Forward
  BY DEF Forward, StoreFile, crossings, Known, PubInv, RowsSound, Local
<1>3. \A x \in Jobs : Bystander(x)
  BY DEF Bystander, StoreFile
<1> QED
  BY <1>1, <1>2, <1>3, WorldStep DEF StoreFile

LEMMA PurgeFileKeeps == ASSUME PubInv, NEW e \in Entries, PurgeFile(e) PROVE PubInv'
<1>1. PubTyped' /\ RowsSound' /\ BucketsSound'
  BY DEF PubInv, PubTyped, RowsSound, BucketsSound, Known, PurgeFile, crossings
<1>2. Forward
  BY DEF Forward, PurgeFile, crossings, Known, PubInv, RowsSound, Local
<1>3. \A x \in Jobs : Bystander(x)
  BY DEF Bystander, PurgeFile
<1> QED
  BY <1>1, <1>2, <1>3, WorldStep DEF PurgeFile

\* The jobs of a project note an entry.
LEMMA NotingNotes ==
  ASSUME PubInv, NEW e \in Entries, job' = Noting(e)
  PROVE  /\ job' \in [Jobs -> JobStates]
         /\ \A x \in Jobs :
              /\ job'[x].op = job[x].op /\ job'[x].pc = job[x].pc /\ job'[x].project = job[x].project
              /\ job'[x].bucket = job[x].bucket /\ job'[x].rows = job[x].rows
              /\ job'[x].links = job[x].links /\ job'[x].expected = job[x].expected
              /\ job'[x].early = job[x].early /\ job'[x].names = job[x].names
              /\ job[x].beside \subseteq job'[x].beside
              /\ job[x].pc # "idle" /\ job[x].project = ProjectOf[e] => e \in job'[x].beside
<1>1. \A x \in Jobs : /\ job[x] \in JobStates
                      /\ job'[x] = IF Begun(x) /\ job[x].project = ProjectOf[e]
                                   THEN [job[x] EXCEPT !.beside = @ \cup {e}] ELSE job[x]
  BY DEF PubInv, PubTyped, Noting
<1>2. \A x \in Jobs : [job[x] EXCEPT !.beside = @ \cup {e}] \in JobStates
  BY <1>1 DEF JobStates
<1>3. job' \in [Jobs -> JobStates]
  BY <1>1, <1>2 DEF Noting
<1> QED
  BY <1>1, <1>3 DEF JobStates, Begun

LEMMA CommitRowKeeps == ASSUME PubInv, NEW e \in Entries, CommitRow(e) PROVE PubInv'
<1>1. PubTyped' /\ RowsSound' /\ BucketsSound'
  BY NotingNotes DEF PubInv, PubTyped, RowsSound, BucketsSound, Known, CommitRow, crossings, Of
<1>2. Forward
  BY DEF Forward, CommitRow, crossings, Known, PubInv, RowsSound, Local
<1>3. \A x \in Jobs : Bystander(x)
  BY NotingNotes DEF Bystander, CommitRow
<1> QED
  BY <1>1, <1>2, <1>3, WorldStep DEF CommitRow

LEMMA PurgeRowKeeps == ASSUME PubInv, NEW e \in Entries, PurgeRow(e) PROVE PubInv'
<1>1. PubTyped' /\ RowsSound' /\ BucketsSound'
  BY NotingNotes DEF PubInv, PubTyped, RowsSound, BucketsSound, Known, PurgeRow, crossings, Of
<1>2. Forward
  BY DEF Forward, PurgeRow, crossings, Known, PubInv, RowsSound, Local
<1>3. \A x \in Jobs : Bystander(x)
  BY NotingNotes DEF Bystander, PurgeRow
<1> QED
  BY <1>1, <1>2, <1>3, WorldStep DEF PurgeRow

LEMMA LogToSpaceKeeps == ASSUME PubInv, NEW e \in Entries, LogToSpace(e) PROVE PubInv'
<1>1. mount \in Buckets /\ e \in Remote
  BY DEF PubInv, PubTyped, LogToSpace
<1>2. \A b \in Buckets : /\ bucket'[b].made = bucket[b].made
                         /\ bucket'[b].rows = IF b = mount THEN bucket[b].rows \cup {e}
                                              ELSE bucket[b].rows
                         /\ bucket'[b].files = IF b = mount THEN bucket[b].files \cup {e}
                                               ELSE bucket[b].files
  BY <1>1 DEF PubInv, PubTyped, LogToSpace
<1>3. bucket' \in [Buckets -> [rows : SUBSET Entries, files : SUBSET Entries, made : BOOLEAN]]
  BY <1>1 DEF PubInv, PubTyped, LogToSpace
<1>4. PubTyped'
  BY <1>3, NotingNotes DEF PubInv, PubTyped, LogToSpace, crossings
<1>5. RowsSound'
  BY DEF PubInv, RowsSound, Known, LogToSpace
<1>6. /\ UNCHANGED <<files, rows, mount, static, served, inbox, purgedEntries, moved, overtaken>>
      /\ job' = Noting(e) /\ mount # NoBucket
  BY DEF LogToSpace, crossings
<1>7. BucketsSound'
  <2>1. \A b \in Buckets : bucket'[b].rows \subseteq Remote \cup Known'
    BY <1>1, <1>2, <1>6 DEF PubInv, BucketsSound, Known
  <2>2. bucket[mount].made
    BY <1>6 DEF PubInv, BucketsSound
  <2>3. \A b \in Buckets : bucket'[b].rows \cup bucket'[b].files # {} => bucket'[b].made
    BY <1>2, <2>2 DEF PubInv, BucketsSound
  <2> QED
    BY <1>1, <1>2, <1>6, <2>1, <2>2, <2>3 DEF BucketsSound
<1>8. Forward
  BY <1>1, <1>2, <1>6 DEF Forward, Known, PubInv, RowsSound, Local
<1>9. \A x \in Jobs : Bystander(x)
  <2> SUFFICES ASSUME NEW x \in Jobs PROVE Bystander(x)
    OBVIOUS
  <2>1. ASSUME job[x].pc # "idle", NEW d \in Entries, ProjectOf[d] = job[x].project,
               d \notin job'[x].beside, NEW b \in Buckets, d \in bucket'[b].rows
        PROVE  d \in bucket[b].rows
    <3>1. d # e
      BY <1>6, <2>1, NotingNotes
    <3> QED
      BY <1>2, <2>1, <3>1
  <2> QED
    BY <1>6, <2>1, NotingNotes DEF Bystander
<1> QED
  BY <1>4, <1>5, <1>6, <1>7, <1>8, <1>9, WorldStep

LEMMA ImportRowKeeps == ASSUME PubInv, NEW e \in Entries, ImportRow(e) PROVE PubInv'
<1>1. mount \in Buckets /\ e \in Known /\ mount # NoBucket
  BY DEF PubInv, PubTyped, RowsSound, ImportRow
<1>2. \A b \in Buckets : /\ bucket'[b].made = bucket[b].made
                         /\ bucket'[b].rows = IF b = mount THEN bucket[b].rows \cup {e}
                                              ELSE bucket[b].rows
                         /\ bucket'[b].files = bucket[b].files
  BY <1>1 DEF PubInv, PubTyped, ImportRow
<1>3. bucket' \in [Buckets -> [rows : SUBSET Entries, files : SUBSET Entries, made : BOOLEAN]]
  BY <1>1 DEF PubInv, PubTyped, ImportRow
<1>4. PubTyped'
  BY <1>3 DEF PubInv, PubTyped, ImportRow, crossings
<1>5. RowsSound'
  BY DEF PubInv, RowsSound, Known, ImportRow
<1>6. /\ UNCHANGED <<files, rows, mount, static, job, served, purgedEntries, moved, overtaken>>
      /\ inbox' = inbox \ {e}
  BY DEF ImportRow, crossings
<1>7. BucketsSound'
  BY <1>1, <1>2, <1>6 DEF PubInv, BucketsSound, Known
<1>8. Forward
  BY <1>1, <1>2, <1>6 DEF Forward, Known, PubInv, RowsSound, Local
<1>9. \A x \in Jobs : Bystander(x)
  BY <1>1, <1>2, <1>6 DEF Bystander, Known
<1> QED
  BY <1>4, <1>5, <1>6, <1>7, <1>8, <1>9, WorldStep

----------------------------------------------------------------------------
(* Steps of a job that change nothing else. *)

LEMMA JobOf == ASSUME PubInv, NEW s \in Jobs
               PROVE  job[s] \in JobStates /\ JobFits(job[s])
BY DEF PubInv, PubTyped

LEMMA JobUpdated ==
  ASSUME PubInv, NEW s \in Jobs, NEW j \in JobStates, job' = [job EXCEPT ![s] = j]
  PROVE  job' \in [Jobs -> JobStates] /\ job'[s] = j /\ \A x \in Jobs \ {s} : job'[x] = job[x]
BY DEF PubInv, PubTyped

LEMMA EndedFits ==
  ASSUME PubInv, NEW s \in Jobs, NEW next \in {"done", "failed"}, job[s].pc # "idle"
  PROVE  /\ Ended(job[s], next) \in JobStates
         /\ Ended(job[s], next).op = job[s].op /\ Ended(job[s], next).pc = next
         /\ Ended(job[s], next).project = job[s].project
BY JobOf, PublishingAssumption DEF Ended, NewJob, JobStates, Operations, Stages

LEMMA HubFailsKeeps == ASSUME PubInv, NEW s \in Jobs, HubFails(s) PROVE PubInv'
<1>1. /\ job' = [job EXCEPT ![s] = Ended(job[s], "failed")]
      /\ job[s].pc # "idle" /\ UNCHANGED World
  BY DEF HubFails, Goes, World, crossings
<1>2. job' \in [Jobs -> JobStates] /\ \A x \in Jobs \ {s} : job'[x] = job[x]
  BY <1>1, EndedFits DEF PubInv, PubTyped
<1>3. job'[s].op = job[s].op /\ job'[s].pc = "failed" /\ job'[s].project = job[s].project
  BY <1>1, EndedFits DEF PubInv, PubTyped
<1>4. JobFits(job[s])'
  BY <1>1, <1>3, JobOf DEF JobFits, Staged, ReadFits, LinksFit, FilesFit, UploadFits, MountFits, SentFits, Busy
<1> QED
  BY <1>1, <1>2, <1>3, <1>4, JobStep DEF StillCopies

LEMMA BeginSyncKeeps ==
  ASSUME PubInv, NEW s \in Jobs, NEW p \in Projects, BeginSync(s, p)
  PROVE  PubInv'
<1>1. PICK b \in Buckets :
        /\ mount # NoBucket => b = mount
        /\ job' = [job EXCEPT ![s] = [NewJob EXCEPT !.op = "gradio", !.pc = "create",
                                                   !.project = p, !.bucket = b,
                                                   !.early = mount = NoBucket]]
  BY DEF BeginSync, ResolveAutoBucket
<1>2. UNCHANGED World /\ job[s].pc = "idle"
  BY DEF BeginSync, World, crossings, Begun
<1>3. [NewJob EXCEPT !.op = "gradio", !.pc = "create", !.project = p, !.bucket = b,
                     !.early = mount = NoBucket] \in JobStates
  BY PublishingAssumption DEF NewJob, JobStates, Operations, Stages
<1>4. job' \in [Jobs -> JobStates] /\ \A x \in Jobs \ {s} : job'[x] = job[x]
  BY <1>1, <1>3 DEF PubInv, PubTyped
<1>5. /\ job'[s].op = "gradio" /\ job'[s].pc = "create" /\ job'[s].project = p
      /\ job'[s].bucket = b /\ job'[s].early = (mount = NoBucket)
  BY <1>1 DEF PubInv, PubTyped, NewJob
<1>6. JobFits(job[s])'
  BY <1>1, <1>2, <1>5 DEF JobFits, Staged, ReadFits, LinksFit, FilesFit, UploadFits, MountFits, SentFits, Busy, World
<1> QED
  BY <1>2, <1>4, <1>6, JobStep DEF StillCopies

LEMMA BeginIncrementalKeeps ==
  ASSUME PubInv, NEW s \in Jobs, NEW p \in Projects, BeginIncremental(s, p)
  PROVE  PubInv'
<1>1. /\ job' = [job EXCEPT ![s] = [NewJob EXCEPT !.op = "incremental", !.pc = "send",
                                                 !.project = p, !.expected = Of(p, rows)]]
      /\ UNCHANGED World /\ job[s].pc = "idle" /\ mount # NoBucket
  BY DEF BeginIncremental, World, crossings, Begun
<1>2. Of(p, rows) \subseteq Of(p, Known) /\ Of(p, rows) \subseteq Entries
  BY DEF Of, Known, PubInv, RowsSound, Local
<1>3. [NewJob EXCEPT !.op = "incremental", !.pc = "send", !.project = p, !.expected = Of(p, rows)]
        \in JobStates
  BY <1>2, PublishingAssumption DEF NewJob, JobStates, Operations, Stages
<1>4. job' \in [Jobs -> JobStates] /\ \A x \in Jobs \ {s} : job'[x] = job[x]
  BY <1>1, <1>3 DEF PubInv, PubTyped
<1>5. /\ job'[s].op = "incremental" /\ job'[s].pc = "send" /\ job'[s].project = p
      /\ job'[s].expected = Of(p, rows)
  BY <1>1 DEF PubInv, PubTyped, NewJob
<1>6. Reads(job[s], job[s].expected)'
  BY <1>1, <1>2, <1>5 DEF Reads, World, crossings, Of, Known
<1>7. JobFits(job[s])'
  BY <1>1, <1>5, <1>6 DEF JobFits, Staged, ReadFits, LinksFit, FilesFit, UploadFits, MountFits, SentFits, Busy, World
<1> QED
  BY <1>1, <1>4, <1>7, JobStep DEF StillCopies

LEMMA ExportRowsKeeps ==
  ASSUME PubInv, NEW s \in Jobs, NEW p \in Projects, NEW op \in {"static", "dataset"},
         ExportRows(s, p, op)
  PROVE  PubInv'
<1>1. /\ job' = [job EXCEPT ![s] = [NewJob EXCEPT !.op = op, !.pc = "links", !.project = p,
                                                 !.rows = Of(p, rows)]]
      /\ UNCHANGED World /\ job[s].pc = "idle"
  BY DEF ExportRows, World, crossings, Begun
<1>2. Of(p, rows) \subseteq Of(p, Known) /\ Of(p, rows) \subseteq Entries
  BY DEF Of, Known, PubInv, RowsSound, Local
<1>3. [NewJob EXCEPT !.op = op, !.pc = "links", !.project = p, !.rows = Of(p, rows)] \in JobStates
  BY <1>2, PublishingAssumption DEF NewJob, JobStates, Operations, Stages, Exports
<1>4. job' \in [Jobs -> JobStates] /\ \A x \in Jobs \ {s} : job'[x] = job[x]
  BY <1>1, <1>3 DEF PubInv, PubTyped
<1>5. /\ job'[s].op = op /\ job'[s].pc = "links" /\ job'[s].project = p
      /\ job'[s].rows = Of(p, rows)
  BY <1>1 DEF PubInv, PubTyped, NewJob
<1>6. Reads(job[s], job[s].rows)'
  BY <1>1, <1>2, <1>5 DEF Reads, World, crossings, Of, Known
<1>7. JobFits(job[s])'
  BY <1>1, <1>5, <1>6 DEF JobFits, Staged, ReadFits, LinksFit, FilesFit, UploadFits, MountFits, SentFits, Busy, World
<1> QED
  BY <1>1, <1>4, <1>7, JobStep DEF StillCopies

LEMMA BeginFreezeKeeps ==
  ASSUME PubInv, NEW s \in Jobs, NEW p \in Projects, BeginFreeze(s, p)
  PROVE  PubInv'
<1>1. /\ job' = [job EXCEPT ![s] = [NewJob EXCEPT !.op = "freeze", !.pc = "tables", !.project = p,
                                               !.bucket = mount,
                                               !.rows = Of(p, bucket[mount].rows),
                                               !.links = Of(p, bucket[mount].rows),
                                               !.beside = bucket[mount].rows \ bucket[mount].files]]
      /\ UNCHANGED World /\ job[s].pc = "idle" /\ mount # NoBucket
  BY DEF BeginFreeze, World, crossings, Begun
<1>2. /\ mount \in Buckets
      /\ bucket[mount].rows \subseteq Entries /\ Of(p, bucket[mount].rows) \subseteq Entries
  BY <1>1 DEF Of, PubInv, PubTyped
<1>3. [NewJob EXCEPT !.op = "freeze", !.pc = "tables", !.project = p, !.bucket = mount,
                     !.rows = Of(p, bucket[mount].rows), !.links = Of(p, bucket[mount].rows),
                     !.beside = bucket[mount].rows \ bucket[mount].files] \in JobStates
  BY <1>2, PublishingAssumption DEF NewJob, JobStates, Operations, Stages, Exports
<1>4. job' \in [Jobs -> JobStates] /\ \A x \in Jobs \ {s} : job'[x] = job[x]
  BY <1>1, <1>3 DEF PubInv, PubTyped
<1>5. /\ job'[s].op = "freeze" /\ job'[s].pc = "tables" /\ job'[s].project = p
      /\ job'[s].rows = Of(p, bucket[mount].rows) /\ job'[s].bucket = mount
      /\ job'[s].links = Of(p, bucket[mount].rows)
      /\ job'[s].beside = bucket[mount].rows \ bucket[mount].files
  BY <1>1 DEF PubInv, PubTyped, NewJob
<1>6. /\ \A e \in job'[s].rows : ProjectOf[e] = p
      /\ job'[s].rows \subseteq bucket'[mount].files \cup job'[s].beside
  BY <1>1, <1>5 DEF Of, World
<1>7. JobFits(job[s])'
  BY <1>1, <1>2, <1>5, <1>6 DEF JobFits, Staged, ReadFits, LinksFit, FilesFit, UploadFits, MountFits, SentFits, Busy, World
<1> QED
  BY <1>1, <1>4, <1>7, JobStep DEF StillCopies

LEMMA ListFilesKeeps == ASSUME PubInv, NEW s \in Jobs, ListFiles(s) PROVE PubInv'
<1>1. /\ job' = [job EXCEPT ![s].pc = "upload", ![s].rows = Of(job[s].project, rows),
                            ![s].files = Of(job[s].project, files)]
      /\ UNCHANGED World /\ job[s].op = "gradio" /\ job[s].pc = "list"
  BY DEF ListFiles, At, World, crossings
<1>2. /\ Of(job[s].project, rows) \subseteq Of(job[s].project, Known)
      /\ Of(job[s].project, rows) \subseteq Entries /\ Of(job[s].project, files) \subseteq Entries
  BY DEF Of, Known, PubInv, RowsSound, Local
<1>3. /\ job' \in [Jobs -> JobStates] /\ \A x \in Jobs \ {s} : job'[x] = job[x]
      /\ job'[s].op = "gradio" /\ job'[s].pc = "upload" /\ job'[s].project = job[s].project
      /\ job'[s].rows = Of(job[s].project, rows) /\ job'[s].bucket = job[s].bucket
      /\ job'[s].early = job[s].early
  <2> DEFINE j == [job[s] EXCEPT !.pc = "upload", !.rows = Of(job[s].project, rows),
                                 !.files = Of(job[s].project, files)]
  <2>1. j \in JobStates /\ j.op = job[s].op /\ j.pc = "upload" /\ j.project = job[s].project
        /\ j.rows = Of(job[s].project, rows) /\ j.bucket = job[s].bucket /\ j.early = job[s].early
    BY <1>2, JobOf DEF JobStates, Stages
  <2>2. job' = [job EXCEPT ![s] = j]
    BY <1>1
  <2> QED
    BY <1>1, <2>1, <2>2, JobUpdated
<1>4. Reads(job[s], job[s].rows)'
  BY <1>1, <1>2, <1>3 DEF Reads, World, crossings, Of, Known
<1>5. JobFits(job[s])'
  BY <1>1, <1>3, <1>4, JobOf DEF JobFits, Staged, ReadFits, LinksFit, FilesFit, UploadFits, MountFits, SentFits, Busy, World, crossings
<1> QED
  BY <1>1, <1>3, <1>5, JobStep DEF StillCopies

LEMMA ExportLinksKeeps == ASSUME PubInv, NEW s \in Jobs, ExportLinks(s) PROVE PubInv'
<1>1. /\ job' = [job EXCEPT ![s].pc = "upload", ![s].links = Of(job[s].project, rows)]
      /\ UNCHANGED World /\ job[s].pc = "links"
  BY DEF ExportLinks, World, crossings
<1>2. /\ Of(job[s].project, rows) \subseteq Entries
      /\ job[s].op \in {"static", "dataset"} /\ Reads(job[s], job[s].rows)
  BY <1>1, JobOf DEF Of, PubInv, RowsSound, Local, JobFits, Staged, ReadFits
<1>3. /\ job' \in [Jobs -> JobStates] /\ \A x \in Jobs \ {s} : job'[x] = job[x]
      /\ job'[s].op = job[s].op /\ job'[s].pc = "upload" /\ job'[s].project = job[s].project
      /\ job'[s].rows = job[s].rows /\ job'[s].beside = job[s].beside
      /\ job'[s].links = Of(job[s].project, rows)
  <2> DEFINE j == [job[s] EXCEPT !.pc = "upload", !.links = Of(job[s].project, rows)]
  <2>1. j \in JobStates /\ j.op = job[s].op /\ j.pc = "upload" /\ j.project = job[s].project
        /\ j.rows = job[s].rows /\ j.beside = job[s].beside /\ j.links = Of(job[s].project, rows)
    BY <1>2, JobOf DEF JobStates, Stages
  <2>2. job' = [job EXCEPT ![s] = j]
    BY <1>1
  <2> QED
    BY <2>1, <2>2, JobUpdated
<1>4. Reads(job[s], job[s].rows)' /\ job'[s].links \subseteq job'[s].rows \cup job'[s].beside
  BY <1>1, <1>2, <1>3 DEF Reads, World, crossings, Of, Known
<1>5. JobFits(job[s])'
  BY <1>1, <1>2, <1>3, <1>4, JobOf DEF JobFits, Staged, ReadFits, LinksFit, FilesFit, UploadFits, MountFits, SentFits, Busy
<1> QED
  BY <1>1, <1>3, <1>5, JobStep DEF StillCopies

\* A job that waits goes on waiting for fewer, records or gives up.
LEMMA WaitKeeps ==
  ASSUME PubInv, NEW s \in Jobs, NEW n, Poll(s, n) \/ EndWait(s) \/ TimesOut(s)
  PROVE  PubInv'
<1>1. /\ \/ job' = [job EXCEPT ![s] = [job[s] EXCEPT !.names = @ \ {n}]]
         \/ \E next \in {"record", "timedout"} :
               job' = [job EXCEPT ![s] = [job[s] EXCEPT !.pc = next]]
      /\ UNCHANGED World /\ job[s].pc = "wait"
  BY DEF Poll, EndWait, TimesOut, Goes, World, crossings
<1>2. /\ job' \in [Jobs -> JobStates] /\ \A x \in Jobs \ {s} : job'[x] = job[x]
      /\ job'[s].op = job[s].op /\ job'[s].pc \in {"wait", "record", "timedout"}
      /\ job'[s].project = job[s].project
      /\ job'[s].rows = job[s].rows /\ job'[s].beside = job[s].beside
      /\ job'[s].expected = job[s].expected /\ job'[s].bucket = job[s].bucket
      /\ job'[s].early = job[s].early
  <2>1. CASE job' = [job EXCEPT ![s] = [job[s] EXCEPT !.names = @ \ {n}]]
    <3> DEFINE j == [job[s] EXCEPT !.names = @ \ {n}]
    <3>1. j \in JobStates /\ j.op = job[s].op /\ j.pc = job[s].pc /\ j.project = job[s].project
          /\ j.rows = job[s].rows /\ j.beside = job[s].beside /\ j.expected = job[s].expected
          /\ j.bucket = job[s].bucket /\ j.early = job[s].early
      BY JobOf DEF JobStates
    <3> QED
      BY <1>1, <2>1, <3>1, JobUpdated
  <2>2. ASSUME NEW next \in {"record", "timedout"},
               job' = [job EXCEPT ![s] = [job[s] EXCEPT !.pc = next]]
        PROVE  /\ job' \in [Jobs -> JobStates] /\ \A x \in Jobs \ {s} : job'[x] = job[x]
               /\ job'[s].op = job[s].op /\ job'[s].pc \in {"wait", "record", "timedout"}
               /\ job'[s].project = job[s].project
               /\ job'[s].rows = job[s].rows /\ job'[s].beside = job[s].beside
               /\ job'[s].expected = job[s].expected /\ job'[s].bucket = job[s].bucket
               /\ job'[s].early = job[s].early
    <3> DEFINE j == [job[s] EXCEPT !.pc = next]
    <3>1. j \in JobStates /\ j.op = job[s].op /\ j.pc = next /\ j.project = job[s].project
          /\ j.rows = job[s].rows /\ j.beside = job[s].beside /\ j.expected = job[s].expected
          /\ j.bucket = job[s].bucket /\ j.early = job[s].early
      BY JobOf DEF JobStates, Stages
    <3> QED
      BY <2>2, <3>1, JobUpdated
  <2> QED
    BY <1>1, <2>1, <2>2
<1>3. /\ Reads(job[s], job[s].rows) => Reads(job[s], job[s].rows)'
      /\ Reads(job[s], job[s].expected) => Reads(job[s], job[s].expected)'
  BY <1>1, <1>2 DEF Reads, World, crossings, Of, Known
<1>4. JobFits(job[s])
  BY JobOf
<1>5. Staged(job[s])' /\ ReadFits(job[s])' /\ LinksFit(job[s])' /\ FilesFit(job[s])'
  BY <1>1, <1>2, <1>3, <1>4 DEF JobFits, Staged, ReadFits, LinksFit, FilesFit
<1>6. UploadFits(job[s])' /\ MountFits(job[s])' /\ SentFits(job[s])'
  BY <1>1, <1>2, <1>4
  DEF JobFits, UploadFits, MountFits, SentFits, Busy, World, crossings, OnSpace, Of
<1> QED
  BY <1>1, <1>2, <1>5, <1>6, JobStep DEF StillCopies, JobFits

----------------------------------------------------------------------------
(* Steps of a job that others see. *)

LEMMA CreateBucketKeeps == ASSUME PubInv, NEW s \in Jobs, CreateBucket(s) PROVE PubInv'
<1> DEFINE b == job[s].bucket
<1> DEFINE j == [job[s] EXCEPT !.pc = "list"]
<1>1. /\ bucket' = [bucket EXCEPT ![b].made = TRUE] /\ job' = [job EXCEPT ![s] = j]
      /\ job[s].op = "gradio" /\ job[s].pc = "create"
      /\ UNCHANGED <<files, rows, mount, static, served, inbox, purgedEntries, moved, overtaken>>
  BY DEF CreateBucket, At, Goes, crossings
<1>2. b \in Buckets
  BY <1>1, JobOf DEF JobFits, UploadFits, Busy
<1>3. /\ j \in JobStates /\ j.op = "gradio" /\ j.pc = "list" /\ j.project = job[s].project
      /\ j.bucket = job[s].bucket /\ j.early = job[s].early
  BY <1>1, JobOf DEF JobStates, Stages
<1>4. job' \in [Jobs -> JobStates] /\ job'[s] = j /\ \A x \in Jobs \ {s} : job'[x] = job[x]
  BY <1>1, <1>3, JobUpdated
<1>5. /\ bucket' \in [Buckets -> [rows : SUBSET Entries, files : SUBSET Entries, made : BOOLEAN]]
      /\ bucket'[b].made
      /\ \A c \in Buckets : /\ bucket'[c].rows = bucket[c].rows /\ bucket'[c].files = bucket[c].files
                            /\ bucket[c].made => bucket'[c].made
  BY <1>1, <1>2 DEF PubInv, PubTyped
<1> HIDE DEF b, j
<1>6. PubTyped' /\ RowsSound'
  BY <1>1, <1>4, <1>5 DEF PubInv, PubTyped, RowsSound, Known
<1>7. BucketsSound'
  BY <1>1, <1>5 DEF PubInv, PubTyped, BucketsSound, Known
<1>8. Forward
  BY <1>1, <1>5 DEF Forward, Known, PubInv, RowsSound, Local
<1>9. \A x \in Jobs \ {s} : Bystander(x)
  BY <1>1, <1>4, <1>5 DEF Bystander
<1>10. JobFits(job[s])'
  BY <1>1, <1>2, <1>3, <1>4, <1>5, JobOf DEF JobFits, Staged, ReadFits, LinksFit, FilesFit, UploadFits, MountFits, SentFits, Busy, b
<1>11. StaticSound' /\ SyncedIsServed'
  BY <1>1, <1>8, <1>9, StaticKept, ServedKept DEF StillCopies, StaticSound
<1> QED
  BY <1>6, <1>7, <1>8, <1>9, <1>10, <1>11, OthersFit DEF PubInv

LEMMA UploadProjectKeeps == ASSUME PubInv, NEW s \in Jobs, UploadProject(s) PROVE PubInv'
<1> DEFINE b == job[s].bucket
<1> DEFINE p == job[s].project
<1>1. PICK R \in {job[s].rows, Of(p, rows)} :
        /\ bucket' = [bucket EXCEPT ![b].rows = (@ \ Of(p, @)) \cup R,
                                    ![b].files = @ \cup job[s].files]
        /\ job' = [job EXCEPT ![s].pc = "mount", ![s].rows = R]
        /\ overtaken' = overtaken \cup (Of(p, rows) \ R)
        /\ job[s].op = "gradio" /\ job[s].pc = "upload"
        /\ UNCHANGED <<files, rows, mount, static, served, inbox, purgedEntries, moved>>
  BY DEF UploadProject, At
<1>2. /\ b \in Buckets /\ bucket[b].made /\ p \in Projects
      /\ Reads(job[s], job[s].rows)
  BY <1>1, JobOf DEF JobFits, UploadFits, Busy, ReadFits, Staged
<1>3. R \subseteq Entries /\ Reads(job[s], R)
  BY <1>1, <1>2, JobOf DEF Reads, Of, Known, JobStates, PubInv, RowsSound, Local
<1>4. R \subseteq Known /\ \A e \in R : ProjectOf[e] = p
  BY <1>3 DEF Reads, Of
<1>5. /\ bucket' \in [Buckets -> [rows : SUBSET Entries, files : SUBSET Entries, made : BOOLEAN]]
      /\ \A c \in Buckets : /\ bucket'[c].made = bucket[c].made
                            /\ bucket[c].files \subseteq bucket'[c].files
                            /\ c # b => bucket'[c] = bucket[c]
      /\ \A e : e \in bucket'[b].rows <=>
                  (e \in bucket[b].rows /\ ProjectOf[e] # p) \/ e \in R
  <2>1. job[s].files \subseteq Entries
    BY JobOf DEF JobStates
  <2> QED
    BY <1>1, <1>2, <1>3, <2>1 DEF PubInv, PubTyped, Of
<1> DEFINE j == [job[s] EXCEPT !.pc = "mount", !.rows = R]
<1>6. /\ j \in JobStates /\ j.op = "gradio" /\ j.pc = "mount" /\ j.project = p /\ j.bucket = b
      /\ j.early = job[s].early /\ j.rows = R /\ j.beside = job[s].beside
  BY <1>1, <1>3, JobOf DEF JobStates, Stages
<1>7. job' \in [Jobs -> JobStates] /\ job'[s] = j /\ \A x \in Jobs \ {s} : job'[x] = job[x]
  <2>1. job' = [job EXCEPT ![s] = j]
    BY <1>1
  <2> HIDE DEF j
  <2> QED
    BY <1>6, <2>1, JobUpdated
<1> HIDE DEF b, p, j
<1>8. PubTyped' /\ RowsSound'
  BY <1>1, <1>5, <1>7 DEF PubInv, PubTyped, RowsSound, Known
<1>9. BucketsSound'
  <2>1. \A c \in Buckets : bucket'[c].rows \subseteq Remote \cup Known
    BY <1>4, <1>5 DEF PubInv, BucketsSound
  <2>2. Known' = Known /\ mount' = mount
    BY <1>1 DEF Known
  <2>3. \A c \in Buckets : bucket'[c].rows \cup bucket'[c].files # {} => bucket'[c].made
    BY <1>2, <1>5 DEF PubInv, BucketsSound
  <2>4. mount # NoBucket => bucket'[mount].made
    BY <1>5 DEF PubInv, PubTyped, BucketsSound
  <2> QED
    BY <2>1, <2>2, <2>3, <2>4 DEF BucketsSound
<1>10. Forward
  <2>1. \A c \in Buckets : \A e \in Local : e \in bucket[c].rows =>
           e \in bucket'[c].rows \/ e \in purgedEntries \/ e \in overtaken'
    <3> SUFFICES ASSUME NEW e \in Local, e \in bucket[b].rows, ProjectOf[e] = p, e \notin R,
                        e \notin purgedEntries
                 PROVE  e \in overtaken'
      BY <1>5
    <3>1. e \in rows
      BY <1>2 DEF PubInv, BucketsSound, Known, Local
    <3> QED
      BY <1>1, <3>1 DEF Of
  <2> QED
    BY <1>1, <1>5, <2>1 DEF Forward, Known, PubInv, RowsSound, Local
<1>11. \A x \in Jobs \ {s} : Bystander(x)
  BY <1>1, <1>4, <1>5, <1>7 DEF Bystander, Known
<1>12. JobFits(job[s])'
  <2>1. Reads(job[s], job[s].rows)'
    BY <1>1, <1>3, <1>6, <1>7 DEF Reads, Known, p
  <2>2. UploadFits(job[s])'
    <3>1. bucket'[b].made /\ R \subseteq bucket'[b].rows /\ Of(p, bucket'[b].rows) \subseteq R
      BY <1>2, <1>5 DEF Of
    <3> QED
      BY <1>2, <1>6, <1>7, <3>1 DEF UploadFits
  <2>3. Staged(job[s])'
    BY <1>2, <1>6, <1>7 DEF Staged
  <2> QED
    BY <1>1, <1>6, <1>7, <2>1, <2>2, <2>3, JobOf
    DEF JobFits, ReadFits, LinksFit, FilesFit, MountFits, SentFits, Busy, b
<1>13. StaticSound' /\ SyncedIsServed'
  BY <1>1, <1>10, <1>11, StaticKept, ServedKept DEF StillCopies, StaticSound
<1> QED
  BY <1>8, <1>9, <1>10, <1>11, <1>12, <1>13, OthersFit DEF PubInv

LEMMA MountBucketKeeps == ASSUME PubInv, NEW s \in Jobs, MountBucket(s) PROVE PubInv'
<1> DEFINE b == job[s].bucket
<1> DEFINE p == job[s].project
<1> DEFINE N == {RunLabel[e] : e \in Of(p, rows)}
<1> DEFINE j == [job[s] EXCEPT !.pc = "wait", !.expected = Of(p, rows), !.names = N]
<1>1. /\ mount' = b /\ moved' = (moved \/ (mount # NoBucket /\ mount # b /\ job[s].early))
      /\ job' = [job EXCEPT ![s] = j]
      /\ job[s].op = "gradio" /\ job[s].pc = "mount"
      /\ UNCHANGED <<files, rows, bucket, static, served, inbox, purgedEntries, overtaken>>
  BY DEF MountBucket, At
<1>2. /\ b \in Buckets /\ bucket[b].made /\ p \in Projects /\ Reads(job[s], job[s].rows)
      /\ ~job[s].early /\ ~moved => mount = b
      /\ job[s].rows \subseteq bucket[b].rows \cup purgedEntries \cup overtaken
      /\ Of(p, bucket[b].rows) \subseteq job[s].rows \cup job[s].beside \cup purgedEntries
  BY <1>1, JobOf DEF JobFits, UploadFits, Busy, ReadFits, Staged, MountFits
<1>3. /\ Of(p, rows) \subseteq Of(p, Known) /\ Of(p, rows) \subseteq Entries
      /\ N \subseteq {RunLabel[e] : e \in Entries}
  BY DEF Of, Known, PubInv, RowsSound, Local
<1>4. /\ j \in JobStates /\ j.op = "gradio" /\ j.pc = "wait" /\ j.project = p /\ j.bucket = b
      /\ j.early = job[s].early /\ j.rows = job[s].rows /\ j.beside = job[s].beside
      /\ j.expected = Of(p, rows)
  <2> HIDE DEF N, p
  <2> QED
    BY <1>1, <1>3, JobOf DEF JobStates, Stages, p
<1>5. job' \in [Jobs -> JobStates] /\ job'[s] = j /\ \A x \in Jobs \ {s} : job'[x] = job[x]
  BY <1>1, <1>4, JobUpdated
<1> HIDE DEF b, p, j, N
<1>6. moved' \in BOOLEAN /\ mount' # NoBucket /\ (moved' \/ mount' = mount \/ mount = NoBucket)
  BY <1>1, <1>2, JobOf, PublishingAssumption DEF PubInv, PubTyped, JobStates
<1>7. PubTyped' /\ RowsSound'
  BY <1>1, <1>2, <1>5, <1>6 DEF PubInv, PubTyped, RowsSound, Known
<1>8. BucketsSound'
  BY <1>1, <1>2 DEF PubInv, BucketsSound, Known
<1>9. Forward
  BY <1>1, <1>6 DEF Forward, Known, PubInv, RowsSound, Local
<1>10. \A x \in Jobs \ {s} : Bystander(x)
  BY <1>1, <1>5 DEF Bystander
<1>11. JobFits(job[s])'
  <2>1. Reads(job[s], job[s].rows)' /\ Reads(job[s], job[s].expected)'
    BY <1>1, <1>2, <1>3, <1>4, <1>5 DEF Reads, Known, p, Of
  <2>2. UploadFits(job[s])'
    BY <1>1, <1>2, <1>4, <1>5 DEF UploadFits
  <2> QED
    BY <1>1, <1>2, <1>4, <1>5, <2>1, <2>2
    DEF JobFits, Staged, ReadFits, LinksFit, FilesFit, MountFits, SentFits, Busy
<1>12. StaticSound' /\ SyncedIsServed'
  BY <1>1, <1>9, <1>10, StaticKept, ServedKept DEF StillCopies, StaticSound
<1> QED
  BY <1>7, <1>8, <1>9, <1>10, <1>11, <1>12, OthersFit DEF PubInv

LEMMA SendRowsKeeps == ASSUME PubInv, NEW s \in Jobs, SendRows(s) PROVE PubInv'
<1> DEFINE N == {RunLabel[e] : e \in job[s].expected}
<1> DEFINE j == [job[s] EXCEPT !.pc = "wait", !.names = N]
<1>1. /\ inbox' = inbox \cup job[s].expected /\ job' = [job EXCEPT ![s] = j]
      /\ job[s].op = "incremental" /\ job[s].pc = "send"
      /\ UNCHANGED <<files, rows, bucket, mount, static, served, purgedEntries, moved, overtaken>>
  BY DEF SendRows, At, crossings
<1>2. Reads(job[s], job[s].expected) /\ mount # NoBucket /\ job[s].project \in Projects
  BY <1>1, JobOf DEF JobFits, ReadFits, MountFits, Busy, Staged
<1>3. /\ job[s].expected \subseteq Known /\ job[s].expected \subseteq Entries
      /\ N \subseteq {RunLabel[e] : e \in Entries}
  BY <1>2, JobOf DEF Reads, Of, Known, JobStates
<1>4. /\ j \in JobStates /\ j.op = "incremental" /\ j.pc = "wait" /\ j.project = job[s].project
      /\ j.beside = job[s].beside /\ j.expected = job[s].expected
  <2> HIDE DEF N
  <2> QED
    BY <1>1, <1>3, JobOf DEF JobStates, Stages
<1>5. job' \in [Jobs -> JobStates] /\ job'[s] = j /\ \A x \in Jobs \ {s} : job'[x] = job[x]
  BY <1>1, <1>4, JobUpdated
<1> HIDE DEF j, N
<1>6. PubTyped' /\ RowsSound' /\ BucketsSound'
  BY <1>1, <1>2, <1>3, <1>5 DEF PubInv, PubTyped, RowsSound, BucketsSound, Known
<1>7. Forward
  BY <1>1 DEF Forward, Known, PubInv, RowsSound, Local
<1>8. \A x \in Jobs \ {s} : Bystander(x)
  BY <1>1, <1>5 DEF Bystander
<1>9. JobFits(job[s])'
  <2>1. Reads(job[s], job[s].expected)'
    BY <1>1, <1>2, <1>4, <1>5 DEF Reads, Known
  <2> QED
    BY <1>1, <1>2, <1>4, <1>5, <2>1
    DEF JobFits, Staged, ReadFits, LinksFit, FilesFit, UploadFits, MountFits, SentFits, Busy
<1>10. StaticSound' /\ SyncedIsServed'
  BY <1>1, <1>7, <1>8, StaticKept, ServedKept DEF StillCopies, StaticSound
<1> QED
  BY <1>6, <1>7, <1>8, <1>9, <1>10, OthersFit DEF PubInv

\* What a sync recorded had arrived.
LEMMA RecordKeeps == ASSUME PubInv, NEW s \in Jobs, Record(s) PROVE PubInv'
<1> DEFINE p == job[s].project
<1>1. /\ job' = [job EXCEPT ![s] = Ended(job[s], "done")] /\ job[s].pc = "record"
      /\ served' = [served EXCEPT ![p] = IF job[s].op \in Exports THEN @
                                         ELSE job[s].expected \ job[s].beside]
      /\ UNCHANGED <<files, rows, bucket, mount, static, inbox, purgedEntries, moved, overtaken>>
  BY DEF Record, Goes, crossings
<1>2. /\ job' \in [Jobs -> JobStates] /\ \A x \in Jobs \ {s} : job'[x] = job[x]
      /\ job'[s].op = job[s].op /\ job'[s].pc = "done" /\ job'[s].project = p
  BY <1>1, EndedFits DEF PubInv, PubTyped
<1>3. p \in Projects /\ JobFits(job[s]) /\ job[s] \in JobStates
  BY <1>1, JobOf DEF JobFits, Staged
<1>4. ASSUME job[s].op \notin Exports
      PROVE  /\ job[s].op \in {"gradio", "incremental"}
             /\ job[s].expected \subseteq Of(p, Known)
             /\ ~moved => job[s].expected \ job[s].beside \subseteq
                            OnSpace(p) \cup inbox \cup purgedEntries \cup overtaken
  <2>1. job[s].op \in {"gradio", "incremental"} /\ Reads(job[s], job[s].expected)
    BY <1>1, <1>3, <1>4 DEF JobFits, Staged, Exports, ReadFits
  <2>2. ASSUME job[s].op = "gradio", ~moved, NEW e \in job[s].expected, e \notin job[s].beside
        PROVE  e \in OnSpace(p) \cup inbox \cup purgedEntries \cup overtaken
    <3>1. /\ Reads(job[s], job[s].rows) /\ mount = job[s].bucket /\ mount \in Buckets
          /\ job[s].rows \subseteq bucket[mount].rows \cup purgedEntries \cup overtaken
      BY <1>1, <1>3, <2>2 DEF JobFits, ReadFits, UploadFits, MountFits, Busy
    <3>2. e \in rows /\ ProjectOf[e] = p
      BY <2>1, <2>2 DEF Reads, Of
    <3>3. e \in job[s].rows
      BY <2>2, <3>1, <3>2 DEF Reads, Of
    <3> QED
      BY <3>1, <3>2, <3>3, PublishingAssumption DEF OnSpace, Of
  <2>3. ASSUME job[s].op = "incremental", ~moved
        PROVE  job[s].expected \subseteq OnSpace(p) \cup inbox \cup purgedEntries \cup overtaken
    BY <1>1, <1>3, <2>3 DEF JobFits, SentFits
  <2> QED
    BY <2>1, <2>2, <2>3 DEF Reads
<1>5. PubTyped' /\ RowsSound' /\ BucketsSound'
  <2>1. /\ served' \in [Projects -> SUBSET Entries]
        /\ \A q \in Projects : served'[q] \subseteq Of(q, Known)
    BY <1>1, <1>3, <1>4 DEF PubInv, PubTyped, RowsSound, JobStates
  <2> QED
    BY <1>1, <1>2, <2>1 DEF PubInv, PubTyped, RowsSound, BucketsSound, Known
<1>6. Forward
  BY <1>1 DEF Forward, Known, PubInv, RowsSound, Local
<1>7. \A x \in Jobs \ {s} : Bystander(x)
  BY <1>1, <1>2 DEF Bystander
<1>8. JobFits(job[s])'
  BY <1>2, <1>3
  DEF JobFits, Staged, ReadFits, LinksFit, FilesFit, UploadFits, MountFits, SentFits, Busy
<1>9. StaticSound'
  BY <1>1, <1>6, <1>7, StaticKept DEF StillCopies, StaticSound
<1>10. SyncedIsServed'
  <2> SUFFICES ASSUME ~moved, NEW q \in Projects
               PROVE  served'[q] \subseteq OnSpace(q) \cup inbox \cup purgedEntries \cup overtaken
    BY <1>1 DEF SyncedIsServed, OnSpace
  <2> QED
    BY <1>1, <1>3, <1>4 DEF PubInv, PubTyped, SyncedIsServed
<1> QED
  BY <1>5, <1>6, <1>7, <1>8, <1>9, <1>10, OthersFit DEF PubInv

----------------------------------------------------------------------------
(* Snapshots. *)

\* The job goes on, or ends, with a snapshot published.
LEMMA ExportGoes ==
  ASSUME PubInv, NEW s \in Jobs, NEW snapshot \in Snapshots,
         NEW next \in {"record", "tables", "copy", "done"},
         job[s].op \in Exports, job[s].pc # "idle", Publish(s, snapshot, next)
  PROVE  /\ job' \in [Jobs -> JobStates] /\ \A x \in Jobs \ {s} : job'[x] = job[x]
         /\ job'[s].op = job[s].op /\ job'[s].pc = next /\ job'[s].project = job[s].project
         /\ next # "done" => /\ job'[s].rows = job[s].rows /\ job'[s].beside = job[s].beside
                             /\ job'[s].links = job[s].links /\ job'[s].bucket = job[s].bucket
                             /\ job'[s].expected = job[s].expected /\ job'[s].early = job[s].early
         /\ static' \in [Projects \X Exports -> Snapshots]
         /\ static'[<<job[s].project, job[s].op>>] = snapshot
         /\ \A k \in Projects \X Exports :
               k # <<job[s].project, job[s].op>> => static'[k] = static[k]
         /\ job[s].project \in Projects
<1>1. job[s].project \in Projects /\ job[s] \in JobStates
  BY JobOf DEF JobFits, Staged
<1>2. <<job[s].project, job[s].op>> \in Projects \X Exports
  BY <1>1
<1>3. /\ static' \in [Projects \X Exports -> Snapshots]
      /\ static'[<<job[s].project, job[s].op>>] = snapshot
      /\ \A k \in Projects \X Exports :
            k # <<job[s].project, job[s].op>> => static'[k] = static[k]
  BY <1>2 DEF Publish, Key, PubInv, PubTyped
<1>4. CASE next = "done"
  BY <1>1, <1>3, <1>4, EndedFits, JobUpdated DEF Publish, Goes
<1>5. CASE next # "done"
  <2> DEFINE j == [job[s] EXCEPT !.pc = next]
  <2>1. /\ j \in JobStates /\ j.op = job[s].op /\ j.pc = next /\ j.project = job[s].project
        /\ j.rows = job[s].rows /\ j.beside = job[s].beside /\ j.links = job[s].links
        /\ j.bucket = job[s].bucket /\ j.expected = job[s].expected /\ j.early = job[s].early
    BY <1>1 DEF JobStates, Stages
  <2>2. job' = [job EXCEPT ![s] = j]
    BY <1>5 DEF Publish, Goes
  <2> HIDE DEF j
  <2> QED
    BY <1>1, <1>3, <2>1, <2>2, JobUpdated
<1> QED
  BY <1>4, <1>5

\* A step that publishes a snapshot with all the files that there were.
LEMMA PublishKeeps ==
  ASSUME PubInv, NEW s \in Jobs, NEW snapshot \in Snapshots,
         NEW next \in {"record", "tables", "copy", "done"},
         NEW q \in Projects, NEW kind \in Exports, job[s].project = q, job[s].op = kind,
         job[s].pc # "idle", Publish(s, snapshot, next),
         static[<<q, kind>>].files \subseteq snapshot.files,
         JobFits(job[s])', StaticAt(q, kind)'
  PROVE  PubInv'
<1>1. UNCHANGED <<files, rows, bucket, mount, served, inbox, purgedEntries, moved, overtaken>>
  BY DEF Publish, crossings
<1>2. PubTyped' /\ RowsSound' /\ BucketsSound'
  <2>1. job' \in [Jobs -> JobStates] /\ static' \in [Projects \X Exports -> Snapshots]
    BY ExportGoes
  <2> QED
    BY <1>1, <2>1 DEF PubInv, PubTyped, RowsSound, BucketsSound, Known
<1>3. Forward
  <2>1. \A k \in Projects \X Exports : static[k].files \subseteq static'[k].files
    BY ExportGoes
  <2> QED
    BY <1>1, <2>1 DEF Forward, Known, PubInv, RowsSound, Local
<1>4. \A x \in Jobs \ {s} : Bystander(x)
  BY <1>1, ExportGoes DEF Bystander
<1>5. StaticSound'
  <2> SUFFICES ASSUME NEW p \in Projects, NEW op \in Exports,
                      p # q \/ op # kind
               PROVE  StaticAt(p, op)'
    BY DEF StaticSound
  <2>1. static'[<<p, op>>] = static[<<p, op>>]
    BY ExportGoes
  <2>2. \A x \in Jobs : job[x].project = p /\ job[x].op = op => StillCopies(x)
    BY <1>4 DEF StillCopies
  <2> QED
    BY <1>3, <2>1, <2>2, StaticKept
<1>6. SyncedIsServed'
  BY <1>1, <1>3, ServedKept
<1> QED
  BY <1>2, <1>3, <1>4, <1>5, <1>6, OthersFit DEF PubInv

\* The tables are of the job's project; the files of the rows that were neither purged
\* nor added beside it are there.
LEMMA ReadHaveFiles ==
  ASSUME PubInv, NEW s \in Jobs, Reads(job[s], job[s].rows)
  PROVE  /\ \A e \in job[s].rows : ProjectOf[e] = job[s].project
         /\ job[s].rows \subseteq Of(job[s].project, files) \cup job[s].beside
BY DEF Reads, Of, PubInv, RowsSound

LEMMA OfEntries ==
  ASSUME PubInv, NEW p PROVE Of(p, files) \subseteq Entries
BY DEF Of, PubInv, RowsSound, Local

LEMMA UploadStaticKeeps == ASSUME PubInv, NEW s \in Jobs, UploadStatic(s) PROVE PubInv'
<1> DEFINE F == Of(job[s].project, files)
<1> DEFINE snap == [Tables(s) EXCEPT !.files = @ \cup F]
<1>1. Publish(s, snap, "record") /\ job[s].op = "static" /\ job[s].pc = "upload"
  BY DEF UploadStatic, At
<1>2. PICK q \in Projects : job[s].project = q
  BY <1>1, JobOf DEF JobFits, Staged
<1>3. /\ JobFits(job[s]) /\ Reads(job[s], job[s].rows) /\ job[s] \in JobStates
      /\ job[s].links \subseteq job[s].rows \cup job[s].beside
      /\ static[<<q, "static">>] \in Snapshots
  BY <1>1, <1>2, JobOf DEF JobFits, ReadFits, LinksFit, PubInv, PubTyped, Exports
<1>4. F \subseteq Entries
  BY OfEntries
<1> HIDE DEF F
<1>5. /\ snap \in Snapshots /\ snap.rows = job[s].rows /\ snap.links = job[s].links
      /\ snap.beside = job[s].beside /\ snap.files = static[<<q, "static">>].files \cup F
  BY <1>1, <1>2, <1>3, <1>4 DEF Tables, Key, Snapshots, JobStates
<1> HIDE DEF snap
<1>6. /\ job'[s].op = "static" /\ job'[s].pc = "record" /\ job'[s].project = q
      /\ static'[<<q, "static">>] = snap
  BY <1>1, <1>2, <1>5, ExportGoes DEF Exports
<1>7. JobFits(job[s])'
  BY <1>2, <1>6
  DEF JobFits, Staged, ReadFits, LinksFit, FilesFit, UploadFits, MountFits, SentFits, Busy
<1>8. StaticAt(q, "static")'
  BY <1>2, <1>3, <1>5, <1>6, ReadHaveFiles DEF StaticAt, F
<1> QED
  BY <1>1, <1>2, <1>5, <1>7, <1>8, PublishKeeps DEF Exports

LEMMA UploadDatasetFilesKeeps ==
  ASSUME PubInv, NEW s \in Jobs, UploadDatasetFiles(s) PROVE PubInv'
<1> DEFINE F == Of(job[s].project, files)
<1> DEFINE snap == [static[Key(s)] EXCEPT !.files = @ \cup F]
<1>1. Publish(s, snap, "tables") /\ job[s].op = "dataset" /\ job[s].pc = "upload"
  BY DEF UploadDatasetFiles, At
<1>2. PICK q \in Projects : job[s].project = q
  BY <1>1, JobOf DEF JobFits, Staged
<1> DEFINE old == static[<<q, "dataset">>]
<1>3. /\ JobFits(job[s]) /\ Reads(job[s], job[s].rows) /\ job[s] \in JobStates
      /\ job[s].links \subseteq job[s].rows \cup job[s].beside
      /\ old \in Snapshots /\ StaticAt(q, "dataset")
  BY <1>1, <1>2, JobOf DEF JobFits, ReadFits, LinksFit, PubInv, PubTyped, Exports, StaticSound
<1>4. F \subseteq Entries
  BY OfEntries
<1> HIDE DEF F
<1>5. /\ snap \in Snapshots /\ snap.rows = old.rows /\ snap.links = old.links
      /\ snap.beside = old.beside /\ snap.files = old.files \cup F
  BY <1>1, <1>2, <1>3, <1>4 DEF Key, Snapshots, JobStates
<1> HIDE DEF snap
<1>6. /\ job'[s].op = "dataset" /\ job'[s].pc = "tables" /\ job'[s].project = q
      /\ job'[s].rows = job[s].rows /\ job'[s].links = job[s].links
      /\ job'[s].beside = job[s].beside /\ static'[<<q, "dataset">>] = snap
  BY <1>1, <1>2, <1>5, ExportGoes DEF Exports
<1>7. JobFits(job[s])'
  <2>1. Reads(job[s], job[s].rows)'
    BY <1>1, <1>2, <1>3, <1>6 DEF Reads, Known, Publish, Of
  <2>2. job[s].rows \subseteq snap.files \cup job[s].beside
    BY <1>3, <1>5, ReadHaveFiles DEF F
  <2> QED
    BY <1>2, <1>3, <1>6, <2>1, <2>2
    DEF JobFits, Staged, ReadFits, LinksFit, FilesFit, UploadFits, MountFits, SentFits, Busy
<1>8. StaticAt(q, "dataset")'
  BY <1>3, <1>5, <1>6 DEF StaticAt
<1> QED
  BY <1>1, <1>2, <1>5, <1>7, <1>8, PublishKeeps DEF Exports

\* The tables of a dataset, and of a freeze.
LEMMA TablesKeep ==
  ASSUME PubInv, NEW s \in Jobs, UploadTables(s) \/ FreezeTables(s) PROVE PubInv'
<1>1. /\ job[s].op \in {"dataset", "freeze"} /\ job[s].pc = "tables"
      /\ job[s].op = "dataset" => Publish(s, Tables(s), "record")
      /\ job[s].op = "freeze" => Publish(s, Tables(s), "copy")
  BY DEF UploadTables, FreezeTables, At
<1>2. PICK q \in Projects, kind \in Exports : job[s].project = q /\ job[s].op = kind
  BY <1>1, JobOf DEF JobFits, Staged, Exports
<1> DEFINE old == static[<<q, kind>>]
<1>3. /\ JobFits(job[s]) /\ job[s] \in JobStates
      /\ job[s].links \subseteq job[s].rows \cup job[s].beside
      /\ \A e \in job[s].rows : ProjectOf[e] = q
      /\ old \in Snapshots
  BY <1>1, <1>2, JobOf, ReadHaveFiles DEF JobFits, ReadFits, LinksFit, FilesFit, PubInv, PubTyped
<1>4. PICK snap \in Snapshots : /\ snap = Tables(s) /\ snap.rows = job[s].rows
                               /\ snap.links = job[s].links /\ snap.beside = job[s].beside
                               /\ snap.files = old.files
  <2>1. Key(s) = <<q, kind>>
    BY <1>2 DEF Key
  <2>2. Tables(s) = [old EXCEPT !.rows = job[s].rows, !.links = job[s].links,
                                !.beside = job[s].beside]
    BY <2>1 DEF Tables
  <2>3. /\ job[s].rows \subseteq Entries /\ job[s].links \subseteq Entries
        /\ job[s].beside \subseteq Entries
    BY <1>3 DEF JobStates
  <2>4. /\ Tables(s) \in Snapshots /\ Tables(s).rows = job[s].rows
        /\ Tables(s).links = job[s].links /\ Tables(s).beside = job[s].beside
        /\ Tables(s).files = old.files
    BY <1>3, <2>2, <2>3 DEF Snapshots
  <2> QED
    BY <2>4
<1> DEFINE next == IF kind = "dataset" THEN "record" ELSE "copy"
<1>5. Publish(s, snap, next) /\ next \in {"record", "copy"}
  BY <1>1, <1>2, <1>4
<1>6. /\ job'[s].op = kind /\ job'[s].pc = next /\ job'[s].project = q
      /\ job'[s].rows = job[s].rows /\ job'[s].links = job[s].links
      /\ job'[s].beside = job[s].beside /\ job'[s].bucket = job[s].bucket
      /\ static'[<<q, kind>>] = snap
  BY <1>1, <1>2, <1>4, <1>5, ExportGoes
<1>7. JobFits(job[s])'
  BY <1>1, <1>2, <1>3, <1>6
  DEF JobFits, Staged, ReadFits, LinksFit, FilesFit, UploadFits, MountFits, SentFits, Busy
<1>8. StaticAt(q, kind)'
  <2>1. CASE kind = "dataset"
    BY <1>1, <1>2, <1>3, <1>4, <1>6, <2>1 DEF JobFits, FilesFit, StaticAt
  <2>2. CASE kind = "freeze"
    <3>1. bucket' = bucket
      BY <1>5 DEF Publish
    <3>2. job[s].rows \subseteq bucket[job[s].bucket].files \cup job[s].beside
      BY <1>1, <1>2, <1>3, <2>2 DEF JobFits, FilesFit
    <3>3. Copies(q, snap.rows \ (snap.files \cup snap.beside))'
      BY <1>1, <1>2, <1>4, <1>6, <2>2, <3>1, <3>2 DEF Copies
    <3> QED
      BY <1>2, <1>3, <1>4, <1>6, <2>2, <3>3 DEF StaticAt
  <2> QED
    BY <1>1, <1>2, <2>1, <2>2
<1> QED
  BY <1>1, <1>2, <1>4, <1>5, <1>7, <1>8, PublishKeeps

LEMMA CopyFilesKeeps == ASSUME PubInv, NEW s \in Jobs, CopyFiles(s) PROVE PubInv'
<1> DEFINE F == Of(job[s].project, bucket[job[s].bucket].files)
<1>1. Publish(s, [static[Key(s)] EXCEPT !.files = @ \cup F], "done") /\ job[s].op = "freeze" /\ job[s].pc = "copy"
  BY DEF CopyFiles, At
<1>2. PICK q \in Projects : job[s].project = q
  BY <1>1, JobOf DEF JobFits, Staged
<1> DEFINE old == static[<<q, "freeze">>]
<1>3. job[s].bucket \in Buckets /\ old \in Snapshots /\ StaticAt(q, "freeze")
  BY <1>1, <1>2, JobOf DEF JobFits, FilesFit, PubInv, PubTyped, Exports, StaticSound
<1>4. F \subseteq Entries
  BY <1>3 DEF Of, PubInv, PubTyped
<1> HIDE DEF F
<1>5. PICK snap \in Snapshots : /\ snap = [static[Key(s)] EXCEPT !.files = @ \cup F]
                               /\ snap.rows = old.rows /\ snap.links = old.links
                               /\ snap.beside = old.beside /\ snap.files = old.files \cup F
  BY <1>1, <1>2, <1>3, <1>4 DEF Key, Snapshots
<1>6. /\ job'[s].op = "freeze" /\ job'[s].pc = "done" /\ job'[s].project = q
      /\ static'[<<q, "freeze">>] = snap /\ \A x \in Jobs \ {s} : job'[x] = job[x]
      /\ bucket' = bucket
  <2>1. Publish(s, snap, "done")
    BY <1>1, <1>5
  <2> QED
    BY <1>1, <1>2, <2>1, ExportGoes DEF Exports, Publish
<1>7. JobFits(job[s])'
  BY <1>2, <1>6
  DEF JobFits, Staged, ReadFits, LinksFit, FilesFit, UploadFits, MountFits, SentFits, Busy
<1>8. StaticAt(q, "freeze")'
  <2>0. PICK R : R = snap.rows \ (snap.files \cup snap.beside)
    OBVIOUS
  <2> SUFFICES ASSUME R # {} PROVE Copies(q, R)'
    BY <1>3, <1>5, <1>6, <2>0 DEF StaticAt
  <2>1. PICK x \in Jobs : /\ job[x].op = "freeze" /\ job[x].project = q
                          /\ \/ job[x].pc = "failed"
                             \/ /\ job[x].pc = "copy"
                                /\ old.rows \ (old.files \cup old.beside)
                                     \subseteq bucket[job[x].bucket].files
    <3>1. old.rows \ (old.files \cup old.beside) # {}
      BY <1>5, <2>0
    <3> QED
      BY <1>3, <3>1 DEF StaticAt, Copies
  <2>2. x # s
    <3> SUFFICES ASSUME x = s PROVE R = {}
      OBVIOUS
    <3>1. old.rows \ (old.files \cup old.beside) \subseteq F
      BY <1>1, <1>2, <1>3, <2>1 DEF F, Of, StaticAt
    <3> QED
      BY <1>5, <2>0, <3>1
  <2> QED
    BY <1>5, <1>6, <2>0, <2>1, <2>2 DEF Copies
<1> QED
  BY <1>1, <1>2, <1>5, <1>7, <1>8, PublishKeeps DEF Exports

----------------------------------------------------------------------------

LEMMA PubInvNext == PubInv /\ [PubNext]_pubVars => PubInv'
<1> SUFFICES ASSUME PubInv, [PubNext]_pubVars PROVE PubInv'
  OBVIOUS
<1>1. CASE UNCHANGED pubVars
  <2>1. UNCHANGED World /\ UNCHANGED job
    BY <1>1 DEF pubVars, World, crossings
  <2>2. PubTyped' /\ RowsSound' /\ BucketsSound' /\ Forward
    BY <2>1 DEF PubInv, PubTyped, RowsSound, BucketsSound, Known, World, crossings, Forward, Local
  <2>3. \A x \in Jobs : Bystander(x)
    BY <2>1 DEF Bystander, World
  <2> QED
    BY <2>1, <2>2, <2>3, WorldStep DEF World
<1>2. CASE PubNext
  <2>1. CASE \E e \in Entries : \/ StoreFile(e) \/ CommitRow(e) \/ PurgeRow(e) \/ PurgeFile(e)
                                \/ LogToSpace(e) \/ ImportRow(e)
    BY <2>1, StoreFileKeeps, CommitRowKeeps, PurgeRowKeeps, PurgeFileKeeps, LogToSpaceKeeps,
       ImportRowKeeps
  <2>2. CASE \E s \in Jobs, p \in Projects :
               \/ BeginSync(s, p)
               \/ BeginIncremental(s, p)
               \/ \E op \in {"static", "dataset"} : ExportRows(s, p, op)
               \/ BeginFreeze(s, p)
    BY <2>2, BeginSyncKeeps, BeginIncrementalKeeps, ExportRowsKeeps, BeginFreezeKeeps
  <2>3. CASE \E s \in Jobs : \/ CreateBucket(s) \/ ListFiles(s) \/ UploadProject(s) \/ MountBucket(s)
                             \/ EndWait(s) \/ TimesOut(s) \/ \E n \in job[s].names : Poll(s, n)
    BY <2>3, CreateBucketKeeps, ListFilesKeeps, UploadProjectKeeps, MountBucketKeeps, WaitKeeps
  <2>4. CASE \E s \in Jobs : \/ Record(s) \/ HubFails(s) \/ SendRows(s) \/ ExportLinks(s)
                             \/ UploadStatic(s) \/ UploadDatasetFiles(s) \/ UploadTables(s)
                             \/ FreezeTables(s) \/ CopyFiles(s)
    BY <2>4, RecordKeeps, HubFailsKeeps, SendRowsKeeps, ExportLinksKeeps, UploadStaticKeeps,
       UploadDatasetFilesKeeps, TablesKeep, CopyFilesKeeps
  <2> QED
    BY <1>2, <2>1, <2>2, <2>3, <2>4 DEF PubNext
<1> QED
  BY <1>1, <1>2

\* Where no two runs share a name, a name's rows are those of its latest run.
LEMMA CountedNamed ==
  ASSUME NEW p \in Projects, NEW R \in SUBSET Entries, \A e \in R : ProjectOf[e] = p,
         ~Namesakes(p), NEW n
  PROVE  Counted(R, n) = Named(R, n)
<1>1. \A e, o \in R : RunLabel[e] = RunLabel[o] => RunNo[e] = RunNo[o] /\ RunNo[o] \in Nat
  BY PublishingAssumption DEF Namesakes, Of
<1> QED
  BY <1>1 DEF Counted, Named

LEMMA PubInvGives ==
  PubInv => PubTypeOK /\ SnapshotsResolve /\ SyncedIsServed /\ GivesUpWithReason
<1> SUFFICES ASSUME PubInv PROVE PubTypeOK /\ SnapshotsResolve /\ GivesUpWithReason
  BY DEF PubInv
<1>1. PubTypeOK
  BY DEF PubInv, PubTyped, RowsSound, BucketsSound, JobStates, PubTypeOK
<1>2. SnapshotsResolve
  <2> SUFFICES ASSUME NEW p \in Projects, NEW op \in Exports
               PROVE  /\ static[<<p, op>>].links \subseteq
                           static[<<p, op>>].rows \cup static[<<p, op>>].beside
                      /\ \/ Copying(p, op)
                         \/ static[<<p, op>>].rows \subseteq
                              static[<<p, op>>].files \cup static[<<p, op>>].beside
    BY DEF SnapshotsResolve, PubInv, PubTyped
  <2>1. StaticAt(p, op)
    BY DEF PubInv, StaticSound
  <2> QED
    BY <2>1 DEF StaticAt, Copies, Copying
<1>3. GivesUpWithReason
  <2> DEFINE p(s) == job[s].project
  <2> SUFFICES ASSUME NEW s \in Jobs, job[s].pc = "wait", inbox = {}, NEW n \in job[s].names,
                      job[s].beside = {}, ~moved, Of(p(s), overtaken) = {}, ~Namesakes(p(s)),
                      OnSpace(p(s)) \cap purgedEntries = {},
                      job[s].op = "incremental" => OnSpace(p(s)) \cap Remote = {}
               PROVE  Seen(s, n)
    BY DEF GivesUpWithReason
  <2>1. /\ JobFits(job[s]) /\ p(s) \in Projects /\ job[s].op \in {"gradio", "incremental"}
        /\ Reads(job[s], job[s].expected) /\ job[s] \in JobStates
    BY JobOf DEF JobFits, Staged, ReadFits
  <2>2. job[s].expected = Of(p(s), rows)
    BY <2>1 DEF Reads, Of
  <2>3. /\ mount \in Buckets /\ mount # NoBucket /\ OnSpace(p(s)) = Of(p(s), bucket[mount].rows)
        /\ bucket[mount].rows \subseteq Entries
    <3>1. mount \in Buckets /\ mount # NoBucket
      BY <2>1, PublishingAssumption DEF JobFits, MountFits, UploadFits, Busy, PubInv, PubTyped
    <3> QED
      BY <3>1 DEF OnSpace, PubInv, PubTyped
  <2>4. CASE job[s].op = "gradio"
    <3>1. /\ mount = job[s].bucket /\ Reads(job[s], job[s].rows)
          /\ job[s].rows \subseteq bucket[mount].rows \cup purgedEntries \cup overtaken
          /\ Of(p(s), bucket[mount].rows) \subseteq job[s].rows \cup purgedEntries
      BY <2>1, <2>4 DEF JobFits, MountFits, UploadFits, ReadFits, Busy
    <3>2. job[s].rows = Of(p(s), rows)
      BY <3>1 DEF Reads, Of
    <3>3. Of(p(s), rows) \subseteq Of(p(s), bucket[mount].rows)
      BY <3>1, <3>2 DEF Of, PubInv, RowsSound
    <3> QED
      BY <2>2, <2>3, <3>1, <3>2, <3>3, <2>1, CountedNamed DEF Seen, Of
  <2>5. CASE job[s].op = "incremental"
    <3>1. job[s].expected \subseteq OnSpace(p(s)) \cup purgedEntries \cup overtaken
      BY <2>1, <2>5 DEF JobFits, SentFits
    <3>2. Of(p(s), rows) \subseteq OnSpace(p(s))
      BY <2>2, <3>1 DEF Of, PubInv, RowsSound
    <3>3. OnSpace(p(s)) \subseteq Of(p(s), rows)
      BY <2>3, <2>5 DEF PubInv, BucketsSound, Known, Of
    <3>4. OnSpace(p(s)) = job[s].expected /\ job[s].expected \subseteq Entries
          /\ \A e \in job[s].expected : ProjectOf[e] = p(s)
      BY <2>1, <2>2, <3>2, <3>3 DEF JobStates, Of
    <3> QED
      BY <2>1, <3>4, CountedNamed DEF Seen
  <2> QED
    BY <2>1, <2>4, <2>5
<1> QED
  BY <1>1, <1>2, <1>3

\* sync, freeze and the snapshots, by any jobs and with any failing calls: what is
\* published resolves, what was synced stays, and no sync waits in vain without reason.
THEOREM PublishedKept ==
  PubSpec => [](PubTypeOK /\ SnapshotsResolve /\ SyncedIsServed /\ GivesUpWithReason)
  BY PubInvInit, PubInvNext, PubInvGives, PTL DEF PubSpec

-----------------------------------------------------------------------------
(* The logbook (Logbook).  While no mishap of the unlocked edits has       *)
(* happened, a cell is on one page once, every local link is known to the  *)
(* metadata, and a difference between the Space and the pages is owed by   *)
(* an editor, a mark, or a push under way.                                 *)

Metas == [known : SUBSET Links, placed : SUBSET Links, auto : BOOLEAN,
          last : BookPages \cup {NoPage}]

WrittenCells == [cell : Cells, local : BOOLEAN]

Books == [BookPages -> [made : BOOLEAN, cells : SUBSET WrittenCells]]

EarlyStages == {"find", "create", "list", "row", "recall", "recalled", "register", "registered",
                "append"}

CellStages == EarlyStages \cup {"remember", "remembered", "trigger"}

PreparingStages == {"begin", "began", "promote", "next", "rewrite", "replace", "push"}

PublishStages == PreparingStages \cup {"commit", "revert", "reverted", "done", "failed"}

EditorStates ==
  [op : {"none", "cell", "pin", "publish"}, pc : CellStages \cup PublishStages \cup {"idle", "pin"},
   page : BookPages \cup {NoPage}, cell : Cells \cup {NoLink}, link : Links \cup {NoLink},
   meta : Metas, seen : Metas, text : SUBSET WrittenCells, shot : Books, todo : SUBSET Links,
   left : SUBSET BookPages, prior : BOOLEAN, began : SUBSET Cells, skipped : SUBSET Links]

PusherStates == [pc : {"idle", "start", "look", "push", "commit", "unlock"}, text : Books]

BookTyped ==
  /\ meta \in Metas /\ pages \in Books /\ toc \subseteq BookPages
  /\ editor \in [Editors -> EditorStates]
  /\ pending \in BOOLEAN /\ lock \in Pushers \cup {NoPusher}
  /\ pusher \in [Pushers -> PusherStates]
  /\ space \in Books /\ pushFaults \in Nat /\ cellsWritten \subseteq Cells

LockFits == \A w \in Pushers : pusher[w].pc \in {"look", "push", "commit", "unlock"} <=> lock = w

\* No push has failed, crossed another or missed what asked for it, and no
\* metadata was lost.
Steady == pushFaults = 0 /\ mishaps \cap {"missed", "crossed", "meta"} = {}

\* No text or metadata was lost, and no push crossed another.
Calm == mishaps \cap {"meta", "text", "crossed"} = {}

\* What an editor is at: it will ask for a push, it will push, it pushes what it
\* has read.
Asks(j) == j.op \in {"cell", "pin"}
Preparing(j) == j.op = "publish" /\ j.pc \in PreparingStages
Committed(j) == j.op = "publish" /\ j.pc = "commit"
Published(j) == j.op = "publish" /\ j.pc = "done"
Active(j) == j.op = "publish" /\ j.pc \notin {"done", "failed"}

\* It adds a row to the index, its cell is still to be written.
Listing(j, p) == j.op = "cell" /\ j.pc \in {"list", "row"} /\ j.page = p
Early(j) == j.op = "cell" /\ j.pc \in EarlyStages

OpFits(j) ==
  /\ j.op = "none" => j.pc \in {"idle", "done"}
  /\ j.op = "cell" => /\ j.pc \in CellStages /\ j.page \in BookPages /\ j.cell \in Cells
                      /\ j.link = LinkOf[j.cell] /\ j.began = {}
  /\ j.op = "pin" => j.pc \in {"pin", "trigger"} /\ j.page \in BookPages
  /\ j.op = "publish" => /\ j.pc \in PublishStages
                         /\ j.pc = "replace" => j.page \in BookPages
                         /\ j.pc \in {"push", "commit", "done"} => j.todo = {}
                         /\ j.pc \in {"revert", "reverted"} => pushFaults > 0

\* The copies of the metadata.
MetaFits(j) ==
  /\ j.pc \in {"recalled", "registered", "remembered", "began", "reverted"} => j.meta = j.seen
  /\ j.pc \in {"next", "rewrite", "replace"} =>
        j.meta.known = j.seen.known /\ j.meta.auto = j.seen.auto
  /\ Steady /\ Active(j) /\ j.pc \notin {"begin", "began"} => meta.auto

\* What is local on a page and was there when the publication began is still to
\* be promoted, or was skipped.
Resolving(j) ==
  j.op = "publish" /\ j.pc \in {"next", "rewrite", "replace", "push", "commit", "done"} =>
    \A p \in BookPages : \A n \in pages[p].cells : n.local /\ n.cell \in j.began =>
      \/ LinkOf[n.cell] \in j.skipped \cup j.todo
      \/ /\ j.pc \in {"rewrite", "replace"} /\ LinkOf[n.cell] = j.link
         /\ p \in j.left \/ (j.pc = "replace" /\ p = j.page)

CellFits(j) ==
  Calm =>
    /\ j.began \subseteq cellsWritten \cup Cloned
    /\ Early(j) => j.cell \in cellsWritten \ Cloned /\ j.cell \notin AllCells
    /\ Early(j) /\ j.pc = "append" => j.link \in meta.known \cup {NoLink}
    /\ Resolving(j)

EditorFits(j) == OpFits(j) /\ MetaFits(j) /\ CellFits(j)

EditorsFit ==
  /\ \A e \in Editors : EditorFits(editor[e])
  /\ \A e, f \in Editors : e # f => ~(Active(editor[e]) /\ Active(editor[f]))
  /\ Calm => \A e, f \in Editors :
       /\ Early(editor[e]) => editor[e].cell \notin editor[f].began
       /\ e # f /\ Early(editor[e]) /\ Early(editor[f]) => editor[e].cell # editor[f].cell

CellsFit ==
  Calm => /\ AllCells \subseteq cellsWritten \cup Cloned
          /\ \A p \in BookPages : \A n \in pages[p].cells : n.local => LinkOf[n.cell] \in meta.known

\* What a publication has found is resolved in what is, or is to be, pushed.
ResolvedIn(j, book) == \A p \in BookPages : \A n \in book[p].cells :
                         n.local /\ n.cell \in j.began => LinkOf[n.cell] \in j.skipped

PushedFits ==
  Calm => \A e \in Editors :
    /\ Committed(editor[e]) => ResolvedIn(editor[e], editor[e].shot)
    /\ Published(editor[e]) =>
         /\ ResolvedIn(editor[e], space)
         /\ \A w \in Pushers : pusher[w].pc = "commit" => ResolvedIn(editor[e], pusher[w].text)
         /\ \A f \in Editors : Committed(editor[f]) => ResolvedIn(editor[e], editor[f].shot)

\* A push that will read the pages as they are, or has.
Owed == \/ \E e \in Editors : Asks(editor[e]) \/ Preparing(editor[e])
        \/ pending \/ \E w \in Pushers : pusher[w].pc = "push"
WorkerHas == \E w \in Pushers : pusher[w].pc = "commit" /\ pusher[w].text = pages
PublishHas == \E e \in Editors : Committed(editor[e]) /\ editor[e].shot = pages

SpaceFits ==
  Steady =>
    /\ meta.auto /\ space # pages => Owed \/ WorkerHas \/ PublishHas
    /\ \A w \in Pushers : pusher[w].pc = "commit" /\ pusher[w].text # pages => Owed \/ PublishHas
    /\ \A e \in Editors : Committed(editor[e]) /\ editor[e].shot # pages => Owed \/ WorkerHas
    /\ pending => /\ \E w \in Pushers : pusher[w].pc \in {"start", "look", "push", "commit"}
                  /\ \A w \in Pushers : pusher[w].pc # "unlock"
    /\ (pending \/ \E w \in Pushers : pusher[w].pc # "idle") => meta.auto

IndexFits ==
  "index" \notin mishaps => \A p \in BookPages : pages[p].made =>
     p \in toc \/ \E e \in Editors : Listing(editor[e], p)

BookInv == BookTyped /\ LockFits /\ EditorsFit /\ CellsFit /\ PushedFits /\ SpaceFits /\ IndexFits

----------------------------------------------------------------------------

LEMMA EmptyTyped == NoPages \in Books /\ NoMeta \in Metas /\ Resting \in EditorStates
<1>1. NoPages \in Books /\ NoMeta \in Metas
  BY DEF NoPages, Blank, Books, NoMeta, Metas
<1> QED
  BY <1>1 DEF Resting, EditorStates, CellStages, EarlyStages, PublishStages, PreparingStages

LEMMA BookInvInit == BookInit => BookInv
<1> SUFFICES ASSUME BookInit PROVE BookInv
  OBVIOUS
<1>1. PICK origin \in Origins :
         /\ meta = [NoMeta EXCEPT !.auto = origin # NoPages]
         /\ pages = origin /\ space = origin
         /\ toc = {p \in BookPages : origin[p].made}
  BY DEF BookInit
<1>2. /\ editor = [e \in Editors |-> Resting] /\ pending = FALSE /\ lock = NoPusher
      /\ pusher = [w \in Pushers |-> [pc |-> "idle", text |-> NoPages]]
      /\ mishaps = {} /\ pushFaults = 0 /\ cellsWritten = {}
  BY DEF BookInit
<1>3. /\ origin \in Books
      /\ \A p \in BookPages : \A n \in origin[p].cells : n.cell \in Cloned /\ ~n.local
  <2>1. CASE origin = NoPages
    BY <2>1, EmptyTyped DEF NoPages, Blank
  <2>2. CASE origin # NoPages
    <3> DEFINE here(p) == {c \in Cloned : PageOf[c] = p}
               written(p) == {[cell |-> c, local |-> FALSE] : c \in here(p)}
    <3>1. origin = [p \in BookPages |-> [made |-> here(p) # {}, cells |-> written(p)]]
      BY <2>2 DEF Origins
    <3>2. \A p \in BookPages : written(p) \subseteq WrittenCells
      <4>1. \A c \in Cloned : [cell |-> c, local |-> FALSE] \in WrittenCells
        BY LogbookAssumption DEF WrittenCells
      <4> QED
        BY <4>1
    <3>3. \A p \in BookPages : \A n \in written(p) : n.cell \in Cloned /\ ~n.local
      OBVIOUS
    <3> HIDE DEF written
    <3>4. \A p \in BookPages : origin[p] \in [made : BOOLEAN, cells : SUBSET WrittenCells]
                               /\ origin[p].cells = written(p)
      BY <3>1, <3>2
    <3> QED
      BY <3>1, <3>3, <3>4 DEF Books
  <2> QED
    BY <2>1, <2>2
<1>4. meta \in Metas /\ [pc |-> "idle", text |-> NoPages] \in PusherStates
  BY <1>1, EmptyTyped DEF Metas, NoMeta, PusherStates
<1>5. BookTyped
  BY <1>1, <1>2, <1>3, <1>4, EmptyTyped DEF BookTyped
<1>6. LockFits
  BY <1>2, LogbookAssumption DEF LockFits
<1>7. \A e \in Editors : editor[e] = Resting
  BY <1>2
<1>8. Resting.op = "none" /\ Resting.pc = "idle" /\ Resting.began = {}
  BY DEF Resting
<1>9. EditorsFit
  BY <1>7, <1>8 DEF EditorsFit, EditorFits, OpFits, MetaFits, CellFits, Resolving, Active, Early
<1>10. CellsFit
  BY <1>1, <1>2, <1>3 DEF CellsFit, AllCells
<1>11. PushedFits
  BY <1>7, <1>8 DEF PushedFits, Committed, Published
<1>12. SpaceFits
  BY <1>1, <1>2, <1>7, <1>8 DEF SpaceFits, Committed
<1>13. IndexFits
  BY <1>1 DEF IndexFits
<1> QED
  BY <1>5, <1>6, <1>9, <1>10, <1>11, <1>12, <1>13 DEF BookInv

\* What one editor or pusher is at.
LEMMA EditorOf ==
  ASSUME BookInv, NEW e \in Editors
  PROVE  editor[e] \in EditorStates /\ EditorFits(editor[e])
  BY DEF BookInv, BookTyped, EditorsFit

LEMMA EditorSet ==
  ASSUME editor \in [Editors -> EditorStates], NEW e \in Editors, NEW j \in EditorStates,
         editor' = [editor EXCEPT ![e] = j]
  PROVE  /\ editor' \in [Editors -> EditorStates] /\ editor'[e] = j
         /\ \A x \in Editors \ {e} : editor'[x] = editor[x]
  OBVIOUS

----------------------------------------------------------------------------
\* A step of an editor: the pages gain at most its cell, and lose local links.

Grown(j) ==
  \A p \in BookPages : \A n \in pages'[p].cells :
    \/ \E m \in pages[p].cells : m.cell = n.cell /\ (n.local => m.local)
    \/ Early(j) /\ n.cell = j.cell /\ (n.local => LinkOf[n.cell] \in meta'.known)

\* What holds of the whole book.
Ahead(j) ==
  /\ mishaps \subseteq mishaps' /\ pushFaults' \in Nat /\ pushFaults <= pushFaults'
  /\ cellsWritten \subseteq cellsWritten' /\ cellsWritten' \subseteq Cells
  /\ Steady' => (meta.auto => meta'.auto)
  /\ Calm' => meta.known \subseteq meta'.known /\ Grown(j)

LEMMA StaysCalm == ASSUME BookInv, NEW j, Ahead(j) PROVE (Calm' => Calm) /\ (Steady' => Steady)
  BY DEF Ahead, Calm, Steady, BookInv, BookTyped

LEMMA AllCellsGrow ==
  ASSUME BookInv, NEW j, Grown(j)
  PROVE  \A c \in AllCells' : c \in AllCells \/ (Early(j) /\ c = j.cell)
<1> SUFFICES ASSUME NEW p \in BookPages, NEW n \in pages'[p].cells
             PROVE  n.cell \in AllCells \/ (Early(j) /\ n.cell = j.cell)
  BY DEF AllCells
<1> QED
  BY DEF Grown, AllCells

LEMMA OtherEditors ==
  ASSUME BookInv, NEW e \in Editors, Ahead(editor[e]), NEW x \in Editors \ {e},
         editor'[x] = editor[x], NEW j, j = editor[x]
  PROVE  EditorFits(j)'
<1>1. EditorFits(j) /\ (Calm' => Calm) /\ (Steady' => Steady)
  BY EditorOf, StaysCalm
<1>2. OpFits(j)'
  BY <1>1 DEF EditorFits, OpFits, Ahead, BookInv, BookTyped
<1>3. MetaFits(j)'
  BY <1>1 DEF EditorFits, MetaFits, Ahead
<1>4. CellFits(j)'
  <2> SUFFICES ASSUME Calm' PROVE CellFits(j)'
    BY DEF CellFits
  <2>1. /\ j.began \subseteq cellsWritten \cup Cloned
        /\ Early(j) => j.cell \in cellsWritten \ Cloned /\ j.cell \notin AllCells
        /\ Early(j) /\ j.pc = "append" => j.link \in meta.known \cup {NoLink}
        /\ Resolving(j)
    BY <1>1 DEF EditorFits, CellFits
  <2>2. /\ Early(editor[e]) => editor[e].cell \notin j.began
        /\ Early(editor[e]) /\ Early(j) => editor[e].cell # j.cell
    BY <1>1 DEF BookInv, EditorsFit
  <2>3. Early(j) => j.cell \notin AllCells'
    BY <2>1, <2>2, AllCellsGrow DEF Ahead
  <2>4. Resolving(j)'
    <3> SUFFICES ASSUME j.op = "publish",
                        j.pc \in {"next", "rewrite", "replace", "push", "commit", "done"},
                        NEW p \in BookPages, NEW n \in pages'[p].cells, n.local, n.cell \in j.began
                 PROVE  \/ LinkOf[n.cell] \in j.skipped \cup j.todo
                        \/ /\ j.pc \in {"rewrite", "replace"} /\ LinkOf[n.cell] = j.link
                           /\ p \in j.left \/ (j.pc = "replace" /\ p = j.page)
      BY DEF Resolving
    <3>1. PICK m \in pages[p].cells : m.cell = n.cell /\ (n.local => m.local)
      BY <2>2 DEF Ahead, Grown
    <3> QED
      BY <2>1, <3>1 DEF Resolving
  <2> QED
    BY <2>1, <2>3, <2>4 DEF CellFits, Ahead, Early
<1> QED
  BY <1>2, <1>3, <1>4 DEF EditorFits

\* What the editors, the cells and the index keep.
LEMMA EditorsGo ==
  ASSUME BookInv, NEW e \in Editors, NEW j \in EditorStates,
         editor' = [editor EXCEPT ![e] = j], Ahead(editor[e]),
         EditorFits(j)',
         Active(j) => Active(editor[e]) \/ \A x \in Editors : ~Active(editor[x]),
         Calm' => /\ j.began \in {editor[e].began, {}, AllCells}
                  /\ Early(j) => \/ Early(editor[e]) /\ j.cell = editor[e].cell
                                 \/ j.cell \notin cellsWritten \cup Cloned,
         "index" \notin mishaps' =>
            \A p \in BookPages :
               /\ p \in toc => p \in toc'
               /\ pages'[p].made => pages[p].made \/ Listing(j, p)
               /\ Listing(editor[e], p) => p \in toc' \/ Listing(j, p)
  PROVE  EditorsFit' /\ CellsFit' /\ IndexFits'
<1>1. /\ editor' \in [Editors -> EditorStates] /\ editor'[e] = j
      /\ \A x \in Editors \ {e} : editor'[x] = editor[x]
  BY DEF BookInv, BookTyped
<1>2. (Calm' => Calm) /\ (Steady' => Steady)
  BY StaysCalm
<1>3. EditorsFit'
  <2>1. ASSUME NEW x \in Editors PROVE EditorFits(editor[x])'
    <3>1. CASE x = e
      BY <1>1, <3>1 DEF EditorFits, OpFits, MetaFits, CellFits, Active, Early, Resolving
    <3>2. CASE x # e
      <4>1. PICK k : k = editor[x]
        OBVIOUS
      <4>2. EditorFits(k)' /\ editor'[x] = k
        BY <1>1, <3>2, <4>1, OtherEditors
      <4> QED
        BY <4>2 DEF EditorFits, OpFits, MetaFits, CellFits, Active, Early, Resolving
    <3> QED
      BY <3>1, <3>2
  <2>2. ASSUME NEW x \in Editors, NEW f \in Editors, x # f
        PROVE  ~(Active(editor'[x]) /\ Active(editor'[f]))
    BY <1>1, <2>2 DEF BookInv, EditorsFit
  <2>3. ASSUME Calm', NEW x \in Editors, NEW f \in Editors, Early(editor'[x])
        PROVE  /\ editor'[x].cell \notin editor'[f].began
               /\ x # f /\ Early(editor'[f]) => editor'[x].cell # editor'[f].cell
    <3>1. /\ \A y \in Editors : editor[y].began \subseteq cellsWritten \cup Cloned
          /\ \A y \in Editors : Early(editor[y]) => /\ editor[y].cell \in cellsWritten
                                                    /\ editor[y].cell \notin AllCells
          /\ AllCells \subseteq cellsWritten \cup Cloned
      BY <1>2, <2>3 DEF BookInv, EditorsFit, EditorFits, CellFits, CellsFit
    <3>2. /\ \A y, z \in Editors : Early(editor[y]) => editor[y].cell \notin editor[z].began
          /\ \A y, z \in Editors : y # z /\ Early(editor[y]) /\ Early(editor[z])
                                      => editor[y].cell # editor[z].cell
      BY <1>2, <2>3 DEF BookInv, EditorsFit
    <3>3. \A y \in Editors : Early(editor'[y]) =>
             \/ Early(editor[y]) /\ editor'[y].cell = editor[y].cell
             \/ y = e /\ j.cell \notin cellsWritten \cup Cloned
      BY <1>1, <2>3
    <3>4. \A y \in Editors : editor'[y].began \in {editor[y].began, {}, AllCells}
      BY <1>1, <2>3
    <3> QED
      BY <2>3, <3>1, <3>2, <3>3, <3>4
  <2> QED
    BY <2>1, <2>2, <2>3 DEF EditorsFit
<1>4. CellsFit'
  <2> SUFFICES ASSUME Calm'
               PROVE  /\ AllCells' \subseteq cellsWritten' \cup Cloned
                      /\ \A p \in BookPages : \A n \in pages'[p].cells :
                            n.local => LinkOf[n.cell] \in meta'.known
    BY DEF CellsFit
  <2>1. Grown(editor[e]) /\ meta.known \subseteq meta'.known /\ cellsWritten \subseteq cellsWritten'
    BY DEF Ahead
  <2>2. Early(editor[e]) => editor[e].cell \in cellsWritten
    BY <1>2 DEF BookInv, EditorsFit, EditorFits, CellFits
  <2>3. AllCells \subseteq cellsWritten \cup Cloned
    BY <1>2 DEF BookInv, CellsFit
  <2>4. ASSUME NEW p \in BookPages, NEW n \in pages'[p].cells, n.local
        PROVE  LinkOf[n.cell] \in meta'.known
    <3>1. CASE \E m \in pages[p].cells : m.cell = n.cell /\ (n.local => m.local)
      BY <1>2, <2>1, <2>4, <3>1 DEF BookInv, CellsFit
    <3> QED
      BY <2>1, <2>4, <3>1 DEF Grown
  <2> QED
    BY <2>1, <2>2, <2>3, <2>4, AllCellsGrow
<1>5. IndexFits'
  <2> SUFFICES ASSUME "index" \notin mishaps', NEW p \in BookPages, pages'[p].made
               PROVE  p \in toc' \/ \E x \in Editors : Listing(editor'[x], p)
    BY DEF IndexFits
  <2>1. CASE pages[p].made
    <3>1. p \in toc \/ \E x \in Editors : Listing(editor[x], p)
      BY <2>1 DEF BookInv, IndexFits, Ahead
    <3> QED
      BY <1>1, <3>1
  <2>2. CASE ~pages[p].made
    BY <1>1, <2>2
  <2> QED
    BY <2>1, <2>2
<1> QED
  BY <1>3, <1>4, <1>5

LEMMA EditorMoves ==
  ASSUME BookInv, NEW e \in Editors, NEW j \in EditorStates,
         editor' = [editor EXCEPT ![e] = j], Ahead(editor[e]),
         UNCHANGED <<pending, lock, pusher, space>>,
         meta' \in Metas, pages' \in Books, toc' \subseteq BookPages,
         EditorFits(j)',
         Active(j) => Active(editor[e]) \/ \A x \in Editors : ~Active(editor[x]),
         Calm' => /\ j.began \in {editor[e].began, {}, AllCells}
                  /\ Early(j) => \/ Early(editor[e]) /\ j.cell = editor[e].cell
                                 \/ j.cell \notin cellsWritten \cup Cloned,
         ~Committed(j) /\ ~Published(j),
         Steady' => /\ ~Committed(editor[e])
                    /\ Asks(editor[e]) \/ Preparing(editor[e]) \/ meta'.auto # meta.auto
                         \/ pages' # pages => Asks(j) \/ Preparing(j),
         "index" \notin mishaps' =>
            \A p \in BookPages :
               /\ p \in toc => p \in toc'
               /\ pages'[p].made => pages[p].made \/ Listing(j, p)
               /\ Listing(editor[e], p) => p \in toc' \/ Listing(j, p)
  PROVE  BookInv'
<1>1. /\ editor' \in [Editors -> EditorStates] /\ editor'[e] = j
      /\ \A x \in Editors \ {e} : editor'[x] = editor[x]
  BY DEF BookInv, BookTyped
<1>2. BookTyped' /\ LockFits' /\ (Calm' => Calm) /\ (Steady' => Steady)
  BY <1>1, StaysCalm DEF BookInv, BookTyped, LockFits, Ahead
<1>3. EditorsFit' /\ CellsFit' /\ IndexFits'
  BY EditorsGo
<1>4. PushedFits'
  <2> SUFFICES ASSUME Calm' PROVE PushedFits'
    BY DEF PushedFits
  <2>1. \A x \in Editors : Committed(editor'[x]) \/ Published(editor'[x]) => x # e /\ editor'[x] = editor[x]
    BY <1>1
  <2> QED
    BY <1>2, <2>1 DEF BookInv, PushedFits, ResolvedIn
<1>5. SpaceFits'
  <2> SUFFICES ASSUME Steady' PROVE SpaceFits'
    BY DEF SpaceFits
  <2>1. Steady /\ ~Committed(editor[e]) /\ SpaceFits /\ (meta.auto => meta'.auto)
    BY <1>2 DEF BookInv, Ahead
  <2>2. \A x \in Editors : Committed(editor'[x]) <=> x # e /\ Committed(editor[x])
    BY <1>1, <2>1
  <2>3. /\ pending' => /\ \E w \in Pushers : pusher'[w].pc \in {"start", "look", "push", "commit"}
                       /\ \A w \in Pushers : pusher'[w].pc # "unlock"
        /\ (pending' \/ \E w \in Pushers : pusher'[w].pc # "idle") => meta'.auto
    BY <2>1 DEF SpaceFits
  <2>4. CASE Asks(j) \/ Preparing(j)
    <3>1. Owed'
      BY <1>1, <2>4 DEF Owed
    <3> QED
      BY <2>3, <3>1 DEF SpaceFits
  <2>5. CASE ~Asks(j) /\ ~Preparing(j)
    <3>1. pages' = pages /\ meta'.auto = meta.auto /\ ~Asks(editor[e]) /\ ~Preparing(editor[e])
      BY <2>5
    <3>2. Owed => Owed'
      BY <1>1, <3>1 DEF Owed
    <3>3. WorkerHas => WorkerHas'
      BY <3>1 DEF WorkerHas
    <3>4. PublishHas => PublishHas'
      BY <1>1, <2>1, <3>1 DEF PublishHas
    <3> QED
      BY <1>1, <2>1, <2>2, <2>3, <3>1, <3>2, <3>3, <3>4 DEF SpaceFits
  <2> QED
    BY <2>4, <2>5
<1> QED
  BY <1>2, <1>3, <1>4, <1>5 DEF BookInv

\* A step that only moves an editor.
LEMMA QuietMoves ==
  ASSUME BookInv, NEW e \in Editors, NEW j \in EditorStates,
         editor' = [editor EXCEPT ![e] = j],
         UNCHANGED <<meta, pages, toc, pending, lock, pusher, space, mishaps, pushFaults>>,
         cellsWritten \subseteq cellsWritten', cellsWritten' \subseteq Cells,
         EditorFits(j)',
         Active(j) => Active(editor[e]) \/ \A x \in Editors : ~Active(editor[x]),
         j.began \in {editor[e].began, {}, AllCells},
         Early(j) => \/ Early(editor[e]) /\ j.cell = editor[e].cell
                     \/ j.cell \notin cellsWritten \cup Cloned,
         ~Committed(j) /\ ~Published(j) /\ ~Committed(editor[e]),
         Asks(editor[e]) \/ Preparing(editor[e]) => Asks(j) \/ Preparing(j),
         \A p \in BookPages : Listing(editor[e], p) => Listing(j, p)
  PROVE  BookInv'
<1>1. Grown(editor[e])
  BY DEF Grown
<1>2. Ahead(editor[e])
  BY <1>1 DEF Ahead, BookInv, BookTyped
<1>3. meta' \in Metas /\ pages' \in Books /\ toc' \subseteq BookPages
  BY DEF BookInv, BookTyped
<1> QED
  BY <1>1, <1>2, <1>3, EditorMoves

\* What one editor allows for does not change while the book stays as it is.
LEMMA BookStays ==
  ASSUME UNCHANGED <<meta, pages, mishaps, pushFaults>>, cellsWritten \subseteq cellsWritten', NEW j
  PROVE  /\ OpFits(j)' <=> OpFits(j)
         /\ MetaFits(j)' <=> MetaFits(j)
         /\ Resolving(j)' <=> Resolving(j)
         /\ CellFits(j) => CellFits(j)'
<1>1. OpFits(j)' <=> OpFits(j)
  BY DEF OpFits
<1>2. (MetaFits(j)' <=> MetaFits(j)) /\ (Resolving(j)' <=> Resolving(j))
  BY DEF MetaFits, Resolving, Steady
<1>3. CellFits(j) => CellFits(j)'
  BY <1>2 DEF CellFits, Calm, AllCells, Early
<1> QED
  BY <1>1, <1>2, <1>3

----------------------------------------------------------------------------
\* A cell.

LEMMA BeginCellKeeps ==
  ASSUME BookInv, NEW e \in Editors, NEW c \in Cells, BeginCell(e, c) \/ BeginNote(e, c)
  PROVE  BookInv'
<1>1. /\ Idle(e) /\ c \notin Cloned \cup cellsWritten /\ cellsWritten' = cellsWritten \cup {c}
      /\ UNCHANGED <<meta, pages, toc, pending, lock, pusher, space, mishaps, pushFaults>>
  BY LogbookAssumption DEF BeginCell, BeginNote
<1>2. PICK next \in {"find", "register"}, page \in BookPages :
         editor' = [editor EXCEPT ![e] = [Resting EXCEPT !.op = "cell", !.pc = next, !.cell = c,
                                                       !.page = page, !.link = LinkOf[c]]]
  <2>1. CASE BeginCell(e, c)
    BY <2>1 DEF BeginCell, BookPages
  <2>2. CASE BeginNote(e, c)
    <3>1. meta.last \in BookPages
      BY <2>2 DEF BeginNote, BookInv, BookTyped, Metas
    <3> QED
      BY <2>2, <3>1 DEF BeginNote
  <2> QED
    BY <2>1, <2>2
<1>3. PICK j : j = [Resting EXCEPT !.op = "cell", !.pc = next, !.cell = c, !.page = page,
                                   !.link = LinkOf[c]]
  OBVIOUS
<1>4. /\ j.op = "cell" /\ j.pc = next /\ j.cell = c /\ j.page = page /\ j.link = LinkOf[c]
      /\ j.began = {}
  BY <1>3 DEF Resting
<1>5. j \in EditorStates
  <2>1. LinkOf[c] \in Links \cup {NoLink}
    BY DEF Links
  <2> QED
    BY <1>3, <2>1, EmptyTyped DEF EditorStates, CellStages, EarlyStages
<1>6. EditorFits(j)'
  <2>1. OpFits(j) /\ MetaFits(j)
    BY <1>4 DEF OpFits, MetaFits, Active, CellStages, EarlyStages
  <2>2. CellFits(j)'
    <3> SUFFICES ASSUME Calm' PROVE CellFits(j)'
      BY DEF CellFits
    <3>1. c \in cellsWritten' \ Cloned /\ c \notin AllCells'
      BY <1>1 DEF BookInv, CellsFit, Calm, AllCells
    <3> QED
      BY <1>4, <3>1 DEF CellFits, Early, Resolving
  <2> QED
    BY <1>1, <2>1, <2>2, BookStays DEF EditorFits
<1>7. ~Asks(editor[e]) /\ ~Preparing(editor[e]) /\ ~Committed(editor[e])
      /\ \A p \in BookPages : ~Listing(editor[e], p)
  BY <1>1, EditorOf DEF Idle, EditorFits, OpFits, Asks, Preparing, Committed, Listing, CellStages,
     EarlyStages, PreparingStages
<1>8. Asks(j) /\ ~Active(j) /\ ~Committed(j) /\ ~Published(j)
  BY <1>4 DEF Asks, Active, Committed, Published
<1>9. cellsWritten' \subseteq Cells /\ editor' = [editor EXCEPT ![e] = j]
  BY <1>1, <1>2, <1>3 DEF BookInv, BookTyped
<1> QED
  BY <1>1, <1>4, <1>5, <1>6, <1>7, <1>8, <1>9, QuietMoves

\* Steps of a cell that touch nothing else.
LEMMA CellGoes ==
  ASSUME BookInv, NEW e \in Editors, editor[e].op = "cell", NEW j \in EditorStates,
         editor' = [editor EXCEPT ![e] = j],
         j.op = "cell", j.cell = editor[e].cell, j.page = editor[e].page, j.link = editor[e].link,
         j.began = editor[e].began, j.pc \in CellStages \ {"append"},
         Early(j) => Early(editor[e]),
         editor[e].pc \in {"list", "row"} => j.pc \in {"list", "row"},
         j.pc \in {"recalled", "registered", "remembered"} => j.meta = j.seen,
         UNCHANGED <<meta, pages, toc, pending, lock, pusher, space, mishaps, pushFaults, asked>>
  PROVE  BookInv'
<1>1. EditorFits(editor[e])
  BY EditorOf
<1>2. j.pc \notin PublishStages
  BY DEF CellStages, EarlyStages, PublishStages, PreparingStages
<1>3. EditorFits(j)
  <2>1. OpFits(j)
    BY <1>1, <1>2 DEF EditorFits, OpFits
  <2>2. MetaFits(j)
    BY <1>2 DEF MetaFits, PublishStages, PreparingStages, Active
  <2>3. CellFits(j)
    BY <1>1 DEF EditorFits, CellFits, Early, Resolving
  <2> QED
    BY <2>1, <2>2, <2>3 DEF EditorFits
<1>4. EditorFits(j)' /\ cellsWritten' \subseteq Cells /\ cellsWritten' = cellsWritten
  BY <1>3, BookStays DEF EditorFits, asked, BookInv, BookTyped
<1>5. /\ ~Active(j) /\ ~Committed(j) /\ ~Published(j) /\ ~Committed(editor[e]) /\ Asks(j)
      /\ \A p \in BookPages : Listing(editor[e], p) => Listing(j, p)
  BY DEF Active, Committed, Published, Asks, Listing
<1> QED
  BY <1>4, <1>5, QuietMoves

LEMMA EnsurePageKeeps ==
  ASSUME BookInv, NEW e \in Editors, EnsurePage(e) \/ ReadIndex(e) PROVE BookInv'
<1>1. editor[e] \in EditorStates /\ editor[e].op = "cell" /\ editor[e].pc \in {"find", "list"}
  BY EditorOf DEF EnsurePage, ReadIndex, On
<1>2. CASE EnsurePage(e)
  <2>1. PICK next \in {"recall", "create"} : editor' = [editor EXCEPT ![e].pc = next]
    BY <1>2 DEF EnsurePage, To
  <2>2. PICK j : j = [editor[e] EXCEPT !.pc = next]
    OBVIOUS
  <2>3. /\ j \in EditorStates /\ j.op = "cell" /\ j.pc = next /\ j.cell = editor[e].cell
        /\ j.page = editor[e].page /\ j.link = editor[e].link /\ j.began = editor[e].began
    BY <1>1, <2>2 DEF EditorStates, CellStages, EarlyStages
  <2>4. editor' = [editor EXCEPT ![e] = j] /\ editor[e].pc = "find"
    BY <1>2, <2>1, <2>2 DEF EnsurePage, On
  <2>5. Early(editor[e]) /\ next \in CellStages \ {"append"}
    BY <1>1 DEF Early, EarlyStages, CellStages
  <2> QED
    BY <1>1, <1>2, <2>3, <2>4, <2>5, CellGoes DEF EnsurePage
<1>3. CASE ReadIndex(e)
  <2>1. PICK j : j = [editor[e] EXCEPT !.pc = "row", !.left = toc]
    OBVIOUS
  <2>2. /\ j \in EditorStates /\ j.op = "cell" /\ j.pc = "row" /\ j.cell = editor[e].cell
        /\ j.page = editor[e].page /\ j.link = editor[e].link /\ j.began = editor[e].began
    BY <1>1, <2>1 DEF EditorStates, CellStages, EarlyStages, BookInv, BookTyped
  <2>3. editor' = [editor EXCEPT ![e] = j]
    BY <1>3, <2>1 DEF ReadIndex, BookInv, BookTyped
  <2>4. Early(editor[e]) /\ "row" \in CellStages \ {"append"}
    BY <1>1 DEF Early, EarlyStages, CellStages
  <2> QED
    BY <1>1, <1>3, <2>2, <2>3, <2>4, CellGoes DEF ReadIndex
<1> QED
  BY <1>2, <1>3

LEMMA CellReadsKeep ==
  ASSUME BookInv, NEW e \in Editors,
         NEW turn \in {<<"recall", "recalled">>, <<"register", "registered">>,
                       <<"remember", "remembered">>},
         ReadMeta(e, {"cell"}, turn[1], turn[2])
  PROVE  BookInv'
<1>1. editor[e] \in EditorStates /\ editor[e].op = "cell" /\ editor[e].pc = turn[1]
  BY EditorOf DEF ReadMeta, On
<1>2. PICK j : j = [editor[e] EXCEPT !.pc = turn[2], !.meta = meta, !.seen = meta]
  OBVIOUS
<1>3. /\ j \in EditorStates /\ j.op = "cell" /\ j.pc = turn[2] /\ j.cell = editor[e].cell
      /\ j.page = editor[e].page /\ j.link = editor[e].link /\ j.began = editor[e].began
      /\ j.meta = j.seen
  <2>1. turn[2] \in CellStages /\ meta \in Metas
    BY DEF CellStages, EarlyStages, BookInv, BookTyped
  <2> QED
    BY <1>1, <1>2, <2>1 DEF EditorStates
<1>4. editor' = [editor EXCEPT ![e] = j]
  BY <1>2 DEF ReadMeta, BookInv, BookTyped
<1>5. /\ Early(j) => Early(editor[e])
      /\ turn[2] \in CellStages \ {"append"} /\ editor[e].pc \notin {"list", "row"}
  BY <1>1, <1>3 DEF Early, EarlyStages, CellStages
<1> QED
  BY <1>1, <1>3, <1>4, <1>5, CellGoes DEF ReadMeta

\* The metadata is written.
LEMMA MetaAhead ==
  ASSUME BookInv, NEW e \in Editors, NEW new \in Metas, meta' = new,
         Clobbers(meta # editor[e].seen, "meta"), UNCHANGED <<pages, pushFaults, cellsWritten>>,
         editor[e].seen.known \subseteq new.known,
         Steady => (editor[e].seen.auto => new.auto)
  PROVE  /\ Ahead(editor[e])
         /\ Calm' \/ Steady' => meta = editor[e].seen
         /\ (Calm' => Calm) /\ (Steady' => Steady)
         /\ \A x : x \notin mishaps' => x \notin mishaps
<1>1. mishaps' = mishaps \cup (IF meta # editor[e].seen THEN {"meta"} ELSE {})
  BY DEF Clobbers
<1>2. (Calm' => Calm) /\ (Steady' => Steady)
  BY <1>1 DEF Calm, Steady
<1>3. Calm' \/ Steady' => meta = editor[e].seen
  BY <1>1 DEF Calm, Steady
<1>4. Grown(editor[e])
  BY DEF Grown
<1>5. Ahead(editor[e])
  BY <1>1, <1>2, <1>3, <1>4 DEF Ahead, BookInv, BookTyped
<1> QED
  BY <1>1, <1>2, <1>3, <1>5

LEMMA CellWritesKeep ==
  ASSUME BookInv, NEW e \in Editors,
         \/ WriteMeta(e, {"cell"}, "recalled", Remembering(e), "register")
         \/ WriteMeta(e, {"cell"}, "registered", Registering(e), "append")
         \/ WriteMeta(e, {"cell"}, "remembered", Remembering(e), "trigger")
  PROVE  BookInv'
<1>1. PICK next \in {"register", "append", "trigger"}, new \in {Remembering(e), Registering(e)} :
        /\ meta' = new /\ Clobbers(meta # editor[e].seen, "meta")
        /\ editor' = [editor EXCEPT ![e].pc = next, ![e].meta = NoMeta, ![e].seen = NoMeta]
        /\ UNCHANGED <<pages, toc, pending, lock, pusher, space, pushFaults, asked>>
        /\ editor[e].op = "cell" /\ editor[e].pc \in {"recalled", "registered", "remembered"}
        /\ Early(editor[e]) \/ next = "trigger"
        /\ next = "append" => new = Registering(e)
  BY DEF WriteMeta, On, Early, EarlyStages
<1>2. /\ editor[e] \in EditorStates /\ OpFits(editor[e]) /\ editor[e].meta = editor[e].seen
      /\ CellFits(editor[e]) /\ editor[e].meta \in Metas /\ editor[e].page \in BookPages
      /\ editor[e].link \in Links \cup {NoLink}
  BY <1>1, EditorOf DEF EditorFits, MetaFits, OpFits, EditorStates
<1>3. /\ new \in Metas /\ editor[e].seen.known \subseteq new.known
      /\ new.auto = editor[e].seen.auto
      /\ next = "append" => editor[e].link \in new.known \cup {NoLink}
  <2>1. CASE new = Remembering(e)
    <3>1. Remembering(e) = [editor[e].meta EXCEPT !.last = editor[e].page]
      BY DEF Remembering, Copy
    <3>2. /\ Remembering(e) \in Metas /\ Remembering(e).known = editor[e].meta.known
          /\ Remembering(e).auto = editor[e].meta.auto
      BY <1>2, <3>1 DEF Metas
    <3>3. CASE next # "append"
      BY <1>2, <2>1, <3>2, <3>3
    <3>4. CASE new = Registering(e)
      <4>1. editor[e].link \in Registering(e).known \cup {NoLink}
        BY <1>2 DEF Registering, Copy, Metas
      <4> QED
        BY <1>2, <2>1, <3>2, <3>4, <4>1
    <3> QED
      BY <1>1, <3>3, <3>4
  <2>2. CASE new = Registering(e)
    <3>1. Registering(e) = [editor[e].meta EXCEPT !.known = @ \cup ({editor[e].link} \ {NoLink})]
      BY DEF Registering, Copy
    <3>2. /\ Registering(e) \in Metas /\ Registering(e).auto = editor[e].meta.auto
          /\ Registering(e).known = editor[e].meta.known \cup ({editor[e].link} \ {NoLink})
      BY <1>2, <3>1 DEF Metas
    <3> QED
      BY <1>2, <2>2, <3>2
  <2> QED
    BY <2>1, <2>2
<1>4. PICK j : j = [editor[e] EXCEPT !.pc = next, !.meta = NoMeta, !.seen = NoMeta]
  OBVIOUS
<1>5. /\ j \in EditorStates /\ j.op = "cell" /\ j.pc = next /\ j.cell = editor[e].cell
      /\ j.page = editor[e].page /\ j.link = editor[e].link /\ j.began = editor[e].began
  <2>1. next \in CellStages
    BY DEF CellStages, EarlyStages
  <2> QED
    BY <1>1, <1>2, <1>4, <2>1, EmptyTyped DEF EditorStates
<1>6. editor' = [editor EXCEPT ![e] = j]
  BY <1>1, <1>4 DEF BookInv, BookTyped
<1>7. /\ Ahead(editor[e]) /\ (Calm' \/ Steady' => meta = editor[e].seen)
      /\ (Calm' => Calm) /\ (Steady' => Steady)
      /\ \A x : x \notin mishaps' => x \notin mishaps
  <2>1. UNCHANGED <<pages, pushFaults, cellsWritten>>
    BY <1>1 DEF asked
  <2> QED
    BY <1>1, <1>3, <2>1, MetaAhead
<1>8. EditorFits(j)'
  <2>1. OpFits(j)' /\ MetaFits(j)'
    BY <1>1, <1>2, <1>5 DEF OpFits, MetaFits, CellStages, EarlyStages, Active
  <2>2. CellFits(j)'
    <3> SUFFICES ASSUME Calm' PROVE CellFits(j)'
      BY DEF CellFits
    <3>1. AllCells' = AllCells /\ cellsWritten' = cellsWritten
      BY <1>1 DEF AllCells, asked
    <3>2. Early(j) => Early(editor[e])
      BY <1>1, <1>5 DEF Early, EarlyStages
    <3> QED
      BY <1>1, <1>2, <1>3, <1>5, <1>7, <3>1, <3>2 DEF CellFits, Resolving, Early
  <2> QED
    BY <2>1, <2>2 DEF EditorFits
<1>9. /\ ~Active(j) /\ ~Committed(j) /\ ~Published(j) /\ ~Committed(editor[e]) /\ Asks(j)
      /\ Early(j) => Early(editor[e])
  BY <1>1, <1>5 DEF Active, Committed, Published, Asks, Listing, Early, EarlyStages
<1>10. \A p \in BookPages : ~Listing(editor[e], p)
  BY <1>1 DEF Listing
<1>11. meta' \in Metas /\ pages' \in Books /\ toc' \subseteq BookPages
  BY <1>1, <1>3 DEF BookInv, BookTyped
<1> QED
  BY <1>1, <1>5, <1>6, <1>7, <1>8, <1>9, <1>10, <1>11, EditorMoves

\* A page is written whole: what replaces newer cells is noted.
LEMMA AddPageKeeps == ASSUME BookInv, NEW e \in Editors, AddPage(e) PROVE BookInv'
<1>1. /\ editor[e].op = "cell" /\ editor[e].pc = "create"
      /\ pages' = [pages EXCEPT ![editor[e].page] = [made |-> TRUE, cells |-> {}]]
      /\ mishaps' = mishaps \cup (IF pages[editor[e].page].cells # {} THEN {"text"} ELSE {})
      /\ editor' = [editor EXCEPT ![e].pc = "list"]
      /\ UNCHANGED <<meta, toc, pending, lock, pusher, space, pushFaults, asked>>
  BY DEF AddPage, On, To, Clobbers
<1>2. /\ editor[e] \in EditorStates /\ OpFits(editor[e]) /\ CellFits(editor[e])
      /\ editor[e].page \in BookPages
  BY <1>1, EditorOf DEF EditorFits, OpFits
<1>3. PICK j : j = [editor[e] EXCEPT !.pc = "list"]
  OBVIOUS
<1>4. /\ j \in EditorStates /\ j.op = "cell" /\ j.pc = "list" /\ j.cell = editor[e].cell
      /\ j.page = editor[e].page /\ j.link = editor[e].link /\ j.began = editor[e].began
  BY <1>1, <1>2, <1>3 DEF EditorStates, CellStages, EarlyStages
<1>5. editor' = [editor EXCEPT ![e] = j]
  BY <1>1, <1>3
<1>6. /\ pages' \in Books
      /\ \A p \in BookPages : pages'[p].cells \subseteq pages[p].cells
      /\ \A p \in BookPages : pages'[p].made => pages[p].made \/ p = editor[e].page
  BY <1>1, <1>2 DEF BookInv, BookTyped, Books
<1>7. (Calm' => Calm) /\ (Steady' => Steady) /\ Grown(editor[e]) /\ Ahead(editor[e])
  BY <1>1, <1>6 DEF Calm, Steady, Grown, Ahead, BookInv, BookTyped, asked
<1>8. EditorFits(j)'
  <2>1. OpFits(j)' /\ MetaFits(j)'
    BY <1>1, <1>2, <1>4 DEF OpFits, MetaFits, CellStages, EarlyStages, Active
  <2>2. CellFits(j)'
    <3> SUFFICES ASSUME Calm' PROVE CellFits(j)'
      BY DEF CellFits
    <3>1. AllCells' \subseteq AllCells /\ cellsWritten' = cellsWritten
      BY <1>1, <1>6 DEF AllCells, asked
    <3>2. Early(j) /\ Early(editor[e])
      BY <1>1, <1>4 DEF Early, EarlyStages
    <3> QED
      BY <1>1, <1>2, <1>4, <1>7, <3>1, <3>2 DEF CellFits, Resolving, Early
  <2> QED
    BY <2>1, <2>2 DEF EditorFits
<1>9. /\ ~Active(j) /\ ~Committed(j) /\ ~Published(j) /\ ~Committed(editor[e]) /\ Asks(j)
      /\ Early(editor[e]) /\ Listing(j, editor[e].page)
      /\ \A p \in BookPages : ~Listing(editor[e], p)
  BY <1>1, <1>4 DEF Active, Committed, Published, Asks, Listing, Early, EarlyStages
<1>10. meta' \in Metas /\ toc' \subseteq BookPages
  BY <1>1 DEF BookInv, BookTyped
<1> QED
  BY <1>1, <1>4, <1>5, <1>6, <1>7, <1>8, <1>9, <1>10, EditorMoves

LEMMA InsertTocRowKeeps == ASSUME BookInv, NEW e \in Editors, InsertTocRow(e) PROVE BookInv'
<1>1. /\ editor[e].op = "cell" /\ editor[e].pc = "row"
      /\ toc' = editor[e].left \cup {editor[e].page}
      /\ mishaps' = mishaps \cup (IF toc # editor[e].left THEN {"index"} ELSE {})
      /\ editor' = [editor EXCEPT ![e].pc = "recall", ![e].left = {}]
      /\ UNCHANGED <<meta, pages, pending, lock, pusher, space, pushFaults, asked>>
  BY DEF InsertTocRow, On, Clobbers
<1>2. /\ editor[e] \in EditorStates /\ OpFits(editor[e]) /\ CellFits(editor[e])
      /\ editor[e].page \in BookPages /\ editor[e].left \subseteq BookPages
  BY <1>1, EditorOf DEF EditorFits, OpFits, EditorStates
<1>3. PICK j : j = [editor[e] EXCEPT !.pc = "recall", !.left = {}]
  OBVIOUS
<1>4. /\ j \in EditorStates /\ j.op = "cell" /\ j.pc = "recall" /\ j.cell = editor[e].cell
      /\ j.page = editor[e].page /\ j.link = editor[e].link /\ j.began = editor[e].began
  BY <1>1, <1>2, <1>3 DEF EditorStates, CellStages, EarlyStages
<1>5. editor' = [editor EXCEPT ![e] = j]
  BY <1>1, <1>3 DEF BookInv, BookTyped
<1>6. /\ (Calm' <=> Calm) /\ (Steady' <=> Steady) /\ Grown(editor[e]) /\ Ahead(editor[e])
  <2>1. (Calm' <=> Calm) /\ (Steady' <=> Steady)
    BY <1>1 DEF Calm, Steady
  <2>2. Grown(editor[e])
    BY <1>1 DEF Grown
  <2> QED
    BY <1>1, <2>1, <2>2 DEF Ahead, BookInv, BookTyped, asked
<1>7. EditorFits(j)'
  <2>1. OpFits(j)' /\ MetaFits(j)'
    BY <1>1, <1>2, <1>4 DEF OpFits, MetaFits, CellStages, EarlyStages, Active
  <2>2. CellFits(j)'
    BY <1>1, <1>2, <1>4, <1>6 DEF CellFits, Resolving, Early, EarlyStages, AllCells, asked
  <2> QED
    BY <2>1, <2>2 DEF EditorFits
<1>8. /\ ~Active(j) /\ ~Committed(j) /\ ~Published(j) /\ ~Committed(editor[e]) /\ Asks(j)
      /\ Early(editor[e]) /\ \A p \in BookPages : Listing(editor[e], p) => p \in toc'
  BY <1>1, <1>4 DEF Active, Committed, Published, Asks, Listing, Early, EarlyStages
<1>9. /\ meta' \in Metas /\ toc' \subseteq BookPages /\ pages' \in Books
      /\ "index" \notin mishaps' => \A p \in toc : p \in toc'
  BY <1>1, <1>2 DEF BookInv, BookTyped
<1> QED
  BY <1>1, <1>4, <1>5, <1>6, <1>7, <1>8, <1>9, EditorMoves

\* The cells of one page are set.
LEMMA PageSet ==
  ASSUME pages \in Books, NEW p \in BookPages, NEW s \in SUBSET WrittenCells,
         pages' = [pages EXCEPT ![p].cells = s]
  PROVE  /\ pages' \in Books /\ pages'[p].cells = s
         /\ \A x \in BookPages : pages'[x].made = pages[x].made
         /\ \A x \in BookPages \ {p} : pages'[x] = pages[x]
<1>1. PICK q : q = [pages[p] EXCEPT !.cells = s]
  OBVIOUS
<1>2. q \in [made : BOOLEAN, cells : SUBSET WrittenCells] /\ q.cells = s /\ q.made = pages[p].made
  BY <1>1 DEF Books
<1>3. pages' = [pages EXCEPT ![p] = q]
  BY <1>1
<1> QED
  BY <1>2, <1>3 DEF Books

LEMMA AppendCellKeeps == ASSUME BookInv, NEW e \in Editors, AppendCell(e) PROVE BookInv'
<1>1. /\ editor[e].op = "cell" /\ editor[e].pc = "append"
      /\ pages' = [pages EXCEPT ![editor[e].page].cells = @ \cup {NewCell(e)}]
      /\ editor' = [editor EXCEPT ![e].pc = "remember"]
      /\ UNCHANGED <<meta, toc, pending, lock, pusher, space, mishaps, pushFaults, asked>>
  BY DEF AppendCell, On, To
<1>2. /\ editor[e] \in EditorStates /\ OpFits(editor[e]) /\ CellFits(editor[e])
      /\ editor[e].page \in BookPages /\ editor[e].cell \in Cells
      /\ editor[e].link = LinkOf[editor[e].cell]
  BY <1>1, EditorOf DEF EditorFits, OpFits
<1>3. PICK j : j = [editor[e] EXCEPT !.pc = "remember"]
  OBVIOUS
<1>4. /\ j \in EditorStates /\ j.op = "cell" /\ j.pc = "remember" /\ j.cell = editor[e].cell
      /\ j.page = editor[e].page /\ j.link = editor[e].link /\ j.began = editor[e].began
  BY <1>1, <1>2, <1>3 DEF EditorStates, CellStages, EarlyStages
<1>5. editor' = [editor EXCEPT ![e] = j]
  BY <1>1, <1>3
<1>6. PICK new : new = NewCell(e)
  OBVIOUS
<1>14. /\ new \in WrittenCells /\ new.cell = editor[e].cell
       /\ new.local => editor[e].link # NoLink
  <2>1. new = [cell |-> editor[e].cell, local |-> editor[e].link # NoLink]
    BY <1>6 DEF NewCell
  <2>2. CASE editor[e].link = NoLink
    <3>1. new = [cell |-> editor[e].cell, local |-> FALSE]
      BY <2>1, <2>2, ZenonT(30)
    <3>2. new \in WrittenCells
      BY <1>2, <3>1 DEF WrittenCells
    <3>3. new.cell = editor[e].cell /\ new.local = FALSE
      BY <3>1
    <3> QED
      BY <3>2, <3>3
  <2>3. CASE editor[e].link # NoLink
    <3>1. (editor[e].link # NoLink) = TRUE
      BY <2>3
    <3>2. new = [cell |-> editor[e].cell, local |-> TRUE]
      BY <2>1, <3>1, ZenonT(30)
    <3>3. new \in WrittenCells
      BY <1>2, <3>2 DEF WrittenCells
    <3>4. new.cell = editor[e].cell
      BY <3>2
    <3> QED
      BY <2>3, <3>3, <3>4
  <2> QED
    BY <2>2, <2>3
<1>7. /\ pages' \in Books
      /\ \A p \in BookPages : pages'[p].cells \subseteq pages[p].cells \cup {new}
      /\ \A p \in BookPages : pages'[p].made = pages[p].made
  <2> DEFINE longer == pages[editor[e].page].cells \cup {new}
  <2>1. pages \in Books
    BY DEF BookInv, BookTyped
  <2>2. longer \in SUBSET WrittenCells
    <3>1. new \in WrittenCells
      BY <1>14
    <3>2. pages[editor[e].page].cells \subseteq WrittenCells
      BY <1>2, <2>1 DEF Books
    <3> QED
      BY <3>1, <3>2
  <2>3. pages' = [pages EXCEPT ![editor[e].page].cells = longer]
    <3>1. pages' = [pages EXCEPT ![editor[e].page].cells = @ \cup {new}]
      BY <1>1, <1>6
    <3> QED
      BY <3>1
  <2>4. longer = pages[editor[e].page].cells \cup {new}
    OBVIOUS
  <2> HIDE DEF longer
  <2>5. /\ pages' \in Books /\ pages'[editor[e].page].cells = longer
        /\ \A p \in BookPages : pages'[p].made = pages[p].made
        /\ \A p \in BookPages \ {editor[e].page} : pages'[p] = pages[p]
    BY <1>2, <2>1, <2>2, <2>3, PageSet
  <2> QED
    BY <2>4, <2>5
<1>8. /\ (Calm' <=> Calm) /\ (Steady' <=> Steady) /\ Early(editor[e])
  BY <1>1 DEF Calm, Steady, Early, EarlyStages
<1>9. Calm => Grown(editor[e])
  <2> SUFFICES ASSUME Calm, NEW p \in BookPages, NEW n \in pages'[p].cells
               PROVE  \/ \E m \in pages[p].cells : m.cell = n.cell /\ (n.local => m.local)
                      \/ /\ Early(editor[e]) /\ n.cell = editor[e].cell
                         /\ n.local => LinkOf[n.cell] \in meta'.known
    BY DEF Grown
  <2>1. CASE n \in pages[p].cells
    BY <2>1
  <2>2. CASE n = new
    <3>1. editor[e].link \in meta.known \cup {NoLink}
      BY <1>1, <1>2, <1>8 DEF CellFits
    <3>2. n.cell = editor[e].cell /\ LinkOf[n.cell] = editor[e].link
          /\ (n.local => editor[e].link # NoLink)
      <4>1. editor[e].link = LinkOf[editor[e].cell]
        BY <1>2
      <4>2. n.cell = editor[e].cell /\ (n.local => editor[e].link # NoLink)
        BY <1>14, <2>2
      <4> QED
        BY <4>1, <4>2
    <3>3. meta'.known = meta.known
      BY <1>1
    <3> QED
      BY <1>8, <3>1, <3>2, <3>3
  <2> QED
    BY <1>7, <2>1, <2>2
<1>10. Ahead(editor[e])
  BY <1>1, <1>8, <1>9 DEF Ahead, BookInv, BookTyped, asked
<1>11. EditorFits(j)'
  <2>1. OpFits(j)' /\ MetaFits(j)'
    BY <1>1, <1>2, <1>4 DEF OpFits, MetaFits, CellStages, EarlyStages, Active
  <2>2. CellFits(j)'
    BY <1>1, <1>2, <1>4, <1>8 DEF CellFits, Resolving, Early, EarlyStages, asked
  <2> QED
    BY <2>1, <2>2 DEF EditorFits
<1>12. /\ ~Active(j) /\ ~Committed(j) /\ ~Published(j) /\ ~Committed(editor[e]) /\ Asks(j)
       /\ \A p \in BookPages : ~Listing(editor[e], p)
       /\ ~Early(j) /\ j.began = {}
  BY <1>1, <1>2, <1>4 DEF Active, Committed, Published, Asks, Listing, Early, EarlyStages, OpFits
<1>13. meta' \in Metas /\ toc' \subseteq BookPages /\ j.began = editor[e].began
  BY <1>1, <1>4 DEF BookInv, BookTyped
<1> QED
  BY <1>1, <1>4, <1>5, <1>7, <1>8, <1>10, <1>11, <1>12, <1>13, EditorMoves

----------------------------------------------------------------------------
\* A pin: the page is written as it was read.

LEMMA IdleRests ==
  ASSUME BookInv, NEW e \in Editors, Idle(e)
  PROVE  /\ ~Asks(editor[e]) /\ ~Preparing(editor[e]) /\ ~Committed(editor[e]) /\ ~Early(editor[e])
         /\ ~Active(editor[e]) /\ \A p \in BookPages : ~Listing(editor[e], p)
  BY EditorOf DEF Idle, EditorFits, OpFits, Asks, Preparing, Committed, Early, Active, Listing,
     CellStages, EarlyStages, PublishStages, PreparingStages

LEMMA BeginPinKeeps ==
  ASSUME BookInv, NEW e \in Editors, NEW p \in BookPages, BeginPin(e, p)
  PROVE  BookInv'
<1>1. /\ Idle(e)
      /\ editor' = [editor EXCEPT ![e] = [Resting EXCEPT !.op = "pin", !.pc = "pin", !.page = p,
                                                         !.text = pages[p].cells]]
      /\ UNCHANGED <<meta, pages, toc, pending, lock, pusher, space, mishaps, pushFaults,
                     cellsWritten>>
  BY DEF BeginPin
<1>2. PICK j : j = [Resting EXCEPT !.op = "pin", !.pc = "pin", !.page = p, !.text = pages[p].cells]
  OBVIOUS
<1>3. j.op = "pin" /\ j.pc = "pin" /\ j.page = p /\ j.began = {}
  BY <1>2 DEF Resting
<1>4. j \in EditorStates
  <2>1. pages[p].cells \in SUBSET WrittenCells
    BY DEF BookInv, BookTyped, Books
  <2> QED
    BY <1>2, <2>1, EmptyTyped DEF EditorStates
<1>5. EditorFits(j)
  <2>1. OpFits(j) /\ MetaFits(j)
    BY <1>3 DEF OpFits, MetaFits, Active
  <2>2. CellFits(j)
    BY <1>3 DEF CellFits, Resolving, Early
  <2> QED
    BY <2>1, <2>2 DEF EditorFits
<1>6. EditorFits(j)'
  BY <1>1, <1>5, BookStays DEF EditorFits
<1>7. /\ Asks(j) /\ ~Active(j) /\ ~Committed(j) /\ ~Published(j) /\ ~Early(j)
      /\ cellsWritten \subseteq cellsWritten' /\ cellsWritten' \subseteq Cells
      /\ editor' = [editor EXCEPT ![e] = j]
  BY <1>1, <1>2, <1>3 DEF Asks, Active, Committed, Published, Early, BookInv, BookTyped
<1> QED
  BY <1>1, <1>3, <1>4, <1>6, <1>7, IdleRests, QuietMoves

\* What a page written whole does to the book.
LEMMA PageWritten ==
  ASSUME BookInv, NEW e \in Editors, NEW p \in BookPages, NEW s \in SUBSET WrittenCells,
         pages' = [pages EXCEPT ![p].cells = s],
         mishaps' = mishaps \cup (IF pages[p].cells # editor[e].text THEN {"text"} ELSE {}),
         UNCHANGED <<meta, pushFaults, cellsWritten>>,
         \A n \in s : \E m \in editor[e].text : m.cell = n.cell /\ (n.local => m.local)
  PROVE  /\ pages' \in Books /\ pages'[p].cells = s
         /\ \A x \in BookPages : pages'[x].made = pages[x].made
         /\ \A x \in BookPages \ {p} : pages'[x] = pages[x]
         /\ Ahead(editor[e])
         /\ (Calm' => Calm) /\ (Steady' => Steady)
         /\ \A x : x \notin mishaps' => x \notin mishaps
         /\ Calm' => pages[p].cells = editor[e].text
<1>1. /\ pages' \in Books /\ pages'[p].cells = s
      /\ \A x \in BookPages : pages'[x].made = pages[x].made
      /\ \A x \in BookPages \ {p} : pages'[x] = pages[x]
  BY PageSet DEF BookInv, BookTyped
<1>3. (Calm' => Calm) /\ (Steady' => Steady) /\ (Calm' => pages[p].cells = editor[e].text)
  BY DEF Calm, Steady
<1>4. Calm' => Grown(editor[e])
  BY <1>1, <1>3 DEF Grown
<1>5. Ahead(editor[e])
  BY <1>4 DEF Ahead, BookInv, BookTyped
<1> QED
  BY <1>1, <1>3, <1>5

LEMMA SetCellPinnedKeeps == ASSUME BookInv, NEW e \in Editors, SetCellPinned(e) PROVE BookInv'
<1>1. /\ editor[e].op = "pin" /\ editor[e].pc = "pin"
      /\ pages' = [pages EXCEPT ![editor[e].page].cells = editor[e].text]
      /\ mishaps' = mishaps \cup (IF pages[editor[e].page].cells # editor[e].text
                                 THEN {"text"} ELSE {})
      /\ editor' = [editor EXCEPT ![e].pc = "trigger", ![e].text = {}]
      /\ UNCHANGED <<meta, toc, pending, lock, pusher, space, pushFaults, cellsWritten>>
  BY DEF SetCellPinned, On, asked, Clobbers
<1>2. /\ editor[e] \in EditorStates /\ OpFits(editor[e]) /\ CellFits(editor[e])
      /\ editor[e].page \in BookPages /\ editor[e].text \in SUBSET WrittenCells
  BY <1>1, EditorOf DEF EditorFits, OpFits, EditorStates
<1>3. PICK j : j = [editor[e] EXCEPT !.pc = "trigger", !.text = {}]
  OBVIOUS
<1>4. /\ j \in EditorStates /\ j.op = "pin" /\ j.pc = "trigger" /\ j.page = editor[e].page
      /\ j.began = editor[e].began
  BY <1>1, <1>2, <1>3 DEF EditorStates, CellStages
<1>5. editor' = [editor EXCEPT ![e] = j]
  BY <1>1, <1>3 DEF BookInv, BookTyped
<1>6. /\ pages' \in Books
      /\ \A x \in BookPages : pages'[x].made = pages[x].made
      /\ Ahead(editor[e]) /\ (Calm' => Calm) /\ (Steady' => Steady)
      /\ \A x : x \notin mishaps' => x \notin mishaps
  <2>1. PICK p \in BookPages, s \in SUBSET WrittenCells : p = editor[e].page /\ s = editor[e].text
    BY <1>2
  <2>2. \A n \in s : \E m \in editor[e].text : m.cell = n.cell /\ (n.local => m.local)
    BY <2>1
  <2>3. pages' = [pages EXCEPT ![p].cells = s]
    BY <1>1, <2>1
  <2>4. mishaps' = mishaps \cup (IF pages[p].cells # editor[e].text THEN {"text"} ELSE {})
    BY <1>1, <2>1
  <2>5. UNCHANGED <<meta, pushFaults, cellsWritten>>
    BY <1>1
  <2> HIDE <1>1, <1>2, <2>1
  <2> QED
    BY <2>2, <2>3, <2>4, <2>5, PageWritten
<1>7. EditorFits(j)'
  <2>1. OpFits(j)' /\ MetaFits(j)'
    BY <1>2, <1>4 DEF OpFits, MetaFits, Active
  <2>2. CellFits(j)'
    BY <1>1, <1>2, <1>4, <1>6 DEF CellFits, Resolving, Early
  <2> QED
    BY <2>1, <2>2 DEF EditorFits
<1>8. /\ ~Active(j) /\ ~Committed(j) /\ ~Published(j) /\ ~Committed(editor[e]) /\ Asks(j) /\ ~Early(j)
      /\ \A p \in BookPages : ~Listing(editor[e], p)
  BY <1>1, <1>4 DEF Active, Committed, Published, Asks, Listing, Early
<1>9. meta' \in Metas /\ toc' \subseteq BookPages
  BY <1>1 DEF BookInv, BookTyped
<1> QED
  BY <1>1, <1>4, <1>5, <1>6, <1>7, <1>8, <1>9, EditorMoves

----------------------------------------------------------------------------
\* A publication.

\* Steps of a publication that touch nothing else.
LEMMA PublicationGoes ==
  ASSUME BookInv, NEW e \in Editors, NEW j \in EditorStates,
         editor[e].op = "publish", editor[e].pc \in PreparingStages \cup {"revert"},
         editor' = [editor EXCEPT ![e] = j], EditorFits(j),
         j.op = "publish", j.pc \in PreparingStages \cup {"reverted"},
         editor[e].pc \in PreparingStages => j.pc \in PreparingStages,
         j.began = editor[e].began,
         UNCHANGED <<meta, pages, toc, pending, lock, pusher, space, mishaps, pushFaults, asked>>
  PROVE  BookInv'
<1>1. cellsWritten' = cellsWritten /\ cellsWritten \subseteq Cells
  BY DEF asked, BookInv, BookTyped
<1>2. EditorFits(j)'
  BY <1>1, BookStays DEF EditorFits
<1>3. /\ Active(editor[e]) /\ ~Committed(j) /\ ~Published(j) /\ ~Committed(editor[e]) /\ ~Early(j)
      /\ Asks(editor[e]) \/ Preparing(editor[e]) => Asks(j) \/ Preparing(j)
      /\ \A p \in BookPages : ~Listing(editor[e], p)
  BY DEF Active, Committed, Published, Early, Asks, Preparing, Listing, PreparingStages
<1> QED
  BY <1>1, <1>2, <1>3, QuietMoves

LEMMA BeginPublishKeeps == ASSUME BookInv, NEW e \in Editors, BeginPublish(e) PROVE BookInv'
<1>1. /\ Idle(e)
      /\ \A o \in Editors : Idle(o) \/ editor[o].op # "publish"
      /\ editor' = [editor EXCEPT ![e] = [Resting EXCEPT !.op = "publish", !.pc = "begin",
                                                         !.began = AllCells]]
      /\ UNCHANGED <<meta, pages, toc, pending, lock, pusher, space, mishaps, pushFaults,
                     cellsWritten>>
  BY DEF BeginPublish
<1>2. PICK j : j = [Resting EXCEPT !.op = "publish", !.pc = "begin", !.began = AllCells]
  OBVIOUS
<1>3. j.op = "publish" /\ j.pc = "begin" /\ j.began = AllCells
  BY <1>2 DEF Resting
<1>4. j \in EditorStates
  <2>1. AllCells \in SUBSET Cells
    BY DEF AllCells, BookInv, BookTyped, Books, WrittenCells
  <2> QED
    BY <1>2, <2>1, EmptyTyped DEF EditorStates, PublishStages, PreparingStages
<1>5. EditorFits(j)
  <2>1. OpFits(j) /\ MetaFits(j)
    BY <1>3 DEF OpFits, MetaFits, PublishStages, PreparingStages
  <2>2. CellFits(j)
    BY <1>3 DEF CellFits, Resolving, Early, BookInv, CellsFit
  <2> QED
    BY <2>1, <2>2 DEF EditorFits
<1>6. EditorFits(j)'
  BY <1>1, <1>5, BookStays DEF EditorFits
<1>7. /\ Preparing(j) /\ ~Committed(j) /\ ~Published(j) /\ ~Early(j)
      /\ cellsWritten \subseteq cellsWritten' /\ cellsWritten' \subseteq Cells
      /\ editor' = [editor EXCEPT ![e] = j]
  BY <1>1, <1>2, <1>3 DEF Preparing, PreparingStages, Committed, Published, Early, BookInv, BookTyped
<1>8. \A x \in Editors : ~Active(editor[x])
  BY <1>1, IdleRests DEF Active
<1> QED
  BY <1>1, <1>3, <1>4, <1>6, <1>7, <1>8, IdleRests, QuietMoves

LEMMA PublishReadsMetaKeeps ==
  ASSUME BookInv, NEW e \in Editors, editor[e].op = "publish",
         NEW j, editor' = [editor EXCEPT ![e] = j],
         \/ /\ editor[e].pc = "begin"
            /\ j = [editor[e] EXCEPT !.pc = "began", !.meta = meta, !.seen = meta, !.prior = meta.auto]
         \/ /\ editor[e].pc = "revert"
            /\ j = [editor[e] EXCEPT !.pc = "reverted", !.meta = meta, !.seen = meta]
         \/ /\ editor[e].pc = "promote"
            /\ j = [editor[e] EXCEPT !.pc = "next", !.meta = meta, !.seen = meta, !.todo = meta.known],
         UNCHANGED <<meta, pages, toc, pending, lock, pusher, space, mishaps, pushFaults, asked>>
  PROVE  BookInv'
<1>1. /\ editor[e] \in EditorStates /\ OpFits(editor[e]) /\ MetaFits(editor[e])
      /\ CellFits(editor[e]) /\ meta \in Metas /\ CellsFit
  BY EditorOf DEF EditorFits, BookInv, BookTyped
<1>2. /\ j \in EditorStates /\ j.op = "publish" /\ j.began = editor[e].began
      /\ j.meta = j.seen /\ j.seen = meta
      /\ \/ editor[e].pc = "begin" /\ j.pc = "began"
         \/ editor[e].pc = "revert" /\ j.pc = "reverted"
         \/ editor[e].pc = "promote" /\ j.pc = "next" /\ j.todo = meta.known
  <2>1. CASE editor[e].pc = "begin"
    <3>1. j = [editor[e] EXCEPT !.pc = "began", !.meta = meta, !.seen = meta, !.prior = meta.auto]
      BY <2>1
    <3>2. meta.auto \in BOOLEAN /\ meta.known \subseteq Links
      BY <1>1 DEF Metas
    <3>3. j \in EditorStates
      BY <1>1, <3>1, <3>2 DEF EditorStates, PublishStages, PreparingStages
    <3> QED
      BY <1>1, <2>1, <3>1, <3>3 DEF EditorStates
  <2>2. CASE editor[e].pc = "revert"
    <3>1. j = [editor[e] EXCEPT !.pc = "reverted", !.meta = meta, !.seen = meta]
      BY <2>2
    <3>2. meta.auto \in BOOLEAN /\ meta.known \subseteq Links
      BY <1>1 DEF Metas
    <3>3. j \in EditorStates
      BY <1>1, <3>1, <3>2 DEF EditorStates, PublishStages, PreparingStages
    <3> QED
      BY <1>1, <2>2, <3>1, <3>3 DEF EditorStates
  <2>3. CASE editor[e].pc = "promote"
    <3>1. j = [editor[e] EXCEPT !.pc = "next", !.meta = meta, !.seen = meta, !.todo = meta.known]
      BY <2>3
    <3>2. meta.auto \in BOOLEAN /\ meta.known \subseteq Links
      BY <1>1 DEF Metas
    <3>3. j \in EditorStates
      BY <1>1, <3>1, <3>2 DEF EditorStates, PublishStages, PreparingStages
    <3> QED
      BY <1>1, <2>3, <3>1, <3>3 DEF EditorStates
  <2> QED
    BY <2>1, <2>2, <2>3
<1>3. EditorFits(j)
  <2>1. OpFits(j)
    BY <1>1, <1>2 DEF OpFits, PublishStages, PreparingStages
  <2>2. MetaFits(j)
    BY <1>1, <1>2 DEF MetaFits, Active
  <2>3. CellFits(j)
    <3> SUFFICES ASSUME Calm PROVE CellFits(j)
      BY DEF CellFits
    <3>1. Resolving(j)
      BY <1>1, <1>2 DEF Resolving, CellsFit
    <3> QED
      BY <1>1, <1>2, <3>1 DEF CellFits, Early
  <2> QED
    BY <2>1, <2>2, <2>3 DEF EditorFits
<1>4. /\ editor[e].pc \in PreparingStages \cup {"revert"}
      /\ j.pc \in PreparingStages \cup {"reverted"}
      /\ editor[e].pc \in PreparingStages => j.pc \in PreparingStages
  BY <1>2 DEF PreparingStages
<1> QED
  BY <1>2, <1>3, <1>4, PublicationGoes

\* A local link is promoted: what is still to be rewritten is on some page.
LEMMA PromoteKeeps ==
  ASSUME BookInv, NEW e \in Editors, NEW d \in Links, Promote(e, d)
  PROVE  BookInv'
<1>1. /\ editor[e].op = "publish" /\ editor[e].pc = "next"
      /\ editor' = [editor EXCEPT ![e].pc = "rewrite", ![e].link = d, ![e].todo = @ \ {d},
                                  ![e].meta.placed = @ \cup {d}, ![e].left = BookPages]
      /\ UNCHANGED <<meta, pages, toc, pending, lock, pusher, space, mishaps, pushFaults, asked>>
  BY DEF Promote, On
<1>2. /\ editor[e] \in EditorStates /\ OpFits(editor[e]) /\ MetaFits(editor[e])
      /\ CellFits(editor[e])
  BY EditorOf DEF EditorFits
<1>3. PICK copy : copy = [editor[e].meta EXCEPT !.placed = @ \cup {d}]
  OBVIOUS
<1>4. copy \in Metas /\ copy.known = editor[e].meta.known /\ copy.auto = editor[e].meta.auto
  BY <1>2, <1>3 DEF EditorStates, Metas
<1>5. PICK j : j = [editor[e] EXCEPT !.pc = "rewrite", !.link = d, !.todo = @ \ {d},
                                     !.meta.placed = @ \cup {d}, !.left = BookPages]
  OBVIOUS
<1>6. /\ j \in EditorStates /\ j.op = "publish" /\ j.pc = "rewrite" /\ j.link = d
      /\ j.todo = editor[e].todo \ {d} /\ j.left = BookPages /\ j.began = editor[e].began
      /\ j.skipped = editor[e].skipped /\ j.meta = copy /\ j.seen = editor[e].seen
  <2>1. j = [editor[e] EXCEPT !.pc = "rewrite", !.link = d, !.todo = @ \ {d}, !.meta = copy,
                              !.left = BookPages]
    BY <1>2, <1>3, <1>5 DEF EditorStates
  <2> QED
    BY <1>1, <1>2, <1>4, <2>1 DEF EditorStates, PublishStages, PreparingStages
<1>7. editor' = [editor EXCEPT ![e] = j]
  <2>1. editor \in [Editors -> EditorStates]
    BY DEF BookInv, BookTyped
  <2>2. /\ editor' \in [Editors -> EditorStates] /\ editor'[e] = j
        /\ \A x \in Editors \ {e} : editor'[x] = editor[x]
    BY <1>1, <1>5, <1>6, <2>1
  <2> QED
    BY <1>6, <2>1, <2>2
<1>8. EditorFits(j)
  <2>1. OpFits(j) /\ MetaFits(j)
    BY <1>1, <1>2, <1>4, <1>6 DEF OpFits, MetaFits, Active, PublishStages, PreparingStages
  <2>2. CellFits(j)
    <3> SUFFICES ASSUME Calm PROVE CellFits(j)
      BY DEF CellFits
    <3>1. Resolving(j)
      BY <1>1, <1>2, <1>6 DEF CellFits, Resolving
    <3> QED
      BY <1>1, <1>2, <1>6, <3>1 DEF CellFits, Early
  <2> QED
    BY <2>1, <2>2 DEF EditorFits
<1>9. /\ editor[e].pc \in PreparingStages \cup {"revert"}
      /\ j.pc \in PreparingStages
  BY <1>1, <1>6 DEF PreparingStages
<1> QED
  BY <1>1, <1>6, <1>7, <1>8, <1>9, PublicationGoes

\* What is not promoted is skipped.
LEMMA PromoteFailsKeeps ==
  ASSUME BookInv, NEW e \in Editors, NEW d \in Links, PromoteFails(e, d)
  PROVE  BookInv'
<1>1. PICK gone \in SUBSET Links :
        /\ editor[e].op = "publish" /\ editor[e].pc = "next" /\ pushFaults' = pushFaults + 1
        /\ editor' = [editor EXCEPT ![e].todo = @ \ gone, ![e].skipped = @ \cup gone]
        /\ UNCHANGED <<meta, pages, toc, pending, lock, pusher, space, mishaps, asked>>
  <2>1. editor[e].todo \subseteq Links
    BY EditorOf DEF EditorStates
  <2>2. PICK gone : gone = IF d \in Dashboards THEN {d} ELSE editor[e].todo
    OBVIOUS
  <2>3. gone \in SUBSET Links
    BY <2>1, <2>2
  <2>4. editor' = [editor EXCEPT ![e].todo = @ \ gone, ![e].skipped = @ \cup gone]
    BY <2>2 DEF PromoteFails
  <2> QED
    BY <2>3, <2>4 DEF PromoteFails, On
<1>2. /\ editor[e] \in EditorStates /\ OpFits(editor[e]) /\ MetaFits(editor[e])
      /\ CellFits(editor[e]) /\ pushFaults \in Nat
  BY EditorOf DEF EditorFits, BookInv, BookTyped
<1>3. PICK j : j = [editor[e] EXCEPT !.todo = @ \ gone, !.skipped = @ \cup gone]
  OBVIOUS
<1>4. /\ j \in EditorStates /\ j.op = "publish" /\ j.pc = "next"
      /\ j.todo = editor[e].todo \ gone /\ j.began = editor[e].began
      /\ j.skipped = editor[e].skipped \cup gone /\ j.meta = editor[e].meta
      /\ j.seen = editor[e].seen
  BY <1>1, <1>2, <1>3 DEF EditorStates
<1>5. editor' = [editor EXCEPT ![e] = j]
  BY <1>1, <1>3
<1>6. ~Steady' /\ (Calm' <=> Calm) /\ Ahead(editor[e])
  <2>1. ~Steady' /\ (Calm' <=> Calm)
    BY <1>1, <1>2 DEF Steady, Calm
  <2>2. Grown(editor[e])
    BY <1>1 DEF Grown
  <2> QED
    BY <1>1, <1>2, <2>1, <2>2 DEF Ahead, BookInv, BookTyped, asked
<1>7. EditorFits(j)'
  <2>1. OpFits(j)' /\ MetaFits(j)'
    BY <1>1, <1>2, <1>4, <1>6 DEF OpFits, MetaFits, PublishStages, PreparingStages
  <2>2. CellFits(j)'
    <3> SUFFICES ASSUME Calm' PROVE CellFits(j)'
      BY DEF CellFits
    <3>1. Resolving(j)'
      BY <1>1, <1>2, <1>4, <1>6 DEF CellFits, Resolving
    <3> QED
      BY <1>1, <1>2, <1>4, <1>6, <3>1 DEF CellFits, Early, asked
  <2> QED
    BY <2>1, <2>2 DEF EditorFits
<1>8. /\ Active(editor[e]) /\ ~Committed(j) /\ ~Published(j) /\ ~Early(j)
      /\ \A p \in BookPages : ~Listing(editor[e], p)
  BY <1>1, <1>4 DEF Active, Committed, Published, Early, Listing
<1>9. meta' \in Metas /\ toc' \subseteq BookPages /\ pages' \in Books
  BY <1>1 DEF BookInv, BookTyped
<1> QED
  BY <1>1, <1>4, <1>5, <1>6, <1>7, <1>8, <1>9, EditorMoves

\* The pages are searched for the link one by one.
LEMMA RewriteReadsKeeps ==
  ASSUME BookInv, NEW e \in Editors, NEW p \in BookPages, RewriteReads(e, p)
  PROVE  BookInv'
<1>1. PICK next, text : /\ next = IF Names(e, p) THEN "replace" ELSE "rewrite"
                        /\ text = IF Names(e, p) THEN pages[p].cells ELSE {}
  OBVIOUS
<1>2. /\ editor[e].op = "publish" /\ editor[e].pc = "rewrite" /\ p \in editor[e].left
      /\ UNCHANGED <<meta, pages, toc, pending, lock, pusher, space, mishaps, pushFaults, asked>>
      /\ next \in {"replace", "rewrite"} /\ text \in SUBSET WrittenCells
      /\ next = "rewrite" => ~Names(e, p)
  <2>1. pages[p].cells \in SUBSET WrittenCells
    BY DEF BookInv, BookTyped, Books
  <2>2. /\ editor[e].op = "publish" /\ editor[e].pc = "rewrite" /\ p \in editor[e].left
        /\ UNCHANGED <<meta, pages, toc, pending, lock, pusher, space, mishaps, pushFaults, asked>>
    BY DEF RewriteReads, On
  <2> QED
    BY <1>1, <2>1, <2>2
<1>3. editor' = [editor EXCEPT ![e].left = @ \ {p}, ![e].pc = next, ![e].page = p,
                               ![e].text = text]
  <2>1. editor \in [Editors -> EditorStates]
    BY DEF BookInv, BookTyped
  <2>2. CASE Names(e, p)
    BY <1>1, <2>2 DEF RewriteReads
  <2>3. CASE ~Names(e, p)
    BY <1>1, <1>2, <2>1, <2>3 DEF RewriteReads, EditorStates
  <2> QED
    BY <2>2, <2>3
<1>4. /\ editor[e] \in EditorStates /\ OpFits(editor[e]) /\ MetaFits(editor[e])
      /\ CellFits(editor[e])
  BY EditorOf DEF EditorFits
<1>5. PICK j : j = [editor[e] EXCEPT !.left = @ \ {p}, !.pc = next, !.page = p, !.text = text]
  OBVIOUS
<1>6. /\ j \in EditorStates /\ j.op = "publish" /\ j.pc = next /\ j.link = editor[e].link
      /\ j.todo = editor[e].todo /\ j.left = editor[e].left \ {p} /\ j.began = editor[e].began
      /\ j.skipped = editor[e].skipped /\ j.meta = editor[e].meta /\ j.seen = editor[e].seen
      /\ j.page = p
  BY <1>1, <1>2, <1>3, <1>4, <1>5 DEF EditorStates, PublishStages, PreparingStages
<1>7. editor' = [editor EXCEPT ![e] = j]
  BY <1>1, <1>2, <1>3, <1>5
<1>8. EditorFits(j)
  <2>1. OpFits(j) /\ MetaFits(j)
    BY <1>1, <1>2, <1>3, <1>4, <1>6 DEF OpFits, MetaFits, Active, PublishStages, PreparingStages
  <2>2. CellFits(j)
    <3> SUFFICES ASSUME Calm PROVE CellFits(j)
      BY DEF CellFits
    <3>1. next = "rewrite" => \A n \in pages[p].cells : ~(n.local /\ LinkOf[n.cell] = editor[e].link)
      BY <1>1, <1>2, <1>3 DEF Names
    <3>2. Resolving(j)
      BY <1>1, <1>2, <1>3, <1>4, <1>6, <3>1 DEF CellFits, Resolving
    <3> QED
      BY <1>1, <1>2, <1>3, <1>4, <1>6, <3>2 DEF CellFits, Early
  <2> QED
    BY <2>1, <2>2 DEF EditorFits
<1>9. editor[e].pc \in PreparingStages \cup {"revert"} /\ j.pc \in PreparingStages
  BY <1>1, <1>2, <1>3, <1>6 DEF PreparingStages
<1> QED
  BY <1>1, <1>2, <1>3, <1>6, <1>7, <1>8, <1>9, PublicationGoes

LEMMA RewriteEndsKeeps == ASSUME BookInv, NEW e \in Editors, RewriteEnds(e) PROVE BookInv'
<1>1. /\ editor[e].op = "publish" /\ editor[e].pc = "rewrite" /\ editor[e].left = {}
      /\ editor' = [editor EXCEPT ![e].pc = "next", ![e].link = NoLink, ![e].page = NoPage]
      /\ UNCHANGED <<meta, pages, toc, pending, lock, pusher, space, mishaps, pushFaults, asked>>
  BY DEF RewriteEnds, On
<1>2. /\ editor[e] \in EditorStates /\ OpFits(editor[e]) /\ MetaFits(editor[e])
      /\ CellFits(editor[e])
  BY EditorOf DEF EditorFits
<1>3. PICK j : j = [editor[e] EXCEPT !.pc = "next", !.link = NoLink, !.page = NoPage]
  OBVIOUS
<1>4. /\ j \in EditorStates /\ j.op = "publish" /\ j.pc = "next"
      /\ j.todo = editor[e].todo /\ j.began = editor[e].began
      /\ j.skipped = editor[e].skipped /\ j.meta = editor[e].meta /\ j.seen = editor[e].seen
  BY <1>1, <1>2, <1>3 DEF EditorStates, PublishStages, PreparingStages
<1>5. editor' = [editor EXCEPT ![e] = j]
  BY <1>1, <1>3
<1>6. EditorFits(j)
  <2>1. OpFits(j) /\ MetaFits(j)
    BY <1>1, <1>2, <1>4 DEF OpFits, MetaFits, Active, PublishStages, PreparingStages
  <2>2. CellFits(j)
    <3> SUFFICES ASSUME Calm PROVE CellFits(j)
      BY DEF CellFits
    <3>1. Resolving(j)
      BY <1>1, <1>2, <1>4 DEF CellFits, Resolving
    <3> QED
      BY <1>1, <1>2, <1>4, <3>1 DEF CellFits, Early
  <2> QED
    BY <2>1, <2>2 DEF EditorFits
<1>7. editor[e].pc \in PreparingStages \cup {"revert"} /\ j.pc \in PreparingStages
  BY <1>1, <1>4 DEF PreparingStages
<1> QED
  BY <1>1, <1>4, <1>5, <1>6, <1>7, PublicationGoes

\* The cells that name the link lose it on one page.
LEMMA RewriteReplacesKeeps == ASSUME BookInv, NEW e \in Editors, RewriteReplaces(e) PROVE BookInv'
<1>1. /\ editor[e].op = "publish" /\ editor[e].pc = "replace"
      /\ pages' = [pages EXCEPT ![editor[e].page].cells = {Replaced(e, n) : n \in editor[e].text}]
      /\ mishaps' = mishaps \cup (IF pages[editor[e].page].cells # editor[e].text
                                 THEN {"text"} ELSE {})
      /\ editor' = [editor EXCEPT ![e].pc = "rewrite", ![e].text = {}]
      /\ UNCHANGED <<meta, toc, pending, lock, pusher, space, pushFaults, cellsWritten>>
  BY DEF RewriteReplaces, On, Clobbers, asked
<1>2. /\ editor[e] \in EditorStates /\ OpFits(editor[e]) /\ MetaFits(editor[e])
      /\ CellFits(editor[e]) /\ editor[e].page \in BookPages
      /\ editor[e].text \in SUBSET WrittenCells
  BY <1>1, EditorOf DEF EditorFits, OpFits, EditorStates
<1>3. PICK j : j = [editor[e] EXCEPT !.pc = "rewrite", !.text = {}]
  OBVIOUS
<1>4. /\ j \in EditorStates /\ j.op = "publish" /\ j.pc = "rewrite" /\ j.link = editor[e].link
      /\ j.todo = editor[e].todo /\ j.left = editor[e].left /\ j.began = editor[e].began
      /\ j.skipped = editor[e].skipped /\ j.meta = editor[e].meta /\ j.seen = editor[e].seen
  BY <1>1, <1>2, <1>3 DEF EditorStates, PublishStages, PreparingStages
<1>5. editor' = [editor EXCEPT ![e] = j]
  BY <1>1, <1>3 DEF BookInv, BookTyped
<1>6. \A n \in WrittenCells : /\ Replaced(e, n) \in WrittenCells /\ Replaced(e, n).cell = n.cell
                              /\ Replaced(e, n).local => n.local
                              /\ Replaced(e, n).local => LinkOf[n.cell] # editor[e].link
  BY DEF Replaced, WrittenCells
<1>7. PICK p \in BookPages, s \in SUBSET WrittenCells :
        p = editor[e].page /\ s = {Replaced(e, n) : n \in editor[e].text}
  <2>1. {Replaced(e, n) : n \in editor[e].text} \subseteq WrittenCells
    BY <1>2, <1>6
  <2> QED
    BY <1>2, <2>1
<1>8. /\ pages' \in Books /\ pages'[p].cells = s
      /\ \A x \in BookPages : pages'[x].made = pages[x].made
      /\ \A x \in BookPages \ {p} : pages'[x] = pages[x]
      /\ Ahead(editor[e]) /\ (Calm' => Calm) /\ (Steady' => Steady)
      /\ \A x : x \notin mishaps' => x \notin mishaps
      /\ Calm' => pages[p].cells = editor[e].text
  <2>1. \A n \in s : \E m \in editor[e].text : m.cell = n.cell /\ (n.local => m.local)
    <3> SUFFICES ASSUME NEW n \in s
                 PROVE  \E m \in editor[e].text : m.cell = n.cell /\ (n.local => m.local)
      OBVIOUS
    <3>1. PICK m \in editor[e].text : n = Replaced(e, m)
      BY <1>7
    <3>2. m \in WrittenCells
      BY <1>2
    <3> QED
      BY <1>6, <3>1, <3>2
  <2>2. pages' = [pages EXCEPT ![p].cells = s]
    BY <1>1, <1>7
  <2>3. mishaps' = mishaps \cup (IF pages[p].cells # editor[e].text THEN {"text"} ELSE {})
    BY <1>1, <1>7
  <2>5. p \in BookPages /\ s \in SUBSET WrittenCells
    OBVIOUS
  <2>6. /\ pages' \in Books /\ pages'[p].cells = s
        /\ \A x \in BookPages : pages'[x].made = pages[x].made
        /\ \A x \in BookPages \ {p} : pages'[x] = pages[x]
    BY <2>2, <2>5, PageSet DEF BookInv, BookTyped
  <2>7. (Calm' => pages[p].cells = editor[e].text) /\ (Calm' => Calm) /\ (Steady' => Steady)
    BY <1>1, <2>3 DEF Calm, Steady
  <2>8. Calm' => Grown(editor[e])
    BY <2>1, <2>6, <2>7 DEF Grown
  <2>9. Ahead(editor[e])
    BY <1>1, <2>3, <2>8 DEF Ahead, BookInv, BookTyped
  <2> QED
    BY <2>3, <2>6, <2>7, <2>9
<1>9. EditorFits(j)'
  <2>1. OpFits(j)' /\ MetaFits(j)'
    BY <1>1, <1>2, <1>4, <1>8 DEF OpFits, MetaFits, Active, PublishStages, PreparingStages
  <2>2. CellFits(j)'
    <3> SUFFICES ASSUME Calm' PROVE CellFits(j)'
      BY DEF CellFits
    <3>1. Resolving(j)'
      <4> SUFFICES ASSUME NEW q \in BookPages, NEW n \in pages'[q].cells, n.local, n.cell \in j.began
                   PROVE  \/ LinkOf[n.cell] \in j.skipped \cup j.todo
                          \/ LinkOf[n.cell] = j.link /\ q \in j.left
        BY <1>4 DEF Resolving
      <4>1. CASE q = p
        <5>1. PICK m \in pages[p].cells : m \in WrittenCells /\ n = Replaced(e, m)
          BY <1>2, <1>7, <1>8, <4>1
        <5>2. m.cell = n.cell /\ m.local /\ LinkOf[n.cell] # editor[e].link
          <6>1. Replaced(e, m).cell = m.cell /\ (Replaced(e, m).local => m.local)
                /\ (Replaced(e, m).local => LinkOf[m.cell] # editor[e].link)
            BY <1>6, <5>1
          <6> QED
            BY <5>1, <6>1
        <5> QED
          BY <1>1, <1>2, <1>4, <1>8, <5>2 DEF CellFits, Resolving
      <4>2. CASE q # p
        <5>1. n \in pages[q].cells
          BY <1>8, <4>2
        <5> QED
          BY <1>1, <1>2, <1>4, <1>7, <1>8, <4>2, <5>1 DEF CellFits, Resolving
      <4> QED
        BY <4>1, <4>2
    <3> QED
      BY <1>1, <1>2, <1>4, <1>8, <3>1 DEF CellFits, Early
  <2> QED
    BY <2>1, <2>2 DEF EditorFits
<1>10. /\ Active(editor[e]) /\ ~Committed(j) /\ ~Published(j) /\ ~Early(j) /\ Preparing(j)
       /\ ~Committed(editor[e]) /\ \A x \in BookPages : ~Listing(editor[e], x)
  BY <1>1, <1>4 DEF Active, Committed, Published, Early, Listing, Preparing, PreparingStages
<1>11. meta' \in Metas /\ toc' \subseteq BookPages
  BY <1>1 DEF BookInv, BookTyped
<1> QED
  BY <1>1, <1>4, <1>5, <1>8, <1>9, <1>10, <1>11, EditorMoves

\* A publication writes metadata.
LEMMA PublishWritesKeep ==
  ASSUME BookInv, NEW e \in Editors, NEW new, NEW next, meta' = new,
         Clobbers(meta # editor[e].seen, "meta"), editor[e].op = "publish",
         \/ editor[e].pc = "began" /\ new = [editor[e].meta EXCEPT !.auto = TRUE] /\ next = "promote"
         \/ editor[e].pc = "next" /\ editor[e].todo = {} /\ new = editor[e].meta /\ next = "push"
         \/ /\ editor[e].pc = "reverted" /\ new = [editor[e].meta EXCEPT !.auto = editor[e].prior]
            /\ next = "failed",
         editor' = [editor EXCEPT ![e].pc = next, ![e].meta = NoMeta, ![e].seen = NoMeta],
         UNCHANGED <<pages, toc, pending, lock, pusher, space, pushFaults, asked>>
  PROVE  BookInv'
<1>1. /\ editor[e] \in EditorStates /\ OpFits(editor[e]) /\ MetaFits(editor[e])
      /\ CellFits(editor[e]) /\ pushFaults \in Nat
      /\ editor[e].meta \in Metas /\ editor[e].seen \in Metas /\ editor[e].prior \in BOOLEAN
  BY EditorOf DEF EditorFits, BookInv, BookTyped, EditorStates
<1>2. /\ editor[e].meta.known = editor[e].seen.known
      /\ editor[e].pc = "next" => editor[e].meta.auto = editor[e].seen.auto
      /\ editor[e].pc = "reverted" => ~Steady
      /\ next \in {"promote", "push", "failed"}
      /\ Steady => (editor[e].pc # "began" => meta.auto)
  BY <1>1 DEF MetaFits, OpFits, Steady, Active
<1>3. /\ new \in Metas /\ new.known = editor[e].seen.known
      /\ next = "promote" => new.auto = TRUE
      /\ next = "push" => new.auto = editor[e].seen.auto
  <2>1. CASE editor[e].pc = "began"
    BY <1>1, <1>2, <2>1 DEF Metas
  <2>2. CASE editor[e].pc = "next"
    BY <1>1, <1>2, <2>2
  <2>3. CASE editor[e].pc = "reverted"
    BY <1>1, <1>2, <2>3 DEF Metas
  <2> QED
    BY <2>1, <2>2, <2>3
<1>4. PICK j : j = [editor[e] EXCEPT !.pc = next, !.meta = NoMeta, !.seen = NoMeta]
  OBVIOUS
<1>5. /\ j \in EditorStates /\ j.op = "publish" /\ j.pc = next /\ j.todo = editor[e].todo
      /\ j.began = editor[e].began /\ j.skipped = editor[e].skipped
      /\ j.meta = NoMeta /\ j.seen = NoMeta
  BY <1>1, <1>2, <1>4, EmptyTyped DEF EditorStates, PublishStages, PreparingStages
<1>6. editor' = [editor EXCEPT ![e] = j]
  BY <1>4
<1>7. Steady => (editor[e].seen.auto => new.auto)
  BY <1>2, <1>3
<1>8. /\ Ahead(editor[e]) /\ (Calm' \/ Steady' => meta = editor[e].seen)
      /\ (Calm' => Calm) /\ (Steady' => Steady)
      /\ \A x : x \notin mishaps' => x \notin mishaps
  <2>1. UNCHANGED <<pages, pushFaults, cellsWritten>>
    BY DEF asked
  <2>2. editor[e].seen.known \subseteq new.known
    BY <1>3
  <2> QED
    BY <1>3, <1>7, <2>1, <2>2, MetaAhead
<1>9. EditorFits(j)'
  <2>1. OpFits(j)'
    BY <1>1, <1>2, <1>5 DEF OpFits, PublishStages, PreparingStages
  <2>2. MetaFits(j)'
    BY <1>1, <1>2, <1>3, <1>5, <1>8 DEF MetaFits, Active
  <2>3. CellFits(j)'
    <3> SUFFICES ASSUME Calm' PROVE CellFits(j)'
      BY DEF CellFits
    <3>1. Resolving(j)'
      BY <1>1, <1>5, <1>8 DEF CellFits, Resolving
    <3> QED
      BY <1>1, <1>5, <1>8, <3>1 DEF CellFits, Early, asked
  <2> QED
    BY <2>1, <2>2, <2>3 DEF EditorFits
<1>10. /\ Active(editor[e]) /\ ~Committed(j) /\ ~Published(j) /\ ~Early(j) /\ ~Committed(editor[e])
       /\ Preparing(j) \/ ~Steady'
       /\ \A p \in BookPages : ~Listing(editor[e], p)
  BY <1>2, <1>5, <1>8 DEF Active, Committed, Published, Early, Listing, Preparing, PreparingStages
<1>11. meta' \in Metas /\ toc' \subseteq BookPages /\ pages' \in Books
  BY <1>3 DEF BookInv, BookTyped
<1> QED
  BY <1>5, <1>6, <1>8, <1>9, <1>10, <1>11, EditorMoves

LEMMA PublishMetaKeeps == ASSUME BookInv, NEW e \in Editors, PublishMeta(e) \/ BeginPromote(e)
                          PROVE BookInv'
<1>1. CASE WriteMeta(e, {"publish"}, "began", [Copy(e) EXCEPT !.auto = TRUE], "promote")
  <2>1. PICK new, next : new = [editor[e].meta EXCEPT !.auto = TRUE] /\ next = "promote"
    OBVIOUS
  <2>2. /\ meta' = new /\ Clobbers(meta # editor[e].seen, "meta") /\ editor[e].op = "publish"
        /\ editor[e].pc = "began"
        /\ editor' = [editor EXCEPT ![e].pc = next, ![e].meta = NoMeta, ![e].seen = NoMeta]
        /\ UNCHANGED <<pages, toc, pending, lock, pusher, space, pushFaults, asked>>
    BY <1>1, <2>1 DEF WriteMeta, On, Copy
  <2> QED
    BY <2>1, <2>2, PublishWritesKeep
<1>2. CASE editor[e].todo = {} /\ WriteMeta(e, {"publish"}, "next", Copy(e), "push")
  <2>1. PICK new, next : new = editor[e].meta /\ next = "push"
    OBVIOUS
  <2>2. /\ meta' = new /\ Clobbers(meta # editor[e].seen, "meta") /\ editor[e].op = "publish"
        /\ editor[e].pc = "next" /\ editor[e].todo = {}
        /\ editor' = [editor EXCEPT ![e].pc = next, ![e].meta = NoMeta, ![e].seen = NoMeta]
        /\ UNCHANGED <<pages, toc, pending, lock, pusher, space, pushFaults, asked>>
    BY <1>2, <2>1 DEF WriteMeta, On, Copy
  <2> QED
    BY <2>1, <2>2, PublishWritesKeep
<1>3. CASE WriteMeta(e, {"publish"}, "reverted", [Copy(e) EXCEPT !.auto = editor[e].prior], "failed")
  <2>1. PICK new, next : new = [editor[e].meta EXCEPT !.auto = editor[e].prior] /\ next = "failed"
    OBVIOUS
  <2>2. /\ meta' = new /\ Clobbers(meta # editor[e].seen, "meta") /\ editor[e].op = "publish"
        /\ editor[e].pc = "reverted"
        /\ editor' = [editor EXCEPT ![e].pc = next, ![e].meta = NoMeta, ![e].seen = NoMeta]
        /\ UNCHANGED <<pages, toc, pending, lock, pusher, space, pushFaults, asked>>
    BY <1>3, <2>1 DEF WriteMeta, On, Copy
  <2> QED
    BY <2>1, <2>2, PublishWritesKeep
<1>4. CASE ReadMeta(e, {"publish"}, "revert", "reverted")
  <2>1. PICK j : j = [editor[e] EXCEPT !.pc = "reverted", !.meta = meta, !.seen = meta]
    OBVIOUS
  <2>2. /\ editor[e].op = "publish" /\ editor[e].pc = "revert"
        /\ editor' = [editor EXCEPT ![e] = j]
        /\ UNCHANGED <<meta, pages, toc, pending, lock, pusher, space, mishaps, pushFaults, asked>>
    BY <1>4, <2>1 DEF ReadMeta, On, BookInv, BookTyped
  <2> QED
    BY <2>1, <2>2, PublishReadsMetaKeeps
<1>5. CASE BeginPromote(e)
  <2>1. PICK j : j = [editor[e] EXCEPT !.pc = "next", !.meta = meta, !.seen = meta, !.todo = meta.known]
    OBVIOUS
  <2>2. /\ editor[e].op = "publish" /\ editor[e].pc = "promote"
        /\ editor' = [editor EXCEPT ![e] = j]
        /\ UNCHANGED <<meta, pages, toc, pending, lock, pusher, space, mishaps, pushFaults, asked>>
    BY <1>5, <2>1 DEF BeginPromote, On, BookInv, BookTyped
  <2> QED
    BY <2>1, <2>2, PublishReadsMetaKeeps
<1>6. CASE /\ On(e, {"publish"}, "begin")
          /\ editor' = [editor EXCEPT ![e].pc = "began", ![e].meta = meta, ![e].seen = meta,
                                      ![e].prior = meta.auto]
          /\ UNCHANGED <<meta, pages, toc, pending, lock, pusher, space, mishaps, pushFaults, asked>>
  <2>1. PICK j : j = [editor[e] EXCEPT !.pc = "began", !.meta = meta, !.seen = meta, !.prior = meta.auto]
    OBVIOUS
  <2>2. /\ editor[e].op = "publish" /\ editor[e].pc = "begin"
        /\ editor' = [editor EXCEPT ![e] = j]
        /\ UNCHANGED <<meta, pages, toc, pending, lock, pusher, space, mishaps, pushFaults, asked>>
    BY <1>6, <2>1 DEF On, BookInv, BookTyped
  <2> QED
    BY <2>1, <2>2, PublishReadsMetaKeeps
<1> QED
  BY <1>1, <1>2, <1>3, <1>4, <1>5, <1>6 DEF PublishMeta, WriteMeta

LEMMA PublishFailsKeeps == ASSUME BookInv, NEW e \in Editors, PublishFails(e) PROVE BookInv'
<1>1. /\ editor[e].op = "publish" /\ editor[e].pc = "commit" /\ pushFaults' = pushFaults + 1
      /\ editor' = [editor EXCEPT ![e].pc = "revert"]
      /\ UNCHANGED <<meta, pages, toc, pending, lock, pusher, space, mishaps, asked>>
  BY DEF PublishFails, On, To
<1>2. /\ editor[e] \in EditorStates /\ OpFits(editor[e]) /\ MetaFits(editor[e])
      /\ CellFits(editor[e]) /\ pushFaults \in Nat
  BY EditorOf DEF EditorFits, BookInv, BookTyped
<1>3. PICK j : j = [editor[e] EXCEPT !.pc = "revert"]
  OBVIOUS
<1>4. /\ j \in EditorStates /\ j.op = "publish" /\ j.pc = "revert" /\ j.began = editor[e].began
  BY <1>1, <1>2, <1>3 DEF EditorStates, PublishStages, PreparingStages
<1>5. editor' = [editor EXCEPT ![e] = j]
  BY <1>1, <1>3
<1>6. ~Steady' /\ (Calm' <=> Calm) /\ Ahead(editor[e])
  <2>1. ~Steady' /\ (Calm' <=> Calm)
    BY <1>1, <1>2 DEF Steady, Calm
  <2>2. Grown(editor[e])
    BY <1>1 DEF Grown
  <2> QED
    BY <1>1, <1>2, <2>1, <2>2 DEF Ahead, BookInv, BookTyped, asked
<1>7. EditorFits(j)'
  <2>1. OpFits(j)' /\ MetaFits(j)'
    BY <1>1, <1>2, <1>4, <1>6 DEF OpFits, MetaFits, PublishStages, PreparingStages
  <2>2. CellFits(j)'
    BY <1>1, <1>2, <1>4, <1>6 DEF CellFits, Resolving, Early, asked
  <2> QED
    BY <2>1, <2>2 DEF EditorFits
<1>8. /\ Active(editor[e]) /\ ~Committed(j) /\ ~Published(j) /\ ~Early(j)
      /\ \A p \in BookPages : ~Listing(editor[e], p)
  BY <1>1, <1>4 DEF Active, Committed, Published, Early, Listing
<1>9. meta' \in Metas /\ toc' \subseteq BookPages /\ pages' \in Books
  BY <1>1 DEF BookInv, BookTyped
<1> QED
  BY <1>1, <1>4, <1>5, <1>6, <1>7, <1>8, <1>9, EditorMoves

----------------------------------------------------------------------------
\* The pushes.

\* A step that leaves the book alone.
LEMMA BookGoesOn ==
  ASSUME BookInv, NEW e \in Editors, UNCHANGED <<meta, pages, toc, asked>>,
         mishaps \subseteq mishaps', pushFaults' \in Nat, pushFaults <= pushFaults'
  PROVE  /\ Ahead(editor[e])
         /\ meta' \in Metas /\ pages' \in Books /\ toc' \subseteq BookPages
         /\ (Calm' => Calm) /\ (Steady' => Steady)
<1>1. Grown(editor[e])
  BY DEF Grown
<1>2. Ahead(editor[e])
  BY <1>1 DEF Ahead, Steady, BookInv, BookTyped, asked
<1> QED
  BY <1>2, StaysCalm DEF BookInv, BookTyped

LEMMA TriggerAutosyncKeeps == ASSUME BookInv, NEW e \in Editors, TriggerAutosync(e) PROVE BookInv'
<1>1. /\ editor[e].op \in {"cell", "pin"} /\ editor[e].pc = "trigger"
      /\ editor' = [editor EXCEPT ![e] = [Resting EXCEPT !.pc = "done"]]
      /\ UNCHANGED <<meta, pages, toc, lock, space, pushFaults, asked>>
      /\ mishaps \subseteq mishaps' /\ ("index" \notin mishaps' => "index" \notin mishaps)
  BY DEF TriggerAutosync, On, Clobbers
<1>2. PICK j : j = [Resting EXCEPT !.pc = "done"]
  OBVIOUS
<1>3. j \in EditorStates /\ j.op = "none" /\ j.pc = "done" /\ j.began = {}
  <2>1. j.op = "none" /\ j.pc = "done" /\ j.began = {}
    BY <1>2 DEF Resting
  <2> QED
    BY <1>2, <2>1, EmptyTyped DEF EditorStates, PublishStages
<1>4. editor' = [editor EXCEPT ![e] = j]
  BY <1>1, <1>2
<1>5. /\ editor' \in [Editors -> EditorStates] /\ editor'[e] = j
      /\ \A x \in Editors \ {e} : editor'[x] = editor[x]
  BY <1>3, <1>4 DEF BookInv, BookTyped
<1>6. /\ Ahead(editor[e]) /\ (Calm' => Calm) /\ (Steady' => Steady)
  <2>1. pushFaults' \in Nat /\ pushFaults <= pushFaults'
    BY <1>1 DEF BookInv, BookTyped
  <2> QED
    BY <1>1, <2>1, BookGoesOn
<1>7. EditorFits(j)'
  BY <1>3 DEF EditorFits, OpFits, MetaFits, CellFits, Active, Early, Resolving
<1>8. ~Active(j) /\ ~Committed(j) /\ ~Published(j) /\ ~Early(j) /\ ~Committed(editor[e])
      /\ \A p \in BookPages : ~Listing(editor[e], p)
  BY <1>1, <1>3 DEF Active, Committed, Published, Early, Listing
<1>9. EditorsFit' /\ CellsFit' /\ IndexFits'
  <2>1. "index" \notin mishaps' =>
            \A p \in BookPages :
               /\ p \in toc => p \in toc'
               /\ pages'[p].made => pages[p].made \/ Listing(j, p)
               /\ Listing(editor[e], p) => p \in toc' \/ Listing(j, p)
    BY <1>1, <1>8
  <2> QED
    BY <1>3, <1>4, <1>6, <1>7, <1>8, <2>1, EditorsGo
<1>10. \A x \in Editors : /\ Committed(editor'[x]) <=> Committed(editor[x])
                          /\ Published(editor'[x]) => Published(editor[x])
                          /\ Committed(editor'[x]) \/ Published(editor'[x]) => editor'[x] = editor[x]
  BY <1>5, <1>8
<1>11. CASE ~meta.auto
  <2>1. UNCHANGED <<pending, pusher, mishaps>>
    BY <1>11 DEF TriggerAutosync
  <2>2. BookTyped' /\ LockFits'
    BY <1>1, <1>5, <2>1 DEF BookInv, BookTyped, LockFits, asked
  <2>3. PushedFits'
    BY <1>1, <1>6, <1>10, <2>1 DEF BookInv, PushedFits, ResolvedIn
  <2>4. SpaceFits'
    <3> SUFFICES ASSUME Steady' PROVE SpaceFits'
      BY DEF SpaceFits
    <3>1. ~pending /\ \A w \in Pushers : pusher[w].pc = "idle"
      BY <1>6, <1>11 DEF BookInv, SpaceFits
    <3>2. \A x \in Editors : ~Committed(editor[x])
      BY <1>6, <1>11, EditorOf DEF EditorFits, MetaFits, Committed, Active
    <3> QED
      BY <1>1, <1>10, <1>11, <2>1, <3>1, <3>2 DEF SpaceFits
  <2> QED
    BY <1>9, <2>2, <2>3, <2>4 DEF BookInv
<1>12. CASE meta.auto
  <2>1. PICK w \in Pushers : /\ pusher[w].pc = "idle"
                             /\ pusher' = [pusher EXCEPT ![w].pc = "start"]
                             /\ pending' = TRUE
                             /\ Clobbers(\E h \in Pushers : pusher[h].pc = "unlock", "missed")
    BY <1>12 DEF TriggerAutosync
  <2>2. /\ pusher' \in [Pushers -> PusherStates] /\ pusher'[w].pc = "start"
        /\ pusher'[w].text = pusher[w].text
        /\ \A x \in Pushers \ {w} : pusher'[x] = pusher[x]
    BY <2>1 DEF BookInv, BookTyped, PusherStates
  <2>3. BookTyped' /\ LockFits'
    BY <1>1, <1>5, <2>1, <2>2 DEF BookInv, BookTyped, LockFits, asked
  <2>4. \A x \in Pushers : pusher'[x].pc = "commit" => pusher[x].pc = "commit" /\ pusher'[x] = pusher[x]
    BY <2>1, <2>2
  <2>5. PushedFits'
    BY <1>1, <1>6, <1>10, <2>4 DEF BookInv, PushedFits, ResolvedIn
  <2>6. SpaceFits'
    <3> SUFFICES ASSUME Steady' PROVE SpaceFits'
      BY DEF SpaceFits
    <3>1. Owed'
      BY <2>1 DEF Owed
    <3>2. \A h \in Pushers : pusher[h].pc # "unlock"
      BY <2>1 DEF Clobbers, Steady
    <3>3. \A h \in Pushers : pusher'[h].pc # "unlock"
      BY <2>2, <3>2
    <3> QED
      BY <1>1, <1>12, <2>2, <3>1, <3>3 DEF SpaceFits
  <2> QED
    BY <1>9, <2>3, <2>5, <2>6 DEF BookInv
<1> QED
  BY <1>11, <1>12

LEMMA PublishReadsKeeps == ASSUME BookInv, NEW e \in Editors, PublishReads(e) PROVE BookInv'
<1>1. /\ editor[e].op = "publish" /\ editor[e].pc = "push"
      /\ editor' = [editor EXCEPT ![e].pc = "commit", ![e].shot = pages]
      /\ UNCHANGED <<meta, pages, toc, pending, lock, pusher, space, mishaps, pushFaults, asked>>
  BY DEF PublishReads, On
<1>2. /\ editor[e] \in EditorStates /\ OpFits(editor[e]) /\ MetaFits(editor[e])
      /\ CellFits(editor[e]) /\ pages \in Books
  BY EditorOf DEF EditorFits, BookInv, BookTyped
<1>3. PICK j : j = [editor[e] EXCEPT !.pc = "commit", !.shot = pages]
  OBVIOUS
<1>4. /\ j \in EditorStates /\ j.op = "publish" /\ j.pc = "commit" /\ j.todo = editor[e].todo
      /\ j.began = editor[e].began /\ j.skipped = editor[e].skipped
      /\ j.meta = editor[e].meta /\ j.seen = editor[e].seen /\ j.shot = pages
  BY <1>1, <1>2, <1>3 DEF EditorStates, PublishStages, PreparingStages
<1>5. editor' = [editor EXCEPT ![e] = j]
  BY <1>1, <1>2, <1>3 DEF BookInv, BookTyped
<1>6. /\ editor' \in [Editors -> EditorStates] /\ editor'[e] = j
      /\ \A x \in Editors \ {e} : editor'[x] = editor[x]
  BY <1>4, <1>5 DEF BookInv, BookTyped
<1>7. /\ Ahead(editor[e]) /\ (Calm' => Calm) /\ (Steady' => Steady)
  <2>1. pushFaults' \in Nat /\ pushFaults <= pushFaults' /\ mishaps \subseteq mishaps'
    BY <1>1 DEF BookInv, BookTyped
  <2> QED
    BY <1>1, <2>1, BookGoesOn
<1>8. EditorFits(j)
  <2>1. OpFits(j) /\ MetaFits(j)
    BY <1>1, <1>2, <1>4 DEF OpFits, MetaFits, Active, PublishStages, PreparingStages
  <2>2. CellFits(j)
    BY <1>1, <1>2, <1>4 DEF CellFits, Resolving, Early
  <2> QED
    BY <2>1, <2>2 DEF EditorFits
<1>9. Active(editor[e]) /\ ~Early(j) /\ \A p \in BookPages : ~Listing(editor[e], p)
  BY <1>1, <1>4 DEF Active, Early, Listing
<1>10. EditorsFit' /\ CellsFit' /\ IndexFits'
  <2>1. EditorFits(j)'
    BY <1>1, <1>8, BookStays DEF EditorFits, asked
  <2> QED
    BY <1>1, <1>4, <1>5, <1>7, <1>9, <2>1, EditorsGo
<1>11. \A x \in Editors \ {e} : ~Committed(editor[x])
  BY <1>9 DEF BookInv, EditorsFit, Active, Committed
<1>12. BookTyped' /\ LockFits'
  BY <1>1, <1>6 DEF BookInv, BookTyped, LockFits, asked
<1>13. PushedFits'
  <2> SUFFICES ASSUME Calm' PROVE PushedFits'
    BY DEF PushedFits
  <2>1. ResolvedIn(j, pages)
    BY <1>1, <1>2, <1>4, <1>7 DEF CellFits, Resolving, OpFits, ResolvedIn
  <2>2. ASSUME NEW x \in Editors, Published(editor[x]) PROVE ResolvedIn(editor[x], pages)
    BY <1>7, <2>2, EditorOf DEF EditorFits, CellFits, Resolving, OpFits, ResolvedIn, Published
  <2>3. \A x \in Editors : Published(editor'[x]) => x # e /\ editor'[x] = editor[x]
    BY <1>4, <1>6 DEF Published
  <2>4. \A x \in Editors : Committed(editor'[x]) => x = e
    BY <1>6, <1>11
  <2> QED
    BY <1>1, <1>4, <1>6, <1>7, <2>1, <2>2, <2>3, <2>4 DEF BookInv, PushedFits, ResolvedIn
<1>14. SpaceFits'
  <2> SUFFICES ASSUME Steady' PROVE SpaceFits'
    BY DEF SpaceFits
  <2>1. Committed(j) /\ j.shot = pages
    BY <1>4 DEF Committed
  <2>2. PublishHas'
    BY <1>1, <1>6, <2>1 DEF PublishHas
  <2>3. \A x \in Editors : Committed(editor'[x]) => editor'[x].shot = pages
    BY <1>6, <1>11, <2>1
  <2> QED
    BY <1>1, <1>7, <2>2, <2>3 DEF SpaceFits, BookInv
<1> QED
  BY <1>10, <1>12, <1>13, <1>14 DEF BookInv

LEMMA PublishPushesKeeps == ASSUME BookInv, NEW e \in Editors, PublishPushes(e) PROVE BookInv'
<1>1. /\ editor[e].op = "publish" /\ editor[e].pc = "commit" /\ space' = editor[e].shot
      /\ editor' = [editor EXCEPT ![e] = [Resting EXCEPT !.op = "publish", !.pc = "done",
                                           !.began = editor[e].began, !.skipped = editor[e].skipped]]
      /\ mishaps' = mishaps \cup (IF Committing # {} THEN {"crossed"} ELSE {})
      /\ UNCHANGED <<meta, pages, toc, pending, lock, pusher, pushFaults, asked>>
  BY DEF PublishPushes, On, Clobbers
<1>2. /\ editor[e] \in EditorStates /\ OpFits(editor[e]) /\ CellFits(editor[e])
  BY EditorOf DEF EditorFits
<1>3. PICK j : j = [Resting EXCEPT !.op = "publish", !.pc = "done", !.began = editor[e].began,
                                   !.skipped = editor[e].skipped]
  OBVIOUS
<1>4. /\ j \in EditorStates /\ j.op = "publish" /\ j.pc = "done" /\ j.todo = {}
      /\ j.began = editor[e].began /\ j.skipped = editor[e].skipped
  <2>1. /\ j.op = "publish" /\ j.pc = "done" /\ j.todo = {}
        /\ j.began = editor[e].began /\ j.skipped = editor[e].skipped
    BY <1>3 DEF Resting
  <2> QED
    BY <1>2, <1>3, <2>1, EmptyTyped DEF EditorStates, PublishStages
<1>5. editor' = [editor EXCEPT ![e] = j]
  BY <1>1, <1>3
<1>6. /\ editor' \in [Editors -> EditorStates] /\ editor'[e] = j
      /\ \A x \in Editors \ {e} : editor'[x] = editor[x]
  BY <1>4, <1>5 DEF BookInv, BookTyped
<1>7. /\ Ahead(editor[e]) /\ (Calm' => Calm) /\ (Steady' => Steady)
  <2>1. pushFaults' \in Nat /\ pushFaults <= pushFaults' /\ mishaps \subseteq mishaps'
    BY <1>1 DEF BookInv, BookTyped
  <2> QED
    BY <1>1, <2>1, BookGoesOn
<1>8. EditorFits(j)'
  <2>1. OpFits(j)' /\ MetaFits(j)'
    BY <1>4 DEF OpFits, MetaFits, Active, PublishStages
  <2>2. CellFits(j)'
    <3> SUFFICES ASSUME Calm' PROVE CellFits(j)'
      BY DEF CellFits
    <3>1. Resolving(j)'
      BY <1>1, <1>2, <1>4, <1>7 DEF CellFits, Resolving, OpFits
    <3> QED
      BY <1>1, <1>2, <1>4, <1>7, <3>1 DEF CellFits, Early, asked
  <2> QED
    BY <2>1, <2>2 DEF EditorFits
<1>9. /\ Active(editor[e]) /\ ~Active(j) /\ ~Early(j) /\ \A p \in BookPages : ~Listing(editor[e], p)
      /\ Committed(editor[e]) /\ ~Committed(j) /\ Published(j)
      /\ ~Asks(editor[e]) /\ ~Preparing(editor[e])
  BY <1>1, <1>4 DEF Active, Early, Listing, Committed, Published, Asks, Preparing, PreparingStages
<1>10. EditorsFit' /\ CellsFit' /\ IndexFits'
  <2>1. "index" \notin mishaps' => "index" \notin mishaps
    BY <1>1
  <2> QED
    BY <1>1, <1>4, <1>5, <1>7, <1>8, <1>9, <2>1, EditorsGo
<1>11. \A x \in Editors : ~Committed(editor'[x])
  BY <1>6, <1>9 DEF BookInv, EditorsFit, Active, Committed
<1>12. BookTyped' /\ LockFits'
  BY <1>1, <1>2, <1>6 DEF BookInv, BookTyped, LockFits, asked, EditorStates
<1>13. Calm' \/ Steady' => \A w \in Pushers : pusher'[w].pc # "commit"
  BY <1>1 DEF Calm, Steady, Committing
<1>14. PushedFits'
  <2> SUFFICES ASSUME Calm' PROVE PushedFits'
    BY DEF PushedFits
  <2>1. ResolvedIn(j, space')
    BY <1>1, <1>4, <1>7, <1>9 DEF BookInv, PushedFits, ResolvedIn
  <2>2. ASSUME NEW x \in Editors \ {e}, Published(editor[x]) PROVE ResolvedIn(editor[x], space')
    BY <1>1, <1>7, <1>9, <2>2 DEF BookInv, PushedFits
  <2>3. \A x \in Editors : Published(editor'[x]) => ResolvedIn(editor'[x], space')
    BY <1>6, <2>1, <2>2
  <2> QED
    BY <1>11, <1>13, <2>3 DEF PushedFits, ResolvedIn
<1>15. SpaceFits'
  <2> SUFFICES ASSUME Steady' PROVE SpaceFits'
    BY DEF SpaceFits
  <2>1. SpaceFits /\ Steady
    BY <1>7 DEF BookInv
  <2>2. Owed => Owed'
    BY <1>1, <1>6, <1>9 DEF Owed
  <2>3. ~WorkerHas
    BY <1>1, <1>13 DEF WorkerHas
  <2>4. space' # pages => Owed'
    BY <1>1, <1>9, <2>1, <2>2, <2>3 DEF SpaceFits
  <2> QED
    BY <1>1, <1>11, <1>13, <2>1, <2>4 DEF SpaceFits
<1> QED
  BY <1>10, <1>12, <1>14, <1>15 DEF BookInv

----------------------------------------------------------------------------
\* The sync workers.

\* What the workers do not touch.
LEMMA WorkersLeave ==
  ASSUME BookInv, UNCHANGED <<meta, pages, toc, editor, asked>>, mishaps \subseteq mishaps',
         "index" \notin mishaps' => "index" \notin mishaps,
         pushFaults' \in Nat, pushFaults <= pushFaults'
  PROVE  EditorsFit' /\ CellsFit' /\ IndexFits' /\ (Calm' => Calm) /\ (Steady' => Steady)
<1>1. (Calm' => Calm) /\ (Steady' => Steady)
  BY DEF Calm, Steady, BookInv, BookTyped
<1>2. AllCells' = AllCells /\ cellsWritten' = cellsWritten
  BY DEF AllCells, asked
<1>3. ASSUME NEW x \in Editors PROVE EditorFits(editor[x])'
  <2>1. EditorFits(editor[x])
    BY EditorOf
  <2>2. OpFits(editor[x])'
    BY <2>1 DEF EditorFits, OpFits, BookInv, BookTyped
  <2>3. MetaFits(editor[x])'
    BY <1>1, <2>1 DEF EditorFits, MetaFits, Active
  <2>4. CellFits(editor[x])'
    BY <1>1, <1>2, <2>1 DEF EditorFits, CellFits, Resolving, Early
  <2> QED
    BY <2>2, <2>3, <2>4 DEF EditorFits
<1>4. EditorsFit'
  BY <1>1, <1>3 DEF BookInv, EditorsFit, Active, Early
<1>5. CellsFit'
  BY <1>1, <1>2 DEF BookInv, CellsFit
<1>6. IndexFits'
  BY DEF BookInv, IndexFits, Listing
<1> QED
  BY <1>1, <1>4, <1>5, <1>6

\* One worker moves, and holds the lock where it should.
LEMMA WorkerMoves ==
  ASSUME BookInv, NEW w \in Pushers, NEW r \in PusherStates, pusher' = [pusher EXCEPT ![w] = r],
         UNCHANGED <<meta, pages, toc, editor, asked>>,
         pending' \in BOOLEAN, space' \in Books, pushFaults' \in Nat,
         LET held == {"look", "push", "commit", "unlock"} IN
         \/ lock' = lock /\ (r.pc \in held <=> pusher[w].pc \in held)
         \/ lock = NoPusher /\ lock' = w /\ r.pc \in held
         \/ pusher[w].pc \in held /\ lock' = NoPusher /\ r.pc \notin held
  PROVE  /\ BookTyped' /\ LockFits' /\ pusher'[w] = r
         /\ \A x \in Pushers \ {w} : pusher'[x] = pusher[x]
<1>1. /\ pusher' \in [Pushers -> PusherStates] /\ pusher'[w] = r
      /\ \A x \in Pushers \ {w} : pusher'[x] = pusher[x]
  BY DEF BookInv, BookTyped
<1>2. BookTyped'
  BY <1>1 DEF BookInv, BookTyped, LockFits, asked
<1>3. LockFits'
  BY <1>1, LogbookAssumption DEF BookInv, LockFits
<1> QED
  BY <1>1, <1>2, <1>3

\* The worker that holds the lock is alone at what it does.
LEMMA AloneAtWork ==
  ASSUME BookInv, NEW w \in Pushers, pusher[w].pc \in {"look", "push", "commit", "unlock"}
  PROVE  /\ pusher[w] \in PusherStates
         /\ \A x \in Pushers \ {w} : pusher[x].pc \notin {"look", "push", "commit", "unlock"}
  BY DEF BookInv, BookTyped, LockFits

LEMMA TakeSyncLockKeeps == ASSUME BookInv, NEW w \in Pushers, TakeSyncLock(w) PROVE BookInv'
<1>1. /\ pusher[w].pc = "start" /\ pusher[w] \in PusherStates
      /\ UNCHANGED <<meta, pages, toc, editor, pending, space, mishaps, pushFaults, asked>>
  BY DEF TakeSyncLock, BookInv, BookTyped
<1>2. PICK next : next = IF lock = NoPusher THEN "look" ELSE "idle"
  OBVIOUS
<1>3. PICK r : r = [pusher[w] EXCEPT !.pc = next]
  OBVIOUS
<1>4. r \in PusherStates /\ r.pc = next /\ r.text = pusher[w].text
  BY <1>1, <1>2, <1>3 DEF PusherStates
<1>5. pusher' = [pusher EXCEPT ![w] = r] /\ lock' = IF lock = NoPusher THEN w ELSE lock
  BY <1>2, <1>3 DEF TakeSyncLock
<1>6. EditorsFit' /\ CellsFit' /\ IndexFits' /\ (Calm' => Calm) /\ (Steady' => Steady)
  <2>1. pushFaults' \in Nat /\ pushFaults <= pushFaults'
    BY <1>1 DEF BookInv, BookTyped
  <2> QED
    BY <1>1, <2>1, WorkersLeave
<1>7. /\ BookTyped' /\ LockFits' /\ pusher'[w] = r
      /\ \A x \in Pushers \ {w} : pusher'[x] = pusher[x]
  <2>1. pending' \in BOOLEAN /\ space' \in Books /\ pushFaults' \in Nat
    BY <1>1 DEF BookInv, BookTyped
  <2> QED
    BY <1>1, <1>2, <1>4, <1>5, <2>1, WorkerMoves
<1>8. \A x \in Pushers : pusher'[x].pc \in {"push", "commit", "unlock"}
                            \/ pusher[x].pc \in {"push", "commit", "unlock"} => pusher'[x] = pusher[x]
  BY <1>1, <1>2, <1>4, <1>7
<1>9. PushedFits'
  BY <1>1, <1>6, <1>8 DEF BookInv, PushedFits, ResolvedIn, Committed, Published
<1>10. SpaceFits'
  <2> SUFFICES ASSUME Steady' PROVE SpaceFits'
    BY DEF SpaceFits
  <2>1. SpaceFits /\ Steady
    BY <1>6 DEF BookInv
  <2>2. (Owed => Owed') /\ (WorkerHas => WorkerHas') /\ (PublishHas => PublishHas')
    BY <1>1, <1>8 DEF Owed, WorkerHas, PublishHas, Asks, Preparing, Committed
  <2>3. meta'.auto
    BY <1>1, <2>1 DEF SpaceFits
  <2>4. ASSUME pending' PROVE \E x \in Pushers : pusher'[x].pc \in {"start", "look", "push", "commit"}
    <3>1. CASE lock = NoPusher
      BY <1>2, <1>4, <1>7, <3>1
    <3>2. CASE lock # NoPusher
      <4>1. lock \in Pushers /\ pusher[lock].pc \in {"look", "push", "commit", "unlock"}
        BY <3>2 DEF BookInv, BookTyped, LockFits
      <4>2. pusher[lock].pc # "unlock"
        BY <1>1, <2>1, <2>4, <4>1 DEF SpaceFits
      <4>3. lock # w /\ pusher'[lock] = pusher[lock]
        BY <1>1, <1>7, <4>1
      <4> QED
        BY <4>1, <4>2, <4>3
    <3> QED
      BY <3>1, <3>2
  <2>5. pending' => \A x \in Pushers : pusher'[x].pc # "unlock"
    BY <1>1, <1>8, <2>1 DEF SpaceFits
  <2> QED
    BY <1>1, <1>8, <2>1, <2>2, <2>3, <2>4, <2>5 DEF SpaceFits, Committed
<1> QED
  BY <1>6, <1>7, <1>9, <1>10 DEF BookInv

LEMMA UnlinkPendingKeeps == ASSUME BookInv, NEW w \in Pushers, UnlinkPending(w) PROVE BookInv'
<1>1. /\ pusher[w].pc = "look" /\ pending' = FALSE
      /\ UNCHANGED <<meta, pages, toc, editor, lock, space, mishaps, pushFaults, asked>>
  BY DEF UnlinkPending
<1>2. PICK next : next = IF pending THEN "push" ELSE "unlock"
  OBVIOUS
<1>3. PICK r : r = [pusher[w] EXCEPT !.pc = next, !.text = NoPages]
  OBVIOUS
<1>4. r \in PusherStates /\ r.pc = next
  BY <1>1, <1>2, <1>3, AloneAtWork, EmptyTyped DEF PusherStates
<1>5. pusher' = [pusher EXCEPT ![w] = r]
  BY <1>2, <1>3 DEF UnlinkPending
<1>6. EditorsFit' /\ CellsFit' /\ IndexFits' /\ (Calm' => Calm) /\ (Steady' => Steady)
  <2>1. pushFaults' \in Nat /\ pushFaults <= pushFaults'
    BY <1>1 DEF BookInv, BookTyped
  <2> QED
    BY <1>1, <2>1, WorkersLeave
<1>7. /\ BookTyped' /\ LockFits' /\ pusher'[w] = r
      /\ \A x \in Pushers \ {w} : pusher'[x] = pusher[x]
  <2>1. pending' \in BOOLEAN /\ space' \in Books /\ pushFaults' \in Nat
    BY <1>1 DEF BookInv, BookTyped
  <2> QED
    BY <1>1, <1>2, <1>4, <1>5, <2>1, WorkerMoves
<1>8. \A x \in Pushers : pusher'[x].pc # "commit" /\ pusher[x].pc # "commit"
  BY <1>1, <1>2, <1>4, <1>7, AloneAtWork
<1>9. PushedFits'
  BY <1>1, <1>6, <1>8 DEF BookInv, PushedFits, ResolvedIn, Committed, Published
<1>10. SpaceFits'
  <2> SUFFICES ASSUME Steady' PROVE SpaceFits'
    BY DEF SpaceFits
  <2>1. SpaceFits /\ Steady
    BY <1>6 DEF BookInv
  <2>2. (PublishHas => PublishHas') /\ ~WorkerHas
    BY <1>1, <1>8 DEF WorkerHas, PublishHas, Committed
  <2>3. meta'.auto
    BY <1>1, <2>1 DEF SpaceFits
  <2>4. ASSUME Owed PROVE Owed'
    <3>1. CASE pending
      BY <1>2, <1>4, <1>7, <3>1 DEF Owed
    <3>2. CASE ~pending
      <4>1. \A x \in Pushers : pusher[x].pc = "push" => x # w /\ pusher'[x] = pusher[x]
        BY <1>1, <1>7
      <4> QED
        BY <1>1, <2>4, <3>2, <4>1 DEF Owed, Asks, Preparing
    <3> QED
      BY <3>1, <3>2
  <2> QED
    BY <1>1, <1>8, <2>1, <2>2, <2>3, <2>4 DEF SpaceFits, Committed
<1> QED
  BY <1>6, <1>7, <1>9, <1>10 DEF BookInv

LEMMA WorkerReadsKeeps == ASSUME BookInv, NEW w \in Pushers, WorkerReads(w) PROVE BookInv'
<1>1. /\ pusher[w].pc = "push" /\ pages \in Books
      /\ UNCHANGED <<meta, pages, toc, editor, pending, lock, space, mishaps, pushFaults, asked>>
  BY DEF WorkerReads, BookInv, BookTyped
<1>2. PICK r : r = [pusher[w] EXCEPT !.pc = "commit", !.text = pages]
  OBVIOUS
<1>3. r \in PusherStates /\ r.pc = "commit" /\ r.text = pages
  BY <1>1, <1>2, AloneAtWork DEF PusherStates
<1>4. pusher' = [pusher EXCEPT ![w] = r]
  BY <1>2 DEF WorkerReads, BookInv, BookTyped
<1>5. EditorsFit' /\ CellsFit' /\ IndexFits' /\ (Calm' => Calm) /\ (Steady' => Steady)
  <2>1. pushFaults' \in Nat /\ pushFaults <= pushFaults'
    BY <1>1 DEF BookInv, BookTyped
  <2> QED
    BY <1>1, <2>1, WorkersLeave
<1>6. /\ BookTyped' /\ LockFits' /\ pusher'[w] = r
      /\ \A x \in Pushers \ {w} : pusher'[x] = pusher[x]
  <2>1. pending' \in BOOLEAN /\ space' \in Books /\ pushFaults' \in Nat
    BY <1>1 DEF BookInv, BookTyped
  <2> QED
    BY <1>1, <1>3, <1>4, <2>1, WorkerMoves
<1>7. \A x \in Pushers \ {w} : pusher'[x].pc \notin {"commit", "unlock"}
  BY <1>1, <1>6, AloneAtWork
<1>8. PushedFits'
  <2> SUFFICES ASSUME Calm' PROVE PushedFits'
    BY DEF PushedFits
  <2>1. ASSUME NEW x \in Editors, Published(editor[x]) PROVE ResolvedIn(editor[x], pages)
    BY <1>5, <2>1, EditorOf DEF EditorFits, CellFits, Resolving, OpFits, ResolvedIn, Published
  <2>2. \A x \in Pushers : pusher'[x].pc = "commit" => pusher'[x].text = pages
    BY <1>3, <1>6, <1>7
  <2> QED
    BY <1>1, <1>5, <2>1, <2>2 DEF BookInv, PushedFits, ResolvedIn, Committed, Published
<1>9. SpaceFits'
  <2> SUFFICES ASSUME Steady' PROVE SpaceFits'
    BY DEF SpaceFits
  <2>1. SpaceFits /\ Steady
    BY <1>5 DEF BookInv
  <2>2. WorkerHas'
    BY <1>1, <1>3, <1>6 DEF WorkerHas
  <2>3. meta'.auto
    BY <1>1, <2>1 DEF SpaceFits
  <2>4. \A x \in Pushers : pusher'[x].pc # "unlock" /\ (pusher'[x].pc = "commit" => pusher'[x].text = pages)
    BY <1>3, <1>6, <1>7
  <2> QED
    BY <1>1, <1>3, <1>6, <2>2, <2>3, <2>4 DEF SpaceFits
<1> QED
  BY <1>5, <1>6, <1>8, <1>9 DEF BookInv

LEMMA WorkerPushesKeeps == ASSUME BookInv, NEW w \in Pushers, WorkerPushes(w) PROVE BookInv'
<1>1. /\ pusher[w].pc = "commit" /\ space' = pusher[w].text /\ pusher[w] \in PusherStates
      /\ mishaps' = mishaps \cup (IF \E e \in Editors : On(e, {"publish"}, "commit")
                                 THEN {"crossed"} ELSE {})
      /\ UNCHANGED <<meta, pages, toc, editor, pending, lock, pushFaults, asked>>
  BY DEF WorkerPushes, Clobbers, BookInv, BookTyped
<1>2. PICK r : r = [pusher[w] EXCEPT !.pc = "look"]
  OBVIOUS
<1>3. r \in PusherStates /\ r.pc = "look"
  BY <1>1, <1>2 DEF PusherStates
<1>4. pusher' = [pusher EXCEPT ![w] = r]
  BY <1>2 DEF WorkerPushes
<1>5. EditorsFit' /\ CellsFit' /\ IndexFits' /\ (Calm' => Calm) /\ (Steady' => Steady)
  <2>1. pushFaults' \in Nat /\ pushFaults <= pushFaults' /\ mishaps \subseteq mishaps'
        /\ ("index" \notin mishaps' => "index" \notin mishaps)
    BY <1>1 DEF BookInv, BookTyped
  <2> QED
    BY <1>1, <2>1, WorkersLeave
<1>6. /\ BookTyped' /\ LockFits' /\ pusher'[w] = r
      /\ \A x \in Pushers \ {w} : pusher'[x] = pusher[x]
  <2>1. pending' \in BOOLEAN /\ space' \in Books /\ pushFaults' \in Nat
    BY <1>1 DEF BookInv, BookTyped, PusherStates
  <2> QED
    BY <1>1, <1>3, <1>4, <2>1, WorkerMoves
<1>7. \A x \in Pushers : pusher'[x].pc \notin {"commit", "unlock"}
  BY <1>1, <1>3, <1>6, AloneAtWork
<1>8. Calm' \/ Steady' => \A e \in Editors : ~Committed(editor[e])
  BY <1>1 DEF Calm, Steady, On, Committed
<1>9. PushedFits'
  BY <1>1, <1>5, <1>7, <1>8 DEF BookInv, PushedFits, ResolvedIn, Committed, Published
<1>10. SpaceFits'
  <2> SUFFICES ASSUME Steady' PROVE SpaceFits'
    BY DEF SpaceFits
  <2>1. SpaceFits /\ Steady
    BY <1>5 DEF BookInv
  <2>2. ~PublishHas
    BY <1>8 DEF PublishHas
  <2>3. Owed => Owed'
    <3>1. \A x \in Pushers : pusher[x].pc = "push" => x # w /\ pusher'[x] = pusher[x]
      BY <1>1, <1>6
    <3> QED
      BY <1>1, <3>1 DEF Owed, Asks, Preparing
  <2>4. space' # pages => Owed'
    BY <1>1, <2>1, <2>2, <2>3 DEF SpaceFits
  <2>5. meta'.auto
    BY <1>1, <2>1 DEF SpaceFits
  <2> QED
    BY <1>1, <1>3, <1>6, <1>7, <1>8, <2>4, <2>5 DEF SpaceFits, Committed
<1> QED
  BY <1>5, <1>6, <1>9, <1>10 DEF BookInv

LEMMA WorkerFailsKeeps == ASSUME BookInv, NEW w \in Pushers, WorkerFails(w) PROVE BookInv'
<1>1. /\ pusher[w].pc = "commit" /\ pusher[w] \in PusherStates /\ pushFaults' = pushFaults + 1
      /\ mishaps' = mishaps \cup {"failed"} /\ pushFaults \in Nat
      /\ UNCHANGED <<meta, pages, toc, editor, pending, space, asked>>
  BY DEF WorkerFails, BookInv, BookTyped
<1>2. PICK r \in PusherStates :
        /\ pusher' = [pusher EXCEPT ![w] = r]
        /\ \/ r.pc = "look" /\ lock' = lock
           \/ r.pc = "idle" /\ lock' = NoPusher
  <2>1. CASE pusher' = [pusher EXCEPT ![w].pc = "look"] /\ lock' = lock
    <3>1. PICK r : r = [pusher[w] EXCEPT !.pc = "look"]
      OBVIOUS
    <3>2. r \in PusherStates /\ r.pc = "look"
      BY <1>1, <3>1 DEF PusherStates
    <3>3. pusher' = [pusher EXCEPT ![w] = r]
      BY <2>1, <3>1
    <3> QED
      BY <2>1, <3>2, <3>3
  <2>2. CASE pusher' = [pusher EXCEPT ![w] = [pc |-> "idle", text |-> NoPages]] /\ lock' = NoPusher
    <3>1. [pc |-> "idle", text |-> NoPages] \in PusherStates
      BY EmptyTyped DEF PusherStates
    <3> QED
      BY <2>2, <3>1
  <2> QED
    BY <2>1, <2>2 DEF WorkerFails
<1>3. ~Steady'
  BY <1>1 DEF Steady
<1>4. EditorsFit' /\ CellsFit' /\ IndexFits' /\ (Calm' => Calm) /\ (Steady' => Steady)
  <2>1. pushFaults' \in Nat /\ pushFaults <= pushFaults' /\ mishaps \subseteq mishaps'
        /\ ("index" \notin mishaps' => "index" \notin mishaps)
    BY <1>1
  <2> QED
    BY <1>1, <2>1, WorkersLeave
<1>5. /\ BookTyped' /\ LockFits' /\ pusher'[w] = r
      /\ \A x \in Pushers \ {w} : pusher'[x] = pusher[x]
  <2>1. pending' \in BOOLEAN /\ space' \in Books /\ pushFaults' \in Nat
    BY <1>1 DEF BookInv, BookTyped
  <2> QED
    BY <1>1, <1>2, <2>1, WorkerMoves
<1>6. \A x \in Pushers : pusher'[x].pc # "commit"
  BY <1>1, <1>2, <1>5, AloneAtWork
<1>7. PushedFits'
  BY <1>1, <1>4, <1>6 DEF BookInv, PushedFits, ResolvedIn, Committed, Published
<1>8. SpaceFits'
  BY <1>3 DEF SpaceFits
<1> QED
  BY <1>4, <1>5, <1>7, <1>8 DEF BookInv

LEMMA ReleaseSyncLockKeeps == ASSUME BookInv, NEW w \in Pushers, ReleaseSyncLock(w) PROVE BookInv'
<1>1. /\ pusher[w].pc = "unlock" /\ pusher[w] \in PusherStates /\ lock' = NoPusher
      /\ UNCHANGED <<meta, pages, toc, editor, pending, space, mishaps, pushFaults, asked>>
  BY DEF ReleaseSyncLock, BookInv, BookTyped
<1>2. PICK r : r = [pusher[w] EXCEPT !.pc = "idle"]
  OBVIOUS
<1>3. r \in PusherStates /\ r.pc = "idle"
  BY <1>1, <1>2 DEF PusherStates
<1>4. pusher' = [pusher EXCEPT ![w] = r]
  BY <1>2 DEF ReleaseSyncLock
<1>5. EditorsFit' /\ CellsFit' /\ IndexFits' /\ (Calm' => Calm) /\ (Steady' => Steady)
  <2>1. pushFaults' \in Nat /\ pushFaults <= pushFaults'
    BY <1>1 DEF BookInv, BookTyped
  <2> QED
    BY <1>1, <2>1, WorkersLeave
<1>6. /\ BookTyped' /\ LockFits' /\ pusher'[w] = r
      /\ \A x \in Pushers \ {w} : pusher'[x] = pusher[x]
  <2>1. pending' \in BOOLEAN /\ space' \in Books /\ pushFaults' \in Nat
    BY <1>1 DEF BookInv, BookTyped
  <2> QED
    BY <1>1, <1>3, <1>4, <2>1, WorkerMoves
<1>7. \A x \in Pushers : pusher'[x].pc \notin {"push", "commit", "unlock"}
                        /\ pusher[x].pc \notin {"push", "commit"}
  BY <1>1, <1>3, <1>6, AloneAtWork
<1>8. PushedFits'
  BY <1>1, <1>5, <1>7 DEF BookInv, PushedFits, ResolvedIn, Committed, Published
<1>9. SpaceFits'
  <2> SUFFICES ASSUME Steady' PROVE SpaceFits'
    BY DEF SpaceFits
  <2>1. SpaceFits /\ Steady
    BY <1>5 DEF BookInv
  <2>2. (Owed => Owed') /\ ~WorkerHas /\ (PublishHas => PublishHas') /\ ~pending
    BY <1>1, <1>7, <2>1 DEF Owed, WorkerHas, PublishHas, Asks, Preparing, Committed, SpaceFits
  <2>3. meta'.auto
    BY <1>1, <2>1 DEF SpaceFits
  <2> QED
    BY <1>1, <1>7, <2>1, <2>2, <2>3 DEF SpaceFits, Committed
<1> QED
  BY <1>5, <1>6, <1>8, <1>9 DEF BookInv

----------------------------------------------------------------------------

LEMMA BookInvNext == BookInv /\ [BookNext]_bookVars => BookInv'
<1> SUFFICES ASSUME BookInv, [BookNext]_bookVars PROVE BookInv'
  OBVIOUS
<1>1. CASE UNCHANGED bookVars
  <2>1. UNCHANGED <<meta, pages, toc, editor, asked, pending, lock, pusher, space, mishaps, pushFaults>>
    BY <1>1 DEF bookVars
  <2>2. cellsWritten' = cellsWritten
    BY <2>1 DEF asked
  <2>3. BookTyped' /\ LockFits'
    BY <2>1, <2>2 DEF BookInv, BookTyped, LockFits
  <2>4. EditorsFit' /\ CellsFit' /\ IndexFits' /\ (Calm' => Calm) /\ (Steady' => Steady)
    <3>1. pushFaults' \in Nat /\ pushFaults <= pushFaults'
      BY <2>1 DEF BookInv, BookTyped
    <3> QED
      BY <2>1, <3>1, WorkersLeave
  <2>5. PushedFits'
    BY <2>1, <2>4 DEF BookInv, PushedFits, ResolvedIn, Committed, Published
  <2>6. SpaceFits'
    BY <2>1, <2>4 DEF BookInv, SpaceFits, Owed, WorkerHas, PublishHas, Asks, Preparing, Committed
  <2> QED
    BY <2>3, <2>4, <2>5, <2>6 DEF BookInv
<1>2. CASE \E e \in Editors : \E c \in Cells : BeginCell(e, c) \/ BeginNote(e, c)
  BY <1>2, BeginCellKeeps
<1>3. CASE \E e \in Editors : EnsurePage(e) \/ ReadIndex(e)
  BY <1>3, EnsurePageKeeps
<1>4. CASE \E e \in Editors : AddPage(e)
  BY <1>4, AddPageKeeps
<1>5. CASE \E e \in Editors : InsertTocRow(e)
  BY <1>5, InsertTocRowKeeps
<1>6. CASE \E e \in Editors : CellMeta(e)
  <2>1. PICK e \in Editors : CellMeta(e)
    BY <1>6
  <2>2. CASE \/ ReadMeta(e, {"cell"}, "recall", "recalled")
             \/ ReadMeta(e, {"cell"}, "register", "registered")
             \/ ReadMeta(e, {"cell"}, "remember", "remembered")
    <3>1. PICK turn \in {<<"recall", "recalled">>, <<"register", "registered">>,
                         <<"remember", "remembered">>} :
             ReadMeta(e, {"cell"}, turn[1], turn[2])
      BY <2>2
    <3> QED
      BY <3>1, CellReadsKeep
  <2>3. CASE \/ WriteMeta(e, {"cell"}, "recalled", Remembering(e), "register")
             \/ WriteMeta(e, {"cell"}, "registered", Registering(e), "append")
             \/ WriteMeta(e, {"cell"}, "remembered", Remembering(e), "trigger")
    BY <2>3, CellWritesKeep
  <2> QED
    BY <2>1, <2>2, <2>3 DEF CellMeta
<1>7. CASE \E e \in Editors : AppendCell(e)
  BY <1>7, AppendCellKeeps
<1>8. CASE \E e \in Editors : TriggerAutosync(e)
  BY <1>8, TriggerAutosyncKeeps
<1>9. CASE \E e \in Editors : \E p \in BookPages : BeginPin(e, p)
  BY <1>9, BeginPinKeeps
<1>10. CASE \E e \in Editors : SetCellPinned(e)
  BY <1>10, SetCellPinnedKeeps
<1>11. CASE \E e \in Editors : BeginPublish(e)
  BY <1>11, BeginPublishKeeps
<1>12. CASE \E e \in Editors : PublishMeta(e) \/ BeginPromote(e)
  BY <1>12, PublishMetaKeeps
<1>13. CASE \E e \in Editors : \E d \in Links : Promote(e, d)
  BY <1>13, PromoteKeeps
<1>14. CASE \E e \in Editors : \E d \in Links : PromoteFails(e, d)
  BY <1>14, PromoteFailsKeeps
<1>15. CASE \E e \in Editors : \E p \in BookPages : RewriteReads(e, p)
  BY <1>15, RewriteReadsKeeps
<1>16. CASE \E e \in Editors : RewriteReplaces(e)
  BY <1>16, RewriteReplacesKeeps
<1>17. CASE \E e \in Editors : RewriteEnds(e)
  BY <1>17, RewriteEndsKeeps
<1>18. CASE \E e \in Editors : PublishReads(e)
  BY <1>18, PublishReadsKeeps
<1>19. CASE \E e \in Editors : PublishPushes(e)
  BY <1>19, PublishPushesKeeps
<1>20. CASE \E e \in Editors : PublishFails(e)
  BY <1>20, PublishFailsKeeps
<1>21. CASE \E w \in Pushers : TakeSyncLock(w) \/ UnlinkPending(w) \/ WorkerReads(w)
  BY <1>21, TakeSyncLockKeeps, UnlinkPendingKeeps, WorkerReadsKeeps
<1>22. CASE \E w \in Pushers : WorkerPushes(w) \/ WorkerFails(w) \/ ReleaseSyncLock(w)
  BY <1>22, WorkerPushesKeeps, WorkerFailsKeeps, ReleaseSyncLockKeeps
<1> QED
  BY <1>1, <1>2, <1>3, <1>4, <1>5, <1>6, <1>7, <1>8, <1>9, <1>10, <1>11, <1>12, <1>13, <1>14, <1>15,
     <1>16, <1>17, <1>18, <1>19, <1>20, <1>21, <1>22 DEF BookNext

LEMMA BookInvGives == BookInv => BookTypeOK /\ BookSound
<1> SUFFICES ASSUME BookInv PROVE BookTypeOK /\ BookSound
  OBVIOUS
<1>1. BookTypeOK
  <2>1. /\ meta.known \subseteq Links /\ meta.placed \subseteq Links /\ toc \subseteq BookPages
        /\ \A p \in BookPages : pages[p].cells \subseteq [cell : Cells, local : BOOLEAN]
    BY DEF BookInv, BookTyped, Metas, Books, WrittenCells
  <2>2. lock # NoPusher => pusher[lock].pc \notin {"idle", "start"}
    BY DEF BookInv, BookTyped, LockFits
  <2> QED
    BY <2>1, <2>2 DEF BookTypeOK
<1>2. SpaceShowsBook
  <2> SUFFICES ASSUME Quiet, meta.auto, pushFaults = 0,
                      mishaps \cap {"missed", "crossed", "meta"} = {}
               PROVE  space = pages
    BY DEF SpaceShowsBook
  <2>1. Steady /\ SpaceFits
    BY DEF Steady, BookInv
  <2>2. \A w \in Pushers : pusher[w].pc = "idle"
    BY DEF Quiet
  <2>3. \A e \in Editors : ~Asks(editor[e]) /\ ~Preparing(editor[e]) /\ ~Committed(editor[e])
    BY IdleRests DEF Quiet
  <2>4. ~Owed /\ ~WorkerHas /\ ~PublishHas
    BY <2>1, <2>2, <2>3 DEF Owed, WorkerHas, PublishHas, SpaceFits
  <2> QED
    BY <2>1, <2>4 DEF SpaceFits
<1>3. PublishedResolves
  <2> SUFFICES ASSUME NEW e \in Editors, editor[e].op = "publish", editor[e].pc = "done",
                      NEW p \in BookPages, NEW n \in space[p].cells,
                      n.local, n.cell \in editor[e].began,
                      mishaps \cap {"meta", "text", "crossed"} = {}
               PROVE  LinkOf[n.cell] \in editor[e].skipped
    BY DEF PublishedResolves
  <2>1. ResolvedIn(editor[e], space)
    BY DEF Calm, BookInv, PushedFits, Published
  <2> QED
    BY <2>1 DEF ResolvedIn
<1>4. PagesAreListed
  BY IdleRests DEF PagesAreListed, BookInv, IndexFits, Quiet
<1> QED
  BY <1>1, <1>2, <1>3, <1>4 DEF BookSound

\* On every logbook: a Space with no work left shows the pages, what a
\* publication found has no local links left on the Space but those it skipped,
\* and every page is in the index, unless one of the mishaps the unlocked
\* edits allow has happened.
THEOREM LogbookKept == BookSpec => [](BookTypeOK /\ BookSound)
  BY BookInvInit, BookInvNext, BookInvGives, PTL DEF BookSpec
=============================================================================
