----------------------------- MODULE ProjectRuns -----------------------------
(***************************************************************************)
(* The runs of projects in SQLite databases (sqlite_storage.py): logging,  *)
(* delete_run, rename_run, move_run and delete_project, by the threads and *)
(* processes that share a directory.  A database changes in transactions   *)
(* under the project's ProcessLock; the media files beside it do not.      *)
(*                                                                         *)
(* A row is abstracted to the record it stores, the run and the name it    *)
(* carries, whether it still has the columns that renaming and moving do   *)
(* not copy (log_id and space_id; the type and payload of a trace), and    *)
(* the directory its file_path names.  Rows of databases that predate run  *)
(* ids are left out.                                                       *)
(***************************************************************************)
EXTENDS Naturals, FiniteSets

CONSTANTS Runs, Names, Projects,
          Records,         \* what clients log
          RunOf, TableOf,  \* [Records -> Runs], [Records -> tables]
          TimeOf,          \* [Records -> timestamps]
          WithMedia,       \* records with a media file
          Home,            \* the project the clients log to
          NameAt,          \* [Runs -> the name under which its client logs]
          NoRun,
          Managers,        \* threads that rename, move and delete
          MaxDeliveries,   \* deliveries of a record beyond the first
          MaxManaged,      \* operations of the managers
          MaxManagedCuts   \* operations cut by a crash or an error

Tables == {"metrics", "configs", "system_metrics", "alerts", "traces", "links"}

Unlocked == "nobody"

ASSUME ProjectRunsAssumption ==
    /\ RunOf \in [Records -> Runs] /\ TableOf \in [Records -> Tables]
    /\ TimeOf \in [Records -> Nat] /\ NameAt \in [Runs -> Names]
    /\ WithMedia \subseteq {e \in Records : TableOf[e] \in {"metrics", "traces"}}
    /\ Home \in Projects /\ NoRun \notin Runs /\ Unlocked \notin Managers

VARIABLES base,       \* per project, the rows of its database
          files,      \* media files: triples of project, name and record
          saved,      \* records whose media file was written
          locked,     \* per project, the manager that has its ProcessLock, or none
          managing,   \* per manager, the operation it carries out
          logged,     \* history: records that have been inserted
          disowned,   \* history: runs somebody asked to delete
          rewritten,  \* history: records whose row lost columns or its project
          doubled,    \* history: records of a move that was cut
          strayed,    \* history: records beside whose file a directory went
          projectCount

projectVars == <<base, files, saved, locked, managing, logged, disowned, rewritten,
                 doubled, strayed, projectCount>>

Idle == [op |-> "none"]

Charge(what, bound) == /\ projectCount[what] < bound
                       /\ projectCount' = [projectCount EXCEPT ![what] = @ + 1]

ProjectInit == /\ base = [p \in Projects |-> {}]
               /\ files = {}
               /\ saved = {}
               /\ locked = [p \in Projects |-> Unlocked]
               /\ managing = [m \in Managers |-> Idle]
               /\ logged = {} /\ disowned = {} /\ rewritten = {} /\ doubled = {}
               /\ strayed = {}
               /\ projectCount = [repeat |-> 0, manage |-> 0, cut |-> 0]

In(p, table) == {row \in base[p] : TableOf[row.rec] = table}

Held(p, table, R) == {row \in In(p, table) : row.run \in R}

\* Rows that an INSERT would not accept beside a new one of the record: log_id
\* and alert_id are unique, the id of a trace is its key, a run has one config.
Conflicts(p, e) ==
    {row \in base[p] : \/ row.rec = e /\ (TableOf[e] \in {"metrics", "system_metrics"} => row.full)
                       \/ TableOf[row.rec] = "configs" /\ TableOf[e] = "configs"
                          /\ row.run = RunOf[e]}

\* The run that a name stands for: in the table, the one that began last;
\* configs have no timestamps, and the metrics decide.
NamedIn(rowsOf, n) ==
    LET named == {row \in rowsOf : row.name = n}
        begins(r) == CHOOSE t \in {TimeOf[row.rec] : row \in {x \in named : x.run = r}} :
                        \A row \in named : row.run = r => TimeOf[row.rec] >= t
        runs == {row.run : row \in named}
    IN {r \in runs : \A q \in runs : begins(q) <= begins(r)}

Identity(p, table, id, n) ==
    IF id # NoRun THEN {id}
    ELSE NamedIn(In(p, IF table = "configs" THEN "metrics" ELSE table), n)

\* A run without metrics that only links know, by its name.
LinkOnly(p, id, n) == /\ Identity(p, "metrics", id, n) = {}
                      /\ \E row \in In(p, "links") : row.name = n

Called(p, n) == {row \in base[p] : row.name = n /\ TableOf[row.rec] # "configs"}

Dir(p, n, fs) == {f \in fs : f[1] = p /\ f[2] = n}

(***************************************************************************)
(* Clients: a media file is written before the record with its path.       *)
(***************************************************************************)
SaveMedia(e) ==
    /\ e \in WithMedia \ saved
    /\ saved' = saved \cup {e}
    /\ files' = files \cup {<<Home, NameAt[RunOf[e]], e>>}
    /\ UNCHANGED <<base, locked, managing, logged, disowned, rewritten, doubled, strayed,
                   projectCount>>

\* bulk_log, bulk_log_system, bulk_alert and insert_run_artifact_link; a record
\* may be delivered again.
LogRecord(e) ==
    /\ locked[Home] = Unlocked
    /\ e \in WithMedia => e \in saved
    /\ IF e \in logged THEN Charge("repeat", MaxDeliveries) ELSE UNCHANGED projectCount
    /\ LET row == [rec |-> e, run |-> RunOf[e], name |-> NameAt[RunOf[e]], full |-> TRUE,
                   dir |-> IF e \in WithMedia THEN <<Home, NameAt[RunOf[e]]>> ELSE << >>,
                   copy |-> Cardinality({x \in base[Home] : x.rec = e})]
       IN base' = [base EXCEPT ![Home] =
             IF Conflicts(Home, e) = {} THEN @ \cup {row}
             ELSE IF TableOf[e] = "configs" THEN (@ \ Conflicts(Home, e)) \cup {row} ELSE @]
    /\ logged' = logged \cup {e}
    /\ UNCHANGED <<files, saved, locked, managing, disowned, rewritten, doubled, strayed>>

(***************************************************************************)
(* delete_run: one transaction.                                            *)
(***************************************************************************)
\* Faulty variant: the rows are found by their name alone.
DeletedByName(p, id, n) == Called(p, n)

\* The rows it deletes.  The config is looked up when the metrics are gone.
Deleted(p, id, n) ==
    LET R     == Identity(p, "metrics", id, n)
        later == NamedIn(In(p, "metrics") \ Held(p, "metrics", R), n)
    IN IF LinkOnly(p, id, n)
       THEN {row \in Called(p, n) : TableOf[row.rec] # "traces"}
            \cup Held(p, "traces", Identity(p, "traces", id, n))
       ELSE IF R = {} THEN {}
       ELSE (UNION {Held(p, table, R) : table \in {"metrics", "system_metrics", "alerts", "links"}})
            \cup Held(p, "configs", IF id # NoRun THEN R ELSE later)
            \cup Held(p, "traces", Identity(p, "traces", id, n))

\* The runs that the caller may mean.
Meant(p, id, n) == IF id # NoRun THEN {id} ELSE {row.run : row \in {x \in base[p] : x.name = n}}

DeleteRun(p, id, n) ==
    /\ locked[p] = Unlocked
    /\ Charge("manage", MaxManaged)
    /\ base' = [base EXCEPT ![p] = @ \ Deleted(p, id, n)]
    /\ disowned' = disowned \cup Meant(p, id, n)
    /\ UNCHANGED <<files, saved, locked, managing, logged, rewritten, doubled, strayed>>

(***************************************************************************)
(* Media directories are moved after a commit: _move_media_dir.            *)
(***************************************************************************)
\* The directory replaces the target; onto itself, it is removed and the move
\* raises.
MoveDir(from, to) ==
    LET there == Dir(from[1], from[2], files)
        over  == Dir(to[1], to[2], files)
    IN files' = IF there = {} THEN files
                ELSE (files \ (there \cup over))
                     \cup (IF from = to THEN {} ELSE {<<to[1], to[2], f[3]>> : f \in there})

\* The records whose file goes elsewhere than their row says, or is lost: those
\* of other runs in either directory, and those not yet logged.
Disturbed(from, to, rows) ==
    LET gone == {f[3] : f \in Dir(from[1], from[2], files)}
        over == {f[3] : f \in Dir(to[1], to[2], files)}
    IN IF gone = {} THEN {}
       ELSE (gone \ (IF from = to THEN {} ELSE {row.rec : row \in rows})) \cup over

Readdressed(row, from, to) ==
    [row EXCEPT !.dir = IF @ = from THEN to ELSE @]

(***************************************************************************)
(* rename_run.                                                             *)
(***************************************************************************)
\* Faulty variant: the paths in the rows stay.
RenamedInPlace(p, row, old, new) ==
    [row EXCEPT !.name = new, !.full = @ /\ TableOf[row.rec] \notin {"metrics", "traces"}]

\* Metrics and traces are deleted and inserted again; the name of the others is
\* updated.
Renamed(p, row, old, new) ==
    [IF TableOf[row.rec] \in {"metrics", "traces"}
     THEN [Readdressed(row, <<p, old>>, <<p, new>>) EXCEPT !.full = FALSE]
     ELSE row EXCEPT !.name = new]

\* The rows it is about; a config is not found by a run's name.
Renaming(p, id, old) ==
    IF LinkOnly(p, id, old) THEN Called(p, old)
    ELSE {row \in base[p] : row.run \in Identity(p, "metrics", id, old)}

RenameRun(m, p, id, old, new) ==
    /\ managing[m] = Idle
    /\ locked[p] = Unlocked
    /\ Renaming(p, id, old) # {}
    /\ Charge("manage", MaxManaged)
    /\ LET R == Renaming(p, id, old) IN
       /\ base' = [base EXCEPT ![p] = (@ \ R) \cup {Renamed(p, row, old, new) : row \in R}]
       /\ rewritten' = rewritten \cup {row.rec : row \in {x \in R : TableOf[x.rec] \in
                                                             {"metrics", "traces"}}}
       /\ managing' = [managing EXCEPT ![m] =
             [op |-> "rename", from |-> <<p, old>>, to |-> <<p, new>>, rows |-> R]]
    /\ locked' = [locked EXCEPT ![p] = m]
    /\ UNCHANGED <<files, saved, logged, disowned, doubled, strayed>>

FinishRename(m) ==
    /\ managing[m].op = "rename"
    /\ MoveDir(managing[m].from, managing[m].to)
    /\ strayed' = strayed \cup Disturbed(managing[m].from, managing[m].to, managing[m].rows)
    /\ managing' = [managing EXCEPT ![m] = Idle]
    /\ locked' = [locked EXCEPT ![managing[m].from[1]] = Unlocked]
    /\ UNCHANGED <<base, saved, logged, disowned, rewritten, doubled, projectCount>>

(***************************************************************************)
(* move_run.                                                               *)
(***************************************************************************)
\* The rows it reads, each table by its own resolution.
Moving(p, id, n) ==
    UNION {Held(p, table, Identity(p, table, id, n)) : table \in Tables \ {"links"}}

\* The rows it inserts, without the columns it does not copy.
Moved(p, q, row, n) ==
    [Readdressed(row, <<p, n>>, <<q, n>>) EXCEPT
        !.name = n, !.full = @ /\ TableOf[row.rec] \in {"alerts", "configs"},
        !.copy = Cardinality({x \in base[q] : x.rec = row.rec})]

\* What the target accepts: alerts and traces are ignored when there already,
\* a config replaces the run's.
Accepted(q, R) == {row \in R : TableOf[row.rec] \in {"alerts", "traces"}
                               => \A x \in base[q] : x.rec # row.rec}

Replaced(q, R) == {x \in In(q, "configs") : \E row \in R : /\ TableOf[row.rec] = "configs"
                                                           /\ row.run = x.run}

\* Both locks, taken one after the other; a lock that another has for ten
\* seconds makes it fail.  The commit in the target.
MoveRun(m, p, q, id, n) ==
    /\ managing[m] = Idle
    /\ p # q
    /\ locked[p] = Unlocked /\ locked[q] = Unlocked
    /\ Identity(p, "metrics", id, n) # {}
    /\ \E row \in Moving(p, id, n) : TableOf[row.rec] # "alerts"
    /\ Charge("manage", MaxManaged)
    /\ LET R == Moving(p, id, n) IN
       /\ base' = [base EXCEPT ![q] = (@ \ Replaced(q, R))
                                       \cup {Moved(p, q, row, n) : row \in Accepted(q, R)}]
       /\ rewritten' = rewritten \cup {row.rec : row \in R}
       /\ managing' = [managing EXCEPT ![m] =
             [op |-> "move", from |-> <<p, n>>, to |-> <<q, n>>, rows |-> R,
              links |-> Held(p, "links", Identity(p, "metrics", id, n))]]
    /\ locked' = [locked EXCEPT ![p] = m, ![q] = m]
    /\ UNCHANGED <<files, saved, logged, disowned, doubled, strayed>>

\* The media directory, then the deletions in the source and their commit.
MoveMedia(m) ==
    /\ managing[m].op = "move"
    /\ MoveDir(managing[m].from, managing[m].to)
    /\ strayed' = strayed \cup Disturbed(managing[m].from, managing[m].to, managing[m].rows)
    /\ managing' = [managing EXCEPT ![m].op = "leave"]
    /\ UNCHANGED <<base, saved, locked, logged, disowned, rewritten, doubled, projectCount>>

FinishMove(m) ==
    /\ managing[m].op = "leave"
    /\ base' = [base EXCEPT ![managing[m].from[1]] = @ \ (managing[m].rows \cup managing[m].links)]
    /\ managing' = [managing EXCEPT ![m] = Idle]
    /\ locked' = [locked EXCEPT ![managing[m].from[1]] = Unlocked,
                                ![managing[m].to[1]] = Unlocked]
    /\ UNCHANGED <<files, saved, logged, disowned, rewritten, doubled, strayed, projectCount>>

(***************************************************************************)
(* delete_project: the database under the lock, the directories after it.  *)
(***************************************************************************)
UnlinkDatabase(m, p) ==
    /\ managing[m] = Idle
    /\ locked[p] = Unlocked
    /\ Charge("manage", MaxManaged)
    /\ base' = [base EXCEPT ![p] = {}]
    /\ disowned' = disowned \cup {row.run : row \in base[p]}
    /\ managing' = [managing EXCEPT ![m] = [op |-> "empty", from |-> p]]
    /\ UNCHANGED <<files, saved, locked, logged, rewritten, doubled, strayed>>

RemoveDirectories(m) ==
    /\ managing[m].op = "empty"
    /\ files' = {f \in files : f[1] # managing[m].from}
    /\ strayed' = strayed \cup {f[3] : f \in files \ files'}
    /\ managing' = [managing EXCEPT ![m] = Idle]
    /\ UNCHANGED <<base, saved, locked, logged, disowned, rewritten, doubled, projectCount>>

\* The process ends, or an error leaves the handler, between two commits.
CutManager(m) ==
    /\ managing[m] # Idle
    /\ Charge("cut", MaxManagedCuts)
    /\ locked' = [p \in Projects |-> IF locked[p] = m THEN Unlocked ELSE locked[p]]
    /\ doubled' = IF managing[m].op \in {"move", "leave"}
                  THEN doubled \cup {row.rec : row \in managing[m].rows} ELSE doubled
    /\ strayed' = IF managing[m].op = "empty" THEN strayed
                  ELSE strayed \cup {row.rec : row \in managing[m].rows}
    /\ managing' = [managing EXCEPT ![m] = Idle]
    /\ UNCHANGED <<base, files, saved, logged, disowned, rewritten>>

ProjectNext ==
    \/ \E e \in Records : SaveMedia(e) \/ LogRecord(e)
    \/ \E p \in Projects, id \in Runs \cup {NoRun}, n \in Names :
          \/ DeleteRun(p, id, n)
          \/ \E m \in Managers : \/ \E new \in Names : RenameRun(m, p, id, n, new)
                                 \/ \E q \in Projects : MoveRun(m, p, q, id, n)
    \/ \E m \in Managers : \/ FinishRename(m) \/ MoveMedia(m) \/ FinishMove(m)
                           \/ \E p \in Projects : UnlinkDatabase(m, p)
                           \/ RemoveDirectories(m)
                           \/ CutManager(m)

ProjectSpec == ProjectInit /\ [][ProjectNext]_projectVars

----------------------------------------------------------------------------
(***************************************************************************)
(* What must hold.                                                         *)
(***************************************************************************)

\* The rows of a record.
RowsOf(e) == UNION {{<<p, row>> : row \in {x \in base[p] : x.rec = e}} : p \in Projects}

\* A run has one config in a project; a later one replaces it.
Superseded(e) == /\ TableOf[e] = "configs"
                 /\ \E p \in Projects : \E row \in In(p, "configs") : row.run = RunOf[e]

\* The records that a move has written to its target and not deleted yet.
BetweenCommits(m) == IF managing[m].op \in {"move", "leave"}
                     THEN {row.rec : row \in managing[m].rows} ELSE {}

\* The type invariant: a row is of its record's run, and a locked project has a
\* manager at work in it.
ProjectTypeOK ==
    /\ \A p \in Projects : \A row \in base[p] : /\ row.rec \in logged
                                                /\ row.run = RunOf[row.rec]
                                                /\ row.name \in Names
    /\ files \subseteq Projects \X Names \X saved
    /\ \A p \in Projects : locked[p] # Unlocked => managing[locked[p]] # Idle

\* Through every renaming, move, crash and repeated delivery, a record of a run
\* that nobody asked to delete keeps a row in some project (links stay behind
\* when a run is moved, and a config gives way to a later one), and has only one,
\* unless the repetition met a row that a renaming or a move had taken the log_id
\* from, or a move was cut between its two commits.
RecordsKept ==
    \A e \in logged :
       /\ RunOf[e] \notin disowned /\ TableOf[e] # "links"
            => RowsOf(e) # {} \/ Superseded(e)
       /\ /\ projectCount.repeat > 0 => e \notin rewritten
          /\ e \notin doubled
          /\ \A m \in Managers : e \notin BetweenCommits(m)
          => Cardinality(RowsOf(e)) <= 1

\* A row finds the media file that it names, through renamings and moves:
\* unless the directory, which belongs to a name, was shared by two runs or not
\* yet logged, the operation was cut before it came to the files, or the row
\* was inserted a second time after its file had moved.
MediaKept ==
    \A p \in Projects : \A row \in base[p] :
       /\ row.dir # << >>
       /\ row.rec \notin strayed
       /\ projectCount.repeat > 0 => row.rec \notin rewritten
       /\ \A m \in Managers : managing[m] # Idle
             => managing[m].op = "empty" \/ \A x \in managing[m].rows : x.rec # row.rec
       => <<row.dir[1], row.dir[2], row.rec>> \in files

\* delete_run deletes the run: all its rows, and no row of another run.
DeletesTheRun ==
    [][\A p \in Projects : \A id \in Runs \cup {NoRun}, n \in Names :
          DeleteRun(p, id, n) =>
             \E r \in Runs \cup {NoRun} :
                base'[p] = {row \in base[p] : row.run # r}
      ]_projectVars

=============================================================================
