------------------------------ MODULE LogsCache ------------------------------
(***************************************************************************)
(* The caches in front of get_logs and get_system_logs on a Space          *)
(* (sqlite_storage.py): per query the rows of its last reply, kept under   *)
(* the modification time of the database and its write-ahead log, and      *)
(* believed as long as that time does not change.                          *)
(*                                                                         *)
(* The rows of a query are abstracted to the number of commits they show.  *)
(***************************************************************************)
EXTENDS Naturals, FiniteSets, SequencesExt

CONSTANTS Queries,      \* project, run, max_points and scalar_only
          Bulky,        \* queries of more than _LOGS_READ_CACHE_MAX_ROWS_PER_ENTRY rows
          Readers,      \* request threads
          MaxCached,    \* _LOGS_READ_CACHE_MAX_KEYS
          MaxCommits    \* bound on commits and checkpoints

ASSUME LogsCacheAssumption == MaxCached \in Nat \ {0} /\ Bulky \subseteq Queries

VARIABLES commits,   \* commits so far: what the database holds
          mtime,     \* the modification time of its files
          cached,    \* _LOGS_READ_CACHE, an insertion-ordered dictionary: a
                     \*   sequence of [query, mtime, rows]
          reader,    \* per thread, its request
          raced,     \* history: entries put after a commit that their rows do
                     \*   not show, or before another one at the same time
          cacheCount

cacheVars == <<commits, mtime, cached, reader, raced, cacheCount>>

Resigned == [at |-> "none"]

CacheInit == /\ commits = 0 /\ mtime = 0
             /\ cached = << >>
             /\ reader = [x \in Readers |-> Resigned]
             /\ raced = {}
             /\ cacheCount = 0

Entry(q) == {entry \in Range(cached) : entry.query = q}

\* A commit; within one tick of the clock the time stays.  A checkpoint changes
\* the time alone.
Commits(ticks) ==
    /\ cacheCount < MaxCommits
    /\ cacheCount' = cacheCount + 1
    /\ commits' = commits + 1
    /\ mtime' = IF ticks THEN mtime + 1 ELSE mtime
    /\ raced' = raced \cup {entry \in Range(cached) : ~ticks /\ entry.mtime = mtime}
    /\ UNCHANGED <<cached, reader>>

Checkpoints == /\ cacheCount < MaxCommits
               /\ cacheCount' = cacheCount + 1
               /\ mtime' = mtime + 1
               /\ UNCHANGED <<commits, cached, reader, raced>>

\* Faulty variant: an entry is believed however old it is.
LookUpUndated(x, q) ==
    /\ reader[x].at \in {"none", "answered"}
    /\ reader' = [reader EXCEPT ![x] =
          IF Entry(q) # {}
          THEN LET hit == CHOOSE entry \in Entry(q) : TRUE
               IN [at |-> "answered", rows |-> hit.rows, since |-> commits,
                   raced |-> hit \in raced]
          ELSE [at |-> "reading", query |-> q, since |-> commits]]
    /\ UNCHANGED <<commits, mtime, cached, raced, cacheCount>>

Outdated(q) == {i \in DOMAIN cached : cached[i].query = q /\ cached[i].mtime # mtime}

\* _logs_read_cache_get: an entry of another time is deleted.
LookUp(x, q) ==
    /\ reader[x].at \in {"none", "answered"}
    /\ reader' = [reader EXCEPT ![x] =
          IF \E entry \in Entry(q) : entry.mtime = mtime
          THEN LET hit == CHOOSE entry \in Entry(q) : TRUE
               IN [at |-> "answered", rows |-> hit.rows, since |-> commits,
                   raced |-> hit \in raced]
          ELSE [at |-> "reading", query |-> q, since |-> commits]]
    /\ cached' = IF Outdated(q) = {} THEN cached
                 ELSE RemoveAt(cached, CHOOSE i \in Outdated(q) : TRUE)
    /\ UNCHANGED <<commits, mtime, raced, cacheCount>>

\* The rows are read; the time is read later, by the put.
ReadLogs(x) ==
    /\ reader[x].at = "reading"
    /\ reader' = [reader EXCEPT ![x] = [at |-> "putting", query |-> @.query, rows |-> commits,
                                        since |-> @.since]]
    /\ UNCHANGED <<commits, mtime, cached, raced, cacheCount>>

\* The oldest entries make room for a new one, even for one whose key is there.
Evicted(entries) == IF Len(entries) < MaxCached THEN entries
                    ELSE SubSeq(entries, Len(entries) - MaxCached + 2, Len(entries))

\* A key that is there keeps its place.
Placed(entries, entry) ==
    IF \E i \in 1..Len(entries) : entries[i].query = entry.query
    THEN [i \in 1..Len(entries) |-> IF entries[i].query = entry.query THEN entry ELSE entries[i]]
    ELSE Append(entries, entry)

\* _logs_read_cache_put, and the reply.
PutLogs(x) ==
    /\ reader[x].at = "putting"
    /\ LET entry == [query |-> reader[x].query, mtime |-> mtime, rows |-> reader[x].rows]
       IN /\ cached' = IF reader[x].query \in Bulky THEN cached
                       ELSE Placed(Evicted(cached), entry)
          /\ raced' = (IF reader[x].rows # commits THEN raced \cup {entry} ELSE raced)
                      \cap Range(cached')
    /\ reader' = [reader EXCEPT ![x] = [at |-> "answered", rows |-> @.rows, since |-> @.since,
                                        raced |-> FALSE]]
    /\ UNCHANGED <<commits, mtime, cacheCount>>

CacheNext == \/ \E ticks \in BOOLEAN : Commits(ticks)
             \/ Checkpoints
             \/ \E x \in Readers : (\E q \in Queries : LookUp(x, q)) \/ ReadLogs(x) \/ PutLogs(x)

CacheSpec == CacheInit /\ [][CacheNext]_cacheVars

----------------------------------------------------------------------------
\* The type invariant: a bounded dictionary.
CacheTypeOK ==
    /\ Len(cached) <= MaxCached
    /\ \A i, j \in 1..Len(cached) : cached[i].query = cached[j].query => i = j
    /\ \A entry \in Range(cached) : entry.mtime <= mtime /\ entry.rows <= commits
                                    /\ entry.query \notin Bulky

\* A reply shows every commit that preceded its request, however old the entry
\* it came from, unless a commit fell between the read and the put of that
\* entry, or within the same tick as its put.
CacheFresh ==
    \A x \in Readers : reader[x].at = "answered" =>
       reader[x].rows >= reader[x].since \/ reader[x].raced

=============================================================================
