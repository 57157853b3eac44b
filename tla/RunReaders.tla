------------------------------ MODULE RunReaders ------------------------------
(***************************************************************************)
(* What the two engines answer about the runs of a project, from the rows  *)
(* it holds: the run records, the artifact links of a run and their        *)
(* counts, metric values around a time, and the pages of a run's history.  *)
(*                                                                         *)
(* The rows grow in any order of their times: clients stamp their own      *)
(* metrics, and replays and inbox imports come late.  A client reads a     *)
(* history page by page meanwhile.                                         *)
(***************************************************************************)
EXTENDS Integers, FiniteSets, SequencesExt

CONSTANTS ReadIds,      \* run ids
          ReadNames,    \* run names
          NoId,         \* the run_id of a link logged by name only
          Versions,     \* artifact versions
          LastTime,     \* times are 0 .. LastTime
          DayLength,    \* seconds in a day
          PageSize,     \* the limit a client pages with
          MaxRows,      \* metric rows and artifact links logged
          MaxErased     \* runs deleted

ASSUME ReadersAssumption == NoId \notin ReadIds /\ PageSize \in Nat \ {0} /\ MaxRows \in Nat

VARIABLES metrics,  \* metric rows, in the order of their arrival
          links,    \* artifact links, in the order of their arrival
          erased,   \* runs deleted
          pager     \* the client that reads a history page by page

readersVars == <<metrics, links, erased, pager>>

Times == 0..LastTime

MetricRow == [id : ReadIds, name : ReadNames, time : Times]

LinkRow == [id : ReadIds \cup {NoId}, name : ReadNames, version : Versions,
            direction : {"input", "output"}]

Ordered(S, before(_, _)) ==
    [k \in 1..Cardinality(S) |-> CHOOSE x \in S : Cardinality({y \in S : before(y, x)}) = k - 1]

\* The elements of s at the places in S, in their order.
AtPlaces(s, S) == LET order == Ordered(S, <) IN [k \in DOMAIN order |-> s[order[k]]]

-----------------------------------------------------------------------------
(* Run records. *)

MetricIds == {m.id : m \in ToSet(metrics)}

MetricNames == {m.name : m \in ToSet(metrics)}

MinOf(S) == CHOOSE x \in S : \A y \in S : x <= y

\* MIN(timestamp) of the metrics of a run under a name.
FirstTime(r, n) == MinOf({m.time : m \in {x \in ToSet(metrics) : x.id = r /\ x.name = n}})

\* _resolve_run_identity: an id is taken as it is, a name means the run of
\* that name whose first row is the latest (any of them on a tie).
SqliteIdentity(name, id) ==
    IF id # NoId THEN {id}
    ELSE LET named == {m.id : m \in {x \in ToSet(metrics) : x.name = name}} IN
         {r \in named : \A q \in named : FirstTime(q, name) <= FirstTime(r, name)}

\* Faulty variant: a link by name only counts beside links of that name's ids.
LinkSourceByName == {l \in ToSet(links) : l.name \notin MetricNames /\ l.id \notin MetricIds}

\* The links that introduce a run unknown to the metrics.
LinkSource ==
    {l \in ToSet(links) : /\ l.name \notin MetricNames
                          /\ l.id \notin MetricIds
                          /\ l.id = NoId => ~\E k \in ToSet(links) : k.id # NoId /\ k.name = l.name}

\* get_run_records, as pairs of id and name.
SqliteRecords == {<<m.id, m.name>> : m \in ToSet(metrics)}
                 \cup {<<l.id, l.name>> : l \in LinkSource}

\* _run_records_from_evidence: the metrics' pairs first, then those of the
\* links that none of its three tests skips.
DorisRecords ==
    LET pairs == {<<m.id, m.name>> : m \in ToSet(metrics)}
        idNames == {l.name : l \in {k \in ToSet(links) : k.id # NoId}}
        skipped(l) == \/ l.name \in {p[2] : p \in pairs}
                      \/ l.id # NoId /\ l.id \in {p[1] : p \in pairs}
                      \/ l.id = NoId /\ l.name \in idNames
    IN  pairs \cup {<<l.id, l.name>> : l \in {k \in ToSet(links) : ~skipped(k)}}

-----------------------------------------------------------------------------
(* Artifact links of runs. *)

\* Faulty variant: a link without a run goes to any run of its name.
OwnerOfFirst(l, records) ==
    LET named == {p[1] : p \in {q \in records : q[2] = l.name}} \ {NoId} IN
    IF l.id # NoId /\ \E p \in records : p[1] = l.id THEN l.id
    ELSE IF named # {} THEN CHOOSE r \in named : TRUE ELSE NoId

\* The run a link is counted for: its own, or the sole record of its name.
OwnerOf(l, records) ==
    LET named == {p[1] : p \in {q \in records : q[2] = l.name}} \ {NoId} IN
    IF l.id # NoId /\ \E p \in records : p[1] = l.id THEN l.id
    ELSE IF Cardinality(named) = 1 THEN CHOOSE r \in named : TRUE ELSE NoId

Link(l) == <<l.version, l.direction>>

\* get_run_artifact_counts: per key of id and name, the distinct links.
Counts(records) ==
    [key \in {<<OwnerOf(l, records), l.name>> : l \in ToSet(links)} |->
        {Link(l) : l \in {k \in ToSet(links) : <<OwnerOf(k, records), k.name>> = key}}]

SqliteCounts == Counts(SqliteRecords)

DorisCounts == Counts(DorisRecords)

\* valid_run_ids of get_run_artifacts.
ValidIds == MetricIds \cup {l.id : l \in {k \in ToSet(links) : /\ k.id # NoId
                                                               /\ k.name \notin MetricNames
                                                               /\ k.id \notin MetricIds}}

\* get_run_artifacts of SQLite, for a name and an id that may be absent.
SqliteArtifacts(name, id) ==
    LET sole(r) == {p[1] : p \in {q \in SqliteRecords : q[2] = name}} = {r}
        of(l, r) == \/ l.id = r
                    \/ sole(r) /\ l.name = name /\ l.id \notin ValidIds
        resolved == SqliteIdentity(name, id)
    IN  IF resolved = {} THEN {{Link(l) : l \in {k \in ToSet(links) : k.name = name}}}
        ELSE {{Link(l) : l \in {k \in ToSet(links) : of(k, r)}} : r \in resolved}

\* get_run_artifacts of Doris: by the resolved id alone.
DorisArtifacts(name, id) ==
    LET resolved == SqliteIdentity(name, id) IN
    IF resolved = {} THEN {{Link(l) : l \in {k \in ToSet(links) : k.name = name}}}
    ELSE {{Link(l) : l \in {k \in ToSet(links) : k.id = r}} : r \in resolved}

\* What the Runs page shows for a record: the counts of its id, and those of
\* its name when no other record has the name.
Shown(counts, records, p) ==
    LET byId == {k \in DOMAIN counts : k[1] # NoId /\ k[1] = p[1]}
        sole == Cardinality({q \in records : q[2] = p[2]}) = 1
        byName == {k \in DOMAIN counts : k[1] = NoId /\ k[2] = p[2] /\ (p[1] = NoId \/ sole)}
    IN  Cardinality(UNION {{<<k, x>> : x \in counts[k]} : k \in byId \cup byName})

-----------------------------------------------------------------------------
(* Metric values around a time. *)

Day(t) == t \div DayLength

\* SQLite compares the row's "YYYY-MM-DDTHH..." with datetime()'s
\* "YYYY-MM-DD HH..." as texts: within a day, the T is above every time.
AtOrAbove(t, bound) == Day(t) >= Day(bound)

Below(t, bound) == Day(t) < Day(bound)

SqliteAround(rows, at, window) ==
    {m \in rows : AtOrAbove(m.time, at - window) /\ Below(m.time, at + window)}

\* _filter_metric_rows.
DorisAround(rows, at, window) == {m \in rows : at - window <= m.time /\ m.time <= at + window}

-----------------------------------------------------------------------------
(* Pages of a run's history. *)

\* The rows of a run, ORDER BY timestamp and arrival.
History(r) ==
    LET at == {i \in DOMAIN metrics : metrics[i].id = r}
        before(i, j) == \/ metrics[i].time < metrics[j].time
                        \/ metrics[i].time = metrics[j].time /\ i < j
    IN  Ordered(at, before)

\* get_traces of the rows, ORDER BY timestamp DESC: the newest first.
TraceHistory(r) == Reverse(History(r))

\* _subsample_metric_rows: every step-th row, and the last one.
Subsample(s, max) ==
    IF max < 1 \/ Len(s) <= max THEN s
    ELSE LET kept == {(i * Len(s)) \div max : i \in 0..max - 1} \cup {Len(s) - 1}
         IN  AtPlaces(s, {i + 1 : i \in kept})

\* What is left of a long history is in order, no longer than asked for but
\* for its last row, and keeps the first row and the last.
ASSUME SubsampleKeepsEnds ==
    \A n \in 1..12, max \in 1..12 :
       LET kept == Subsample([i \in 1..n |-> i], max) IN
       /\ Len(kept) <= max + 1
       /\ kept[1] = 1 /\ kept[Len(kept)] = n
       /\ \A i \in 2..Len(kept) : kept[i - 1] < kept[i]

\* Faulty variant: a page is taken from the subsampled history.
PageSubsampled(s, offset, limit) ==
    SubSeq(Subsample(s, limit), offset + 1, MinOf({Len(Subsample(s, limit)), offset + limit}))

\* LIMIT and OFFSET of get_logs, which subsamples only whole histories.
Page(s, offset, limit) == SubSeq(s, offset + 1, MinOf({Len(s), offset + limit}))

NoPager == [on |-> FALSE, traces |-> FALSE, name |-> "none", id |-> NoId, run |-> NoId,
            offset |-> 0, expected |-> {}, read |-> {}, moved |-> FALSE]

-----------------------------------------------------------------------------
ReadersInit == /\ metrics = << >>
               /\ links = << >>
               /\ erased = 0
               /\ pager = NoPager

\* bulk_log of one row, with the time its client gives; a run keeps its name.
LogRow(row) ==
    /\ Len(metrics) + Len(links) < MaxRows
    /\ \A m \in ToSet(metrics) : m.id = row.id => m.name = row.name
    /\ metrics' = Append(metrics, row)
    /\ UNCHANGED <<links, erased, pager>>

\* insert_run_artifact_link and commit_artifact_version.
LinkVersion(row) == /\ Len(metrics) + Len(links) < MaxRows
                    /\ links' = Append(links, row)
                    /\ UNCHANGED <<metrics, erased, pager>>

\* delete_run drops the rows of the run and its links.
EraseRun(r) ==
    /\ erased < MaxErased
    /\ erased' = erased + 1
    /\ \E i \in DOMAIN metrics : metrics[i].id = r
    /\ metrics' = AtPlaces(metrics, {i \in DOMAIN metrics : metrics[i].id # r})
    /\ links' = AtPlaces(links, {i \in DOMAIN links : links[i].id # r})
    /\ pager' = NoPager

\* A client asks for the first page of a run's metrics or traces, by the id
\* of the run or by its name.
OpenHistory(name, id) ==
    \E r \in SqliteIdentity(name, id), traces \in BOOLEAN :
       /\ ~pager.on
       /\ pager' = [NoPager EXCEPT !.on = TRUE, !.traces = traces, !.name = name, !.id = id,
                                   !.run = r, !.expected = ToSet(History(r))]
       /\ UNCHANGED <<metrics, links, erased>>

\* get_logs or get_traces of the next page; a short page is the last one.  The name of the
\* run is resolved again, to a later run that has it by now.
ReadPage ==
    \E r \in SqliteIdentity(pager.name, pager.id) :
       LET rows == IF pager.traces THEN TraceHistory(r) ELSE History(r)
           page == Page(rows, pager.offset, PageSize) IN
       /\ pager.on
       /\ pager' = [pager EXCEPT !.read = @ \cup ToSet(page), !.offset = @ + PageSize,
                                 !.on = Len(page) = PageSize, !.moved = @ \/ r # pager.run]
       /\ UNCHANGED <<metrics, links, erased>>

ReadersNext ==
    \/ \E row \in MetricRow : LogRow(row)
    \/ \E row \in LinkRow : LinkVersion(row)
    \/ \E r \in ReadIds : EraseRun(r)
    \/ \E n \in ReadNames : OpenHistory(n, NoId)
    \/ \E r \in ReadIds : OpenHistory("none", r)
    \/ ReadPage

ReadersSpec == ReadersInit /\ [][ReadersNext]_readersVars

-----------------------------------------------------------------------------
(* Properties. *)

ReadersTypeOK ==
    /\ metrics \in Seq(MetricRow)
    /\ links \in Seq(LinkRow)
    /\ pager.expected \subseteq 1..MaxRows /\ pager.read \subseteq 1..MaxRows

\* The two engines list the same runs and count the same artifacts for them,
\* whatever names and ids the rows carry ("Apply the same run-discovery rules
\* as SQLiteStorage"); Doris lists no artifact of a run that SQLite does not,
\* and the same when every link has an id.
EnginesAgree ==
    /\ SqliteRecords = DorisRecords
    /\ SqliteCounts = DorisCounts
    /\ \A p \in SqliteRecords :
          /\ \A d \in DorisArtifacts(p[2], p[1]) :
                \E s \in SqliteArtifacts(p[2], p[1]) : d \subseteq s
          /\ (\A l \in ToSet(links) : l.id \in ValidIds)
                => DorisArtifacts(p[2], p[1]) = SqliteArtifacts(p[2], p[1])

\* The counts the Runs page shows of a run are those of the artifacts SQLite
\* lists for it ("mirroring get_run_artifact_counts"), links without a run
\* included, unless a caller linked an artifact to the id under another name.
CountsMatchLists ==
    \A p \in {q \in SqliteRecords : \A l \in ToSet(links) : l.id = q[1] => l.name = q[2]} :
    \A shown \in SqliteArtifacts(p[2], p[1]) :
       Shown(SqliteCounts, SqliteRecords, p) = Cardinality(shown)

\* A client that reads a run's history page by page, while rows of any time
\* arrive, reads every row the run had when it began, unless it names the run
\* and a page is of a later run of that name.
PagesMissNothing == ~pager.on /\ ~pager.moved => pager.expected \subseteq pager.read

\* get_metric_values with at_time and window: "return rows within +-window
\* seconds of the ISO timestamp".  Only Doris does; SQLite answers by the day,
\* so that this is no invariant of the instances.
AtTimeInWindow ==
    \A at \in Times, window \in 1..LastTime :
       SqliteAround(ToSet(metrics), at, window) = DorisAround(ToSet(metrics), at, window)

=============================================================================
