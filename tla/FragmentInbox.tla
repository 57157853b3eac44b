---------------------------- MODULE FragmentInbox ----------------------------
(***************************************************************************)
(* The local fragment inbox of trackio (trackio/fragments.py) and the      *)
(* server threads that drain it (trackio/server.py):                       *)
(*                                                                         *)
(*   writers     FragmentWriter.write_local makes an immutable *.jsonl     *)
(*   Scanner     _inbox_poll_loop claims a batch by renaming each file to  *)
(*               *.jsonl.processing, and puts it on the lane's queue       *)
(*   workers     _inbox_import_worker imports what its queue holds         *)
(*   syncers     force_sync requests: recover, claim and import everything *)
(*               in the request's own thread                               *)
(*                                                                         *)
(* The server process may crash at any step; files and committed           *)
(* transactions survive.  A fragment is a number: *.jsonl paths are sorted *)
(* and the number is the position in that order.                           *)
(***************************************************************************)
EXTENDS Naturals, Sequences, FiniteSets

CONSTANTS
  Fragments,      \* fragment files that may be written, in sorted-path order
  Records,        \* log entries
  Content,        \* [Fragments -> SUBSET Records]: what a fragment parses to
  HasTrace,       \* fragments whose contains_trace flag is set
  Txn,            \* [Records -> Nat]: position of the record's run group among
                  \* the transactions of one import_records call
  WithId,         \* records that carry a log_id or an alert_id
  Poison,         \* records that bulk_log refuses every time
  Scanner, MetricWorkers, TraceWorkers, Syncers,   \* threads
  BatchFiles,     \* TRACKIO_INBOX_BATCH_FILES
  MetricSlots, TraceSlots,   \* maxsize of the two queues
  MaxSyncs, MaxCrashes, MaxImportFailures, MaxReadErrors
                  \* bounds on force_sync calls and on faults

Workers   == MetricWorkers \cup TraceWorkers
Claimers  == {Scanner} \cup Syncers
Importers == Workers \cup Syncers
Threads   == {Scanner} \cup Workers \cup Syncers
Lanes     == {"metric", "trace"}

ASSUME InboxAssumption ==
  /\ Fragments \subseteq Nat
  /\ Content \in [Fragments -> SUBSET Records]
  /\ HasTrace \subseteq Fragments
  /\ Txn \in [Records -> Nat]
  /\ WithId \subseteq Records /\ Poison \subseteq Records
  /\ Scanner \notin Workers \cup Syncers
  /\ Workers \cap Syncers = {} /\ MetricWorkers \cap TraceWorkers = {}
  /\ BatchFiles \in Nat \ {0}
  /\ MetricSlots \in Nat \ {0} /\ TraceSlots \in Nat \ {0}
  /\ MaxSyncs \in Nat /\ MaxCrashes \in Nat
  /\ MaxImportFailures \in Nat /\ MaxReadErrors \in Nat

VARIABLES
  written,     \* history: fragments whose write_local returned
  jsonl,       \* fragments visible as *.jsonl
  processing,  \* fragments renamed to *.jsonl.processing
  copies,      \* rows of each record in the database
  queue,       \* _inbox_metric_queue and _inbox_trace_queue
  up,          \* is the server process running?
  pc, todo, held, done,
               \* per thread: control point, files still to visit, fragments
               \* claimed or taken, transactions committed in this import
  faults       \* faults and force_sync calls so far

disk     == <<written, jsonl, processing>>
threads  == <<pc, todo, held, done>>
vars     == <<disk, copies, queue, up, threads, faults>>

------------------------------------------------------------------------------
\* Faulty variant: one queue for scalars and traces.
OneLane(f) == "metric"

Lane(f)     == IF f \in HasTrace THEN "trace" ELSE "metric"
LaneOf(w)   == IF w \in TraceWorkers THEN "trace" ELSE "metric"
Slots(lane) == IF lane = "trace" THEN TraceSlots ELSE MetricSlots

\* Where a thread goes when its call returns or raises.
Rest(p) == IF p = Scanner THEN "listing" ELSE "idle"

\* The file a claiming thread visits next.
First(S) == {f \in S : \A g \in S : f <= g}

\* sorted(inbox.rglob("*.jsonl"))[:max_files]; a force_sync passes None.
Batch(p) ==
  IF p \in Syncers
    THEN jsonl
    ELSE {f \in jsonl : Cardinality({g \in jsonl : g < f}) < BatchFiles}

\* The records of one transaction: import_claimed_fragments imports the
\* fragments without traces first, and import_records makes one storage call
\* for each kind and run.
TxnRecords(S, lane, t) ==
  {r \in Records : Txn[r] = t /\ \E f \in S : Lane(f) = lane /\ r \in Content[f]}

Txns(S) == UNION {{<<Lane(f), Txn[r]>> : r \in Content[f]} : f \in S}

Before(x, y) ==
  \/ x[1] = "metric" /\ y[1] = "trace"
  \/ x[1] = y[1] /\ x[2] < y[2]

\* The transaction thread p commits next, if any.
NextTxn(p) ==
  LET rest == Txns(held[p]) \ done[p]
  IN  {x \in rest : \A y \in rest : ~Before(y, x)}

\* INSERT OR IGNORE on log_id / alert_id; a record without one is a new row.
Insert(S) ==
  [r \in Records |-> IF r \notin S THEN copies[r]
                     ELSE IF r \in WithId THEN 1 ELSE copies[r] + 1]

NoFaults == [crash |-> 0, import |-> 0, read |-> 0, sync |-> 0]
------------------------------------------------------------------------------
Init ==
  /\ written = {} /\ jsonl = {} /\ processing = {}
  /\ copies = [r \in Records |-> 0]
  /\ queue = [lane \in Lanes |-> << >>]
  /\ up = TRUE
  /\ pc   = [p \in Threads |-> Rest(p)]
  /\ todo = [p \in Threads |-> {}]
  /\ held = [p \in Threads |-> {}]
  /\ done = [p \in Threads |-> {}]
  /\ faults = NoFaults

\* write_local: the temporary file is renamed to its final name.  Training
\* processes write too, so the server need not be up.
WriteLocal(f) ==
  /\ f \notin written
  /\ written' = written \cup {f}
  /\ jsonl' = jsonl \cup {f}
  /\ UNCHANGED <<processing, copies, queue, up, threads, faults>>

\* force_sync -> import_inbox_dir(max_files=None) starts by recovering.
ForceSync(s) ==
  /\ up /\ pc[s] = "idle" /\ faults.sync < MaxSyncs
  /\ faults' = [faults EXCEPT !.sync = @ + 1]
  /\ pc' = [pc EXCEPT ![s] = "recovering"]
  /\ todo' = [todo EXCEPT ![s] = processing]
  /\ UNCHANGED <<disk, copies, queue, up, held, done>>

\* Faulty variant: recovery takes every claimed file for a leftover of an import.
RecoverByDeleting(s) ==
  /\ up /\ pc[s] = "recovering"
  /\ \E f \in todo[s] :
       /\ todo' = [todo EXCEPT ![s] = @ \ {f}]
       /\ processing' = processing \ {f}
  /\ UNCHANGED <<written, jsonl, copies, queue, up, pc, held, done, faults>>

\* One file of _recover_processing_fragments.
RecoverFragment(s) ==
  /\ up /\ pc[s] = "recovering"
  /\ \E f \in todo[s] :
       /\ todo' = [todo EXCEPT ![s] = @ \ {f}]
       /\ processing' = processing \ {f}
       /\ jsonl' = IF f \in processing THEN jsonl \cup {f} ELSE jsonl
  /\ UNCHANGED <<written, copies, queue, up, pc, held, done, faults>>

\* The sorted listing that claim_inbox_batch starts from.
ListFragments(p) ==
  /\ up
  /\ \/ pc[p] = "listing"
     \/ pc[p] = "recovering" /\ todo[p] = {}
  /\ pc' = [pc EXCEPT ![p] = "claiming"]
  /\ todo' = [todo EXCEPT ![p] = Batch(p)]
  /\ UNCHANGED <<disk, copies, queue, up, held, done, faults>>

\* Faulty variant: the claim copies the file instead of renaming it.
ClaimByCopy(p) ==
  /\ up /\ pc[p] = "claiming" /\ todo[p] # {}
  /\ processing' = processing \cup First(todo[p])
  /\ pc' = [pc EXCEPT ![p] = "reading"]
  /\ UNCHANGED <<written, jsonl, copies, queue, up, todo, held, done, faults>>

\* fragment_path.replace(processing_path); a file that is gone is skipped.
ClaimFragment(p) ==
  /\ up /\ pc[p] = "claiming"
  /\ \E f \in First(todo[p]) :
       \/ /\ f \in jsonl
          /\ jsonl' = jsonl \ {f}
          /\ processing' = processing \cup {f}
          /\ pc' = [pc EXCEPT ![p] = "reading"]
          /\ UNCHANGED todo
       \/ /\ f \notin jsonl
          /\ todo' = [todo EXCEPT ![p] = @ \ {f}]
          /\ UNCHANGED <<jsonl, processing, pc>>
  /\ UNCHANGED <<written, copies, queue, up, held, done, faults>>

\* read_bytes and parse: a fragment without valid records is unlinked.
ReadFragment(p) ==
  /\ up /\ pc[p] = "reading"
  /\ \E f \in First(todo[p]) :
       /\ f \in processing
       /\ \/ /\ Content[f] # {}
             /\ held' = [held EXCEPT ![p] = @ \cup {f}]
             /\ UNCHANGED processing
          \/ /\ Content[f] = {}
             /\ processing' = processing \ {f}
             /\ UNCHANGED held
       /\ todo' = [todo EXCEPT ![p] = @ \ {f}]
  /\ pc' = [pc EXCEPT ![p] = "claiming"]
  /\ UNCHANGED <<written, jsonl, copies, queue, up, done, faults>>

\* read_bytes raises: another thread has renamed the file away, or the file
\* system fails.  The file goes back if it is there; the exception leaves
\* claim_inbox_batch and with it the list of fragments claimed so far.
ReadFails(p) ==
  /\ up /\ pc[p] = "reading"
  /\ \E f \in First(todo[p]) :
       \/ /\ f \notin processing
          /\ UNCHANGED <<jsonl, processing, faults>>
       \/ /\ f \in processing /\ faults.read < MaxReadErrors
          /\ processing' = processing \ {f}
          /\ jsonl' = jsonl \cup {f}
          /\ faults' = [faults EXCEPT !.read = @ + 1]
  /\ pc' = [pc EXCEPT ![p] = Rest(p)]
  /\ todo' = [todo EXCEPT ![p] = {}]
  /\ held' = [held EXCEPT ![p] = {}]
  /\ UNCHANGED <<written, copies, queue, up, done>>

\* claim_inbox_batch returns: the scanner dispatches, a force_sync imports.
ClaimDone(p) ==
  /\ up /\ pc[p] = "claiming" /\ todo[p] = {}
  /\ pc' = [pc EXCEPT ![p] = IF held[p] = {} THEN Rest(p)
                             ELSE IF p = Scanner THEN "dispatching"
                             ELSE "importing"]
  /\ UNCHANGED <<disk, copies, queue, up, todo, held, done, faults>>

\* Faulty variant: an unbounded put.
DispatchUnbounded ==
  /\ up /\ pc[Scanner] = "dispatching"
  /\ \E f \in held[Scanner] :
       /\ queue' = [queue EXCEPT ![Lane(f)] = Append(@, f)]
       /\ held' = [held EXCEPT ![Scanner] = @ \ {f}]
       /\ pc' = IF held[Scanner] = {f} THEN [pc EXCEPT ![Scanner] = "listing"] ELSE pc
  /\ UNCHANGED <<disk, copies, up, todo, done, faults>>

\* Queue.put, which blocks while the queue is full: metric fragments first.
Dispatch ==
  /\ up /\ pc[Scanner] = "dispatching"
  /\ \E f \in held[Scanner] :
       /\ Lane(f) = "trace" => held[Scanner] \subseteq HasTrace
       /\ Len(queue[Lane(f)]) < Slots(Lane(f))
       /\ queue' = [queue EXCEPT ![Lane(f)] = Append(@, f)]
       /\ held' = [held EXCEPT ![Scanner] = @ \ {f}]
       /\ pc' = IF held[Scanner] = {f} THEN [pc EXCEPT ![Scanner] = "listing"] ELSE pc
  /\ UNCHANGED <<disk, copies, up, todo, done, faults>>

\* work_queue.get() and then get_nowait() up to the batch size; the other
\* workers of the lane may take fragments in between.
TakeBatch(w) ==
  /\ up /\ pc[w] = "idle"
  /\ \E n \in 1..BatchFiles :
       LET q == queue[LaneOf(w)] IN
       /\ n <= Len(q)
       /\ held' = [held EXCEPT ![w] = {q[i] : i \in 1..n}]
       /\ queue' = [queue EXCEPT ![LaneOf(w)] = SubSeq(q, n + 1, Len(q))]
  /\ pc' = [pc EXCEPT ![w] = "importing"]
  /\ UNCHANGED <<disk, copies, up, todo, done, faults>>

\* One Storage.bulk_log / bulk_log_system / bulk_alert transaction.
ImportGroup(p) ==
  /\ up /\ pc[p] = "importing"
  /\ \E x \in NextTxn(p) :
       /\ LET S == TxnRecords(held[p], x[1], x[2]) IN
            S \cap Poison = {} /\ copies' = Insert(S)
       /\ done' = [done EXCEPT ![p] = @ \cup {x}]
  /\ UNCHANGED <<disk, queue, up, pc, todo, held, faults>>

\* Faulty variant: the files are deleted in a finally block.
ImportFailsThenUnlinks(p) ==
  /\ up /\ pc[p] = "importing"
  /\ NextTxn(p) # {} /\ faults.import < MaxImportFailures
  /\ faults' = [faults EXCEPT !.import = @ + 1]
  /\ pc' = [pc EXCEPT ![p] = "unlinking"]
  /\ done' = [done EXCEPT ![p] = {}]
  /\ UNCHANGED <<disk, copies, queue, up, todo, held>>

\* The storage call raises: the record is refused every time, or the database
\* is unavailable, before the commit or (a timeout) after it.
ImportFails(p) ==
  /\ up /\ pc[p] = "importing"
  /\ \E x \in NextTxn(p) :
       LET S == TxnRecords(held[p], x[1], x[2]) IN
            \/ S \cap Poison # {} /\ UNCHANGED <<copies, faults>>
            \/ /\ S \cap Poison = {} /\ faults.import < MaxImportFailures
               /\ copies' \in {copies, Insert(S)}
               /\ faults' = [faults EXCEPT !.import = @ + 1]
  /\ pc' = [pc EXCEPT ![p] = "returning"]
  /\ done' = [done EXCEPT ![p] = {}]
  /\ UNCHANGED <<disk, queue, up, todo, held>>

\* import_records has returned for both halves of the batch.
ImportDone(p) ==
  /\ up /\ pc[p] = "importing"
  /\ Txns(held[p]) \subseteq done[p]
  /\ pc' = [pc EXCEPT ![p] = "unlinking"]
  /\ done' = [done EXCEPT ![p] = {}]
  /\ UNCHANGED <<disk, copies, queue, up, todo, held, faults>>

\* fragment.path.unlink(missing_ok=True), one file at a time.
UnlinkImported(p) ==
  /\ up /\ pc[p] = "unlinking"
  /\ \E f \in held[p] :
       /\ processing' = processing \ {f}
       /\ held' = [held EXCEPT ![p] = @ \ {f}]
       /\ pc' = IF held[p] = {f} THEN [pc EXCEPT ![p] = "idle"] ELSE pc
  /\ UNCHANGED <<written, jsonl, copies, queue, up, todo, done, faults>>

\* The except branch: a claimed file that still exists goes back to *.jsonl.
ReturnFragment(p) ==
  /\ up /\ pc[p] = "returning"
  /\ \E f \in held[p] :
       /\ processing' = processing \ {f}
       /\ jsonl' = IF f \in processing THEN jsonl \cup {f} ELSE jsonl
       /\ held' = [held EXCEPT ![p] = @ \ {f}]
       /\ pc' = IF held[p] = {f} THEN [pc EXCEPT ![p] = "idle"] ELSE pc
  /\ UNCHANGED <<written, copies, queue, up, todo, done, faults>>

\* The process dies: memory is lost, files and committed rows are not.
Crash ==
  /\ up /\ faults.crash < MaxCrashes
  /\ up' = FALSE
  /\ faults' = [faults EXCEPT !.crash = @ + 1]
  /\ queue' = [lane \in Lanes |-> << >>]
  /\ pc'   = [p \in Threads |-> Rest(p)]
  /\ todo' = [p \in Threads |-> {}]
  /\ held' = [p \in Threads |-> {}]
  /\ done' = [p \in Threads |-> {}]
  /\ UNCHANGED <<disk, copies>>

\* Faulty variant: the poller starts without recovery.
StartWithoutRecovery ==
  /\ ~up
  /\ up' = TRUE
  /\ UNCHANGED <<disk, copies, queue, threads, faults>>

\* start_inbox_poller: recover before any thread runs.
StartInboxPoller ==
  /\ ~up
  /\ up' = TRUE
  /\ jsonl' = jsonl \cup processing
  /\ processing' = {}
  /\ UNCHANGED <<written, copies, queue, threads, faults>>

ThreadStep(p) ==
  \/ p \in Claimers /\ ( \/ RecoverFragment(p) \/ ListFragments(p)
                         \/ ClaimFragment(p) \/ ReadFragment(p)
                         \/ ReadFails(p) \/ ClaimDone(p))
  \/ p = Scanner /\ Dispatch
  \/ p \in Workers /\ TakeBatch(p)
  \/ p \in Importers /\ ( \/ ImportGroup(p) \/ ImportFails(p) \/ ImportDone(p)
                          \/ UnlinkImported(p) \/ ReturnFragment(p))

Next ==
  \/ \E f \in Fragments : WriteLocal(f)
  \/ \E s \in Syncers : ForceSync(s)
  \/ \E p \in Threads : ThreadStep(p)
  \/ Crash
  \/ StartInboxPoller

Spec == Init /\ [][Next]_vars

\* Threads keep running (daemon threads of a live process) and a supervisor
\* restarts the server; nothing is assumed of writers, requests and faults.
FairSpec ==
  /\ Spec
  /\ \A p \in Threads : WF_vars(ThreadStep(p))
  /\ WF_vars(StartInboxPoller)
------------------------------------------------------------------------------
PcValues == {"idle", "recovering", "listing", "claiming", "reading",
             "dispatching", "importing", "unlinking", "returning"}

StoreTyped ==
  /\ written \subseteq Fragments
  /\ jsonl \subseteq Fragments /\ processing \subseteq Fragments
  /\ copies \in [Records -> Nat]
  /\ up \in BOOLEAN
  /\ faults \in [crash : Nat, import : Nat, read : Nat, sync : Nat]

ThreadsTyped ==
  /\ pc \in [Threads -> PcValues]
  /\ todo \in [Threads -> SUBSET Fragments]
  /\ held \in [Threads -> SUBSET Fragments]
  /\ done \in [Threads -> SUBSET (Lanes \X Nat)]

\* Both queues are bounded.
QueuesTyped ==
  /\ queue \in [Lanes -> Seq(Fragments)]
  /\ \A lane \in Lanes : Len(queue[lane]) <= Slots(lane)

TypeOK == StoreTyped /\ ThreadsTyped /\ QueuesTyped

Stored == {r \in Records : copies[r] > 0}

\* A fragment whose write_local returned is still a file of the inbox, under
\* one name or the other, until every record in it is in the database, whatever
\* crashes, failures and overlapping force_syncs (the docstring's "deleted only
\* after a successful import").
DeletedOnlyAfterImport ==
  \A f \in written \ (jsonl \cup processing) : Content[f] \subseteq Stored

\* The inbox implements the journal that its callers rely on.
Journal == INSTANCE DurableJournal WITH
             journal <- UNION {Content[f] : f \in jsonl \cup processing},
             table   <- Stored

ImplementsJournal == Journal!Spec

\* The hands a claimed fragment is in: a thread that reads or holds it, or a
\* place in a queue.
Hands(f) ==
  {p \in Threads : \/ f \in held[p]
                   \/ pc[p] = "reading" /\ f \in First(todo[p])}
  \cup UNION {{<<lane, i>> : i \in {j \in DOMAIN queue[lane] : queue[lane][j] = f}}
             : lane \in Lanes}

\* As long as no force_sync runs and no read fails, a claimed fragment is in
\* exactly one hand and a fragment in a hand is claimed: none is imported by two
\* threads, and none is forgotten under its *.processing name.
ClaimedByOne ==
  up /\ faults.sync = 0 /\ faults.read = 0
    => \A f \in Fragments : Cardinality(Hands(f)) = IF f \in processing THEN 1 ELSE 0

\* Where no record is refused every time, a record without log_id gets one row
\* from each fragment that carries it, and from each of them at most one more for
\* each crash, failed import and force_sync: no step multiplies rows on its own.
RowsPerRecord ==
  Poison = {} =>
    \A r \in Records :
      copies[r] <= Cardinality({f \in written : r \in Content[f]})
                   * (1 + faults.crash + faults.import + faults.sync)

\* Every scalar fragment is imported and deleted in the end, with a trace record
\* that no import accepts in the inbox ("the scalar lane is always available").
ScalarLaneDrains ==
  \A f \in Fragments \ HasTrace :
    f \in written ~> f \notin jsonl \cup processing

\* No file keeps its *.processing name for ever.  claim_inbox_batch: "The atomic
\* rename keeps it safe for callers that still use import_inbox_dir
\* concurrently" (force_sync is such a caller).
NoClaimStranded ==
  \A f \in Fragments : f \in processing ~> f \notin processing

\* "re-importing after a crash is harmless": a record has no more rows than
\* fragments that carry it.  With records without a log_id a crash breaks this;
\* what holds of them is RowsPerRecord.
ReimportHarmless ==
  \A r \in Records :
    copies[r] <= Cardinality({f \in written : r \in Content[f]})
=============================================================================
