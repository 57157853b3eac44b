----------------------------- MODULE BucketSpill ------------------------------
(***************************************************************************)
(* A run that logs to a Space which is not up yet, or goes on failing, and *)
(* has a bucket attached (run.py): what cannot be sent is kept in the      *)
(* local database, written to the bucket's inbox as fragments while the    *)
(* sender waits and when the run finishes, and imported by the Space       *)
(* (fragments.py).  RunSender has the same thread without a bucket.        *)
(***************************************************************************)
EXTENDS Naturals, FiniteSets

CONSTANTS SpillEntries,  \* what the run logs
          SpillKind,     \* metric (system metrics are alike), upload or alert
          NoEntry,
          MaxSpillFaults \* calls to the bucket or the Space that fail, before or after taking effect

ASSUME SpillAssumption == NoEntry \notin SpillEntries /\ MaxSpillFaults \in Nat

VARIABLES mode,      \* TRACKIO_STORAGE_MODE of the client, sqlite or jsonl
          spaceUp,   \* the Space answers
          state,     \* open, stopping, draining (finish goes on), finished, ended (no process)
          thread,    \* what the sender thread does
          connected, \* _client is set
          queued,    \* the queued_* lists
          first,     \* the metric entry that carries the run's config
          pend,      \* tagged rows and pending uploads in the local database
          noted,     \* _spilled_metric_ids
          flag,      \* _has_local_buffer
          act,       \* per actor, the spill or drain it is in
          spilled,   \* fragments in the bucket's inbox
          media,     \* uploads in the bucket
          inSpace,   \* what the database of the Space holds
          config,    \* it has the run's config
          import,    \* the import of the bucket's inbox on the Space
          entered, lost, replayed, \* history: entries logged, lost for the Space, sent by a replay
          faulty     \* faults so far

database == <<pend, noted, flag>>
spaceSide == <<spilled, media, inSpace, config, import, spaceUp>>
spillHistory == <<entered, lost, replayed>>
spillVars == <<mode, state, thread, connected, queued, first, act, database, spaceSide,
               spillHistory, faulty>>

Kinds == {"metric", "upload", "alert"}

OfKind(S, k) == {e \in S : SpillKind[e] = k}

Actors == {"sender", "finish"}

NoAct == [pc |-> "idle", ids |-> {}, entries |-> {}]

NoImport == [pc |-> "idle", todo |-> {}, consumed |-> {}]

SpillInit ==
    /\ mode \in {"sqlite", "jsonl"}
    /\ spaceUp = FALSE /\ state = "open" /\ thread = "connecting" /\ connected = FALSE
    /\ queued = {} /\ first = NoEntry
    /\ pend = {} /\ noted = {} /\ flag = FALSE
    /\ act = [a \in Actors |-> NoAct]
    /\ spilled = {} /\ media = {} /\ inSpace = {} /\ config = FALSE /\ import = NoImport
    /\ entered = {} /\ lost = {} /\ replayed = {}
    /\ faulty = 0

\* A call returns, fails, or fails after it took effect.
Outcomes == {"ok", "fails", "late"}

Call(o) == /\ o # "ok" => faulty < MaxSpillFaults
           /\ faulty' = IF o = "ok" THEN faulty ELSE faulty + 1

Reaches(o) == o \in {"ok", "late"}

\* A faulty variant: a fragment has the config when one of its records came with it.
FragmentAsItIs(S, own) == [rows |-> S, config |-> own]

\* _attach_run_config gives it to a metric record of this run otherwise.
Fragment(S, own) == [rows |-> S, config |-> own \/ OfKind(S, "metric") # {}]

-----------------------------------------------------------------------------
(* The user's process. *)

LogEntry(e) ==
    /\ state = "open" /\ e \notin entered
    /\ entered' = entered \cup {e}
    /\ queued' = queued \cup {e}
    /\ first' = IF first = NoEntry /\ SpillKind[e] = "metric" THEN e ELSE first
    /\ UNCHANGED <<mode, state, thread, connected, database, act, spaceSide, lost, replayed,
                   faulty>>

\* The _persist_* functions and _write_alerts_to_sqlite on a batch of one kind: rows of the
\* local database or fragments, according to the mode; where the bucket cannot be written,
\* metrics and alerts end in the local inbox or as untagged alerts, where nobody looks.
Persist(S, o) ==
    LET k == CHOOSE q \in Kinds : OfKind(S, q) # {}
        direct == mode = "jsonl" \/ k = "alert"
        rest == IF o = "ok" THEN {} ELSE S IN
    /\ ~direct => o = "ok"
    /\ spilled' = IF direct /\ k # "upload" /\ Reaches(o)
                 THEN spilled \cup {Fragment(S, first \in S)} ELSE spilled
    /\ media' = IF direct /\ k = "upload" /\ Reaches(o) THEN media \cup S ELSE media
    /\ pend' = IF ~direct THEN pend \cup S
               ELSE IF k = "upload" THEN pend \cup rest ELSE pend
    /\ flag' = (flag \/ pend' # pend)
    /\ lost' = IF direct /\ k # "upload" THEN lost \cup rest ELSE lost

\* _flush_queues_inline, one list at a time.
FlushList(k, o) ==
    /\ OfKind(queued, k) # {}
    /\ Call(o)
    /\ Persist(OfKind(queued, k), o)
    /\ queued' = queued \ OfKind(queued, k)
    /\ UNCHANGED <<mode, state, connected, first, noted, act, inSpace, config, import, spaceUp,
                   entered, replayed>>

\* finish sets the stop flag and waits for the thread, but not for ever.
Finish == /\ state = "open"
          /\ state' = "stopping"
          /\ UNCHANGED <<mode, thread, connected, queued, first, database, act, spaceSide,
                         spillHistory, faulty>>

JoinEnds == /\ state = "stopping"
            /\ state' = "draining"
            /\ UNCHANGED <<mode, thread, connected, queued, first, database, act, spaceSide,
                           spillHistory, faulty>>

\* The thread is still alive without a client: finish flushes the queues itself.
FinishFlushes(k, o) == /\ state = "draining" /\ thread # "gone" /\ ~connected
                       /\ act["finish"].pc = "idle"
                       /\ FlushList(k, o)
                       /\ UNCHANGED thread

FinishEnds == /\ state = "draining" /\ act["finish"].pc = "idle"
              /\ pend = {} /\ (thread # "gone" /\ ~connected => queued = {})
              /\ state' = "finished"
              /\ UNCHANGED <<mode, thread, connected, queued, first, database, act, spaceSide,
                             spillHistory, faulty>>

\* The process ends: with it what is in memory.
ProcessEnds == /\ state # "ended"
               /\ state' = "ended" /\ thread' = "gone"
               /\ act' = [a \in Actors |-> NoAct]
               /\ lost' = lost \cup queued
               /\ queued' = {}
               /\ UNCHANGED <<mode, connected, first, database, spaceSide, entered, replayed,
                              faulty>>

-----------------------------------------------------------------------------
(* Spilling and draining to the bucket. *)

Working(a) == IF a = "sender" THEN thread = "spilling" ELSE state = "draining"

\* _spill_pending_to_bucket, _drain_pending_to_bucket: the rows not written before.
ReadPending(a) ==
    /\ Working(a) /\ act[a].pc = "idle"
    /\ a = "sender" => queued = {}
    /\ a = "finish" => pend # {} /\ (thread # "gone" /\ ~connected => queued = {})
    /\ LET ids == OfKind(pend, "metric") IN
       act' = [act EXCEPT ![a] = [pc |-> "write", ids |-> ids, entries |-> ids \ noted]]
    /\ UNCHANGED <<mode, state, thread, connected, queued, first, database, spaceSide,
                   spillHistory, faulty>>

\* An error is swallowed: the spill is tried again later, finish gives up.
GivesUp(a) == /\ act' = [act EXCEPT ![a] = NoAct]
              /\ thread' = IF a = "sender" THEN "connecting" ELSE thread
              /\ state' = IF a = "finish" THEN "finished" ELSE state

\* A faulty variant: the rows are noted before they are written.
NotedAfter(o, ids) == noted \cup ids

\* The fragment is written, then the rows are noted.
NotedBy(o, ids) == IF o = "ok" THEN noted \cup ids ELSE noted

WriteFragment(a, o) ==
    /\ act[a].pc = "write"
    /\ act[a].entries = {} => o = "ok"
    /\ Call(o)
    /\ spilled' = IF act[a].entries # {} /\ Reaches(o)
                 THEN spilled \cup {Fragment(act[a].entries, FALSE)} ELSE spilled
    /\ noted' = IF a = "sender" THEN NotedBy(o, act[a].ids) ELSE noted
    /\ IF o = "ok" THEN /\ act' = [act EXCEPT ![a].pc = IF a = "finish" THEN "clear" ELSE "uploads"]
                        /\ UNCHANGED <<thread, state>>
       ELSE GivesUp(a)
    /\ UNCHANGED <<mode, connected, queued, first, pend, flag, media, inSpace, config, import,
                   spaceUp,
                   spillHistory>>

\* A faulty variant: all tagged rows are cleared, read or not.
ClearedAll(ids) == pend \ OfKind(pend, "metric")

\* The rows that were read are cleared.
Cleared(ids) == pend \ ids

\* Only the drain clears rows: the spill leaves them to a replay.
ClearDrained ==
    /\ act["finish"].pc = "clear"
    /\ pend' = Cleared(act["finish"].ids)
    /\ noted' = noted \cup act["finish"].ids
    /\ act' = [act EXCEPT !["finish"].pc = "uploads"]
    /\ UNCHANGED <<mode, state, thread, connected, queued, first, flag, spaceSide, spillHistory,
                   faulty>>

\* _flush_pending_uploads_to_bucket; the drain then looks at what is left.
FlushUploads(a, o) ==
    /\ act[a].pc = "uploads"
    /\ LET files == OfKind(pend, "upload") IN
       /\ files = {} => o = "ok"
       /\ Call(o)
       /\ media' = IF Reaches(o) THEN media \cup files ELSE media
       /\ pend' = IF o = "ok" THEN pend \ files ELSE pend
    /\ flag' = IF a = "finish" /\ o = "ok" THEN pend' # {} ELSE flag
    /\ GivesUp(a)
    /\ UNCHANGED <<mode, connected, queued, first, noted, spilled, inSpace, config, import,
                   spaceUp,
                   spillHistory>>

-----------------------------------------------------------------------------
(* The sender thread. *)

\* _init_client_background
Connect == /\ thread = "connecting" /\ state = "open" /\ spaceUp
           /\ thread' = "sending" /\ connected' = TRUE
           /\ UNCHANGED <<mode, state, queued, first, database, act, spaceSide, spillHistory,
                          faulty>>

\* _spill_queues_while_waiting, when there is something to spill.
SpillWhileWaiting == /\ thread = "connecting" /\ state = "open"
                     /\ queued # {} \/ flag
                     /\ thread' = "spilling"
                     /\ UNCHANGED <<mode, state, connected, queued, first, database, act,
                                    spaceSide,
                                    spillHistory, faulty>>

SpillFlushes(k, o) == /\ thread = "spilling" /\ act["sender"].pc = "idle"
                      /\ FlushList(k, o)
                      /\ UNCHANGED thread

\* _batch_sender without a client, once the run is stopping.
UnsentFlushes(k, o) == /\ thread = "connecting" /\ state # "open"
                       /\ FlushList(k, o)
                       /\ UNCHANGED thread

ThreadGone == /\ \/ thread = "connecting" /\ state # "open" /\ queued = {}
                 \/ thread = "sending" /\ state # "open" /\ queued = {} /\ ~flag
              /\ thread' = "gone"
              /\ UNCHANGED <<mode, state, connected, queued, first, database, act, spaceSide,
                             spillHistory, faulty>>

Arrive(S, o, withConfig) ==
    /\ inSpace' = IF Reaches(o) THEN inSpace \cup S ELSE inSpace
    /\ config' = (config \/ (Reaches(o) /\ withConfig))

\* One list of a round: what fails is persisted; its bucket call works.
SendList(k, o) ==
    /\ thread = "sending"
    /\ LET S == OfKind(queued, k) IN
       /\ S # {}
       /\ Call(o)
       /\ Arrive(S, o, first \in S)
       /\ queued' = queued \ S
       /\ IF o = "ok" THEN UNCHANGED <<spilled, media, pend, flag, lost>> ELSE Persist(S, "ok")
    /\ UNCHANGED <<mode, state, thread, connected, first, noted, act, import, spaceUp, entered,
                   replayed>>

\* _flush_local_buffer sends what is tagged and clears it; a replayed row has no config.
Replay(o) ==
    /\ thread = "sending" /\ queued = {} /\ flag
    /\ Call(o)
    /\ Arrive(pend, o, FALSE)
    /\ replayed' = IF Reaches(o) THEN replayed \cup pend ELSE replayed
    /\ pend' = IF o = "ok" THEN {} ELSE pend
    /\ flag' = (flag /\ o # "ok")
    /\ thread' = IF o # "ok" /\ state # "open" THEN "gone" ELSE thread
    /\ UNCHANGED <<mode, state, connected, queued, first, noted, act, spilled, media, import,
                   spaceUp,
                   entered, lost>>

-----------------------------------------------------------------------------
(* The Space. *)

SpaceStarts == /\ ~spaceUp /\ spaceUp' = TRUE
               /\ UNCHANGED <<mode, state, thread, connected, queued, first, database, act,
                              spilled,
                              media, inSpace, config, import, spillHistory, faulty>>

\* import_inbox_from_bucket lists the inbox, ...
ListInbox == /\ spaceUp /\ import.pc = "idle" /\ spilled # {}
             /\ import' = [pc |-> "import", todo |-> spilled, consumed |-> {}]
             /\ UNCHANGED <<mode, state, thread, connected, queued, first, database, act, spilled,
                            media, inSpace, config, spaceUp, spillHistory, faulty>>

\* ... imports what it can download, ...
ImportFragment(f, o) ==
    /\ import.pc = "import" /\ f \in import.todo
    /\ o = "late" => FALSE
    /\ Call(o)
    /\ Arrive(f.rows, o, f.config)
    /\ import' = [import EXCEPT !.todo = @ \ {f},
                                !.consumed = IF o = "ok" THEN @ \cup {f} ELSE @]
    /\ UNCHANGED <<mode, state, thread, connected, queued, first, database, act, spilled, media,
                   spaceUp, spillHistory>>

\* A faulty variant: what was listed is deleted.
ConsumedAsListed(i) == spilled

\* ... and deletes that.
Consumed(i) == i.consumed

DeleteConsumed(o) ==
    /\ import.pc = "import" /\ import.todo = {}
    /\ Call(o)
    /\ spilled' = IF Reaches(o) THEN spilled \ Consumed(import) ELSE spilled
    /\ import' = NoImport
    /\ UNCHANGED <<mode, state, thread, connected, queued, first, database, act, media, inSpace,
                   config, spaceUp, spillHistory>>

\* The Space restarts in the middle of it.
ImportDies == /\ import.pc # "idle" /\ faulty < MaxSpillFaults
              /\ faulty' = faulty + 1
              /\ import' = NoImport
              /\ UNCHANGED <<mode, state, thread, connected, queued, first, database, act,
                             spilled,
                             media, inSpace, config, spaceUp, spillHistory>>

SpillNext ==
    \/ \E e \in SpillEntries : LogEntry(e)
    \/ Finish \/ JoinEnds \/ FinishEnds \/ ProcessEnds
    \/ Connect \/ SpillWhileWaiting \/ ThreadGone
    \/ ClearDrained
    \/ \E a \in Actors : ReadPending(a)
    \/ SpaceStarts \/ ListInbox \/ ImportDies
    \/ \E o \in Outcomes :
         \/ \E k \in Kinds : \/ FinishFlushes(k, o) \/ SpillFlushes(k, o) \/ UnsentFlushes(k, o)
                             \/ SendList(k, o)
         \/ \E a \in Actors : WriteFragment(a, o) \/ FlushUploads(a, o)
         \/ Replay(o)
         \/ \E f \in import.todo : ImportFragment(f, o)
         \/ DeleteConsumed(o)

SpillSpec == SpillInit /\ [][SpillNext]_spillVars

-----------------------------------------------------------------------------
(* Properties. *)

SpillTypeOK ==
    /\ mode \in {"sqlite", "jsonl"} /\ spaceUp \in BOOLEAN /\ connected \in BOOLEAN
    /\ state \in {"open", "stopping", "draining", "finished", "ended"}
    /\ thread \in {"connecting", "spilling", "sending", "gone"}
    /\ queued \subseteq entered /\ pend \subseteq entered /\ inSpace \subseteq entered
    /\ noted \subseteq entered
    /\ \A f \in spilled : f.rows \subseteq entered /\ f.config \in BOOLEAN
    /\ faulty \in 0..MaxSpillFaults

InBucket == UNION {f.rows : f \in spilled}

\* Whatever fails, and whoever spills, drains, replays or imports beside it, an entry is in
\* the queue, in the local database, in the bucket or on the Space, unless its process ended
\* with it in the queue or a fragment of the batch could not be written.
SpillKept == entered \subseteq queued \cup pend \cup InBucket \cup media \cup inSpace \cup lost

\* When finish has returned and the thread is gone, and no call failed, nothing waits for a
\* later run: it is all in the bucket or on the Space (the message of run.py:1622-1627).
FinishedIsOut == state = "finished" /\ thread = "gone" /\ faulty = 0 =>
                     pend = {} /\ entered \subseteq InBucket \cup media \cup inSpace

\* The config of the run is on the Space once its first metrics are, unless a replay took
\* them there: replayed rows come without it, fragments are given it.
ConfigUnlessReplayed == first \in inSpace \ replayed => config

SpillSound == SpillKept /\ FinishedIsOut /\ ConfigUnlessReplayed

=============================================================================
