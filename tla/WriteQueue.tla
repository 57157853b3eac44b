----------------------------- MODULE WriteQueue -----------------------------
(***************************************************************************)
(* The in-memory write queue of a trackio server (trackio/server.py): a     *)
(* bulk_log, bulk_log_system or bulk_alert request writes to the database   *)
(* itself; on a retryable storage error it appends the write to a deque,    *)
(* makes sure that a flush thread runs, and answers the client as if the    *)
(* write were done.                                                        *)
(*                                                                         *)
(* The deque is read and written without a lock; _flush_lock only covers    *)
(* the start of a thread.                                                  *)
(***************************************************************************)
EXTENDS Naturals, Sequences

CONSTANTS
  Writes,       \* payloads, one request each
  Refused,      \* writes the database refuses with an operational error
  Fatal,        \* writes on which the storage call raises anything else
  Flushers,     \* flush threads
  NoThread,
  MaxRetries,   \* _MAX_RETRIES
  MaxFaults     \* bound on retryable storage errors

ASSUME WriteQueueAssumption ==
  /\ Refused \subseteq Writes /\ Fatal \subseteq Writes
  /\ Refused \cap Fatal = {}
  /\ NoThread \notin Flushers
  /\ MaxRetries \in Nat \ {0} /\ MaxFaults \in Nat

VARIABLES
  request,   \* per write: new, appending, ensuring, acked, raised
  queue,     \* _write_queue
  current,   \* _flush_thread
  pc, head, retries,   \* per flush thread: control point, the entry it
             \* took from the head (a set of one write), retries
  stored,    \* writes in the database
  rejected,  \* history: writes dropped as non-retryable
  given,     \* history: writes cleared after MaxRetries failures
  swept,     \* history: writes cleared without them
  tailgated, \* history: writes appended while a thread was past its loop
  faults     \* retryable errors so far

flush   == <<pc, head, retries>>
history == <<rejected, given, swept, tailgated>>
vars    == <<request, queue, current, flush, stored, history, faults>>

Storable     == Writes \ (Refused \cup Fatal)
AliveThreads == {f \in Flushers : pc[f] # "none"}
Entries(s)   == {s[i] : i \in 1..Len(s)}
------------------------------------------------------------------------------
Init ==
  /\ request = [w \in Writes |-> "new"]
  /\ queue = << >> /\ current = NoThread
  /\ pc = [f \in Flushers |-> "none"]
  /\ head = [f \in Flushers |-> {}]
  /\ retries = [f \in Flushers |-> 0]
  /\ stored = {} /\ rejected = {} /\ given = {} /\ swept = {} /\ tailgated = {}
  /\ faults = 0

\* The request's own storage call succeeds, ...
WriteDirectly(w) ==
  /\ request[w] = "new" /\ w \in Storable
  /\ stored' = stored \cup {w}
  /\ request' = [request EXCEPT ![w] = "acked"]
  /\ UNCHANGED <<queue, current, flush, history, faults>>

\* ... fails for good, and the client sees the exception, ...
WriteRaises(w) ==
  /\ request[w] = "new" /\ w \notin Storable
  /\ request' = [request EXCEPT ![w] = "raised"]
  /\ UNCHANGED <<queue, current, flush, stored, history, faults>>

\* ... or meets a retryable error, before the commit or after it.
WriteFails(w) ==
  /\ request[w] = "new" /\ faults < MaxFaults
  /\ faults' = faults + 1
  /\ request' = [request EXCEPT ![w] = "appending"]
  /\ stored' \in {stored, stored \cup ({w} \cap Storable)}
  /\ UNCHANGED <<queue, current, flush, history>>

\* _enqueue_write: append, ...
EnqueueWrite(w) ==
  /\ request[w] = "appending"
  /\ queue' = Append(queue, w)
  /\ tailgated' = IF \E f \in Flushers : pc[f] \in {"leaving", "clearing", "exiting"}
                    THEN tailgated \cup {w} ELSE tailgated
  /\ request' = [request EXCEPT ![w] = "ensuring"]
  /\ UNCHANGED <<current, flush, stored, rejected, given, swept, faults>>

Start(f) ==
  /\ pc[f] = "none"
  /\ current' = f
  /\ pc' = [pc EXCEPT ![f] = "looping"]
  /\ retries' = [retries EXCEPT ![f] = 0]

\* Faulty variant: a thread is started for every write.
EnsureWithoutCheck(w) ==
  /\ request[w] = "ensuring"
  /\ request' = [request EXCEPT ![w] = "acked"]
  /\ \E f \in Flushers : Start(f)
  /\ UNCHANGED <<queue, head, stored, history, faults>>

\* Faulty variant: once started, the thread is taken to be running.
EnsureOnce(w) ==
  /\ request[w] = "ensuring"
  /\ request' = [request EXCEPT ![w] = "acked"]
  /\ \/ current # NoThread /\ UNCHANGED <<current, pc, retries>>
     \/ current = NoThread /\ \E f \in Flushers : Start(f)
  /\ UNCHANGED <<queue, head, stored, history, faults>>

\* ... and _ensure_flush_thread, under _flush_lock; then the answer.
EnsureFlushThread(w) ==
  /\ request[w] = "ensuring"
  /\ request' = [request EXCEPT ![w] = "acked"]
  /\ \/ /\ current \in AliveThreads
        /\ UNCHANGED <<current, pc, retries>>
     \/ /\ current \notin AliveThreads
        /\ \E f \in Flushers : Start(f)
  /\ UNCHANGED <<queue, head, stored, history, faults>>

\* Faulty variant: one retry too many.
FlushLoopOnceMore(f) ==
  /\ pc[f] = "looping"
  /\ IF queue # << >> /\ retries[f] <= MaxRetries
       THEN /\ pc' = [pc EXCEPT ![f] = "writing"]
            /\ head' = [head EXCEPT ![f] = {Head(queue)}]
       ELSE /\ pc' = [pc EXCEPT ![f] = "leaving"]
            /\ UNCHANGED head
  /\ UNCHANGED <<request, queue, current, retries, stored, history, faults>>

\* The condition of the while loop, and _write_queue[0].
FlushLoop(f) ==
  /\ pc[f] = "looping"
  /\ IF queue # << >> /\ retries[f] < MaxRetries
       THEN /\ pc' = [pc EXCEPT ![f] = "writing"]
            /\ head' = [head EXCEPT ![f] = {Head(queue)}]
       ELSE /\ pc' = [pc EXCEPT ![f] = "leaving"]
            /\ UNCHANGED head
  /\ UNCHANGED <<request, queue, current, retries, stored, history, faults>>

\* The storage call of the loop returns.
FlushWrites(f) ==
  /\ pc[f] = "writing"
  /\ head[f] \subseteq Storable
  /\ stored' = stored \cup head[f]
  /\ pc' = [pc EXCEPT ![f] = "popping"]
  /\ UNCHANGED <<request, queue, current, head, retries, history, faults>>

\* Faulty variant: a failed entry is popped before its retry.
FlushFailsPops(f) ==
  /\ pc[f] = "writing" /\ faults < MaxFaults
  /\ faults' = faults + 1
  /\ pc' = [pc EXCEPT ![f] = "popping"]
  /\ UNCHANGED <<request, queue, current, head, retries, stored, history>>

\* A retryable error.
FlushFails(f) ==
  /\ pc[f] = "writing" /\ faults < MaxFaults
  /\ faults' = faults + 1
  /\ retries' = [retries EXCEPT ![f] = @ + 1]
  /\ stored' \in {stored, stored \cup (head[f] \cap Storable)}
  /\ pc' = [pc EXCEPT ![f] = "looping"]
  /\ UNCHANGED <<request, queue, current, head, history>>

\* A non-retryable operational error: the entry is logged and dropped.
FlushRefused(f) ==
  /\ pc[f] = "writing" /\ head[f] \subseteq Refused
  /\ rejected' = rejected \cup head[f]
  /\ pc' = [pc EXCEPT ![f] = "popping"]
  /\ UNCHANGED <<request, queue, current, head, retries, stored, given, swept,
                 tailgated, faults>>

\* Any other exception ends the thread; the entry stays at the head.
FlushDies(f) ==
  /\ pc[f] = "writing" /\ head[f] \subseteq Fatal
  /\ pc' = [pc EXCEPT ![f] = "none"]
  /\ UNCHANGED <<request, queue, current, head, retries, stored, history, faults>>

\* popleft takes whatever is first now; retries = 0.
PopLeft(f) ==
  /\ pc[f] = "popping"
  /\ queue' = Tail(queue)
  /\ retries' = [retries EXCEPT ![f] = 0]
  /\ pc' = [pc EXCEPT ![f] = "looping"]
  /\ UNCHANGED <<request, current, head, stored, history, faults>>

\* "if _write_queue" after the loop.
LeaveLoop(f) ==
  /\ pc[f] = "leaving"
  /\ pc' = [pc EXCEPT ![f] = IF queue # << >> THEN "clearing" ELSE "exiting"]
  /\ UNCHANGED <<request, queue, current, head, retries, stored, history, faults>>

\* "giving up after %d retries, %d entries dropped"
ClearQueue(f) ==
  /\ pc[f] = "clearing"
  /\ IF retries[f] = MaxRetries
       THEN given' = given \cup Entries(queue) /\ UNCHANGED swept
       ELSE swept' = swept \cup Entries(queue) /\ UNCHANGED given
  /\ queue' = << >>
  /\ pc' = [pc EXCEPT ![f] = "exiting"]
  /\ UNCHANGED <<request, current, head, retries, stored, rejected, tailgated, faults>>

\* is_alive() turns false.
FlusherEnds(f) ==
  /\ pc[f] = "exiting"
  /\ pc' = [pc EXCEPT ![f] = "none"]
  /\ UNCHANGED <<request, queue, current, head, retries, stored, history, faults>>

RequestStep(w) ==
  \/ WriteDirectly(w) \/ WriteRaises(w) \/ WriteFails(w)
  \/ EnqueueWrite(w) \/ EnsureFlushThread(w)

FlusherStep(f) ==
  \/ FlushLoop(f) \/ FlushWrites(f) \/ FlushFails(f) \/ FlushRefused(f) \/ FlushDies(f)
  \/ PopLeft(f)
  \/ LeaveLoop(f) \/ ClearQueue(f) \/ FlusherEnds(f)

Next == (\E w \in Writes : RequestStep(w)) \/ (\E f \in Flushers : FlusherStep(f))

Spec == Init /\ [][Next]_vars
------------------------------------------------------------------------------
TypeOK ==
  /\ request \in [Writes -> {"new", "appending", "ensuring", "acked", "raised"}]
  /\ queue \in Seq(Writes)
  /\ current \in Flushers \cup {NoThread}
  /\ pc \in [Flushers -> {"none", "looping", "writing", "popping", "leaving",
                         "clearing", "exiting"}]
  /\ head \in [Flushers -> SUBSET Writes]
  /\ retries \in [Flushers -> 0..MaxRetries]
  /\ stored \subseteq Storable /\ rejected \subseteq Refused
  /\ given \subseteq Writes /\ swept \subseteq Writes /\ tailgated \subseteq Writes
  /\ faults \in 0..MaxFaults

\* At most one flush thread is alive, the one _flush_thread refers to, whatever
\* requests append while threads start, die and end.
SingleFlusher == \A f \in AliveThreads : current = f

\* popleft removes the entry that was read from the head before the storage call:
\* no other entry disappears unwritten in its place.
PopsWhatItWrote ==
  \A f \in Flushers : pc[f] = "popping" => queue # << >> /\ head[f] = {Head(queue)}

\* An acknowledged write is in the database or the queue, or was dropped because the
\* database refused it or failed MaxRetries times in a row.  The exception is a write
\* appended while a flush thread was past its loop, which that thread may clear
\* without having tried it once.
AckedUnlessTailgated ==
  \A w \in Writes \ tailgated :
    request[w] = "acked" => w \in stored \cup Entries(queue) \cup rejected \cup given

\* A queue without a thread, and without a request about to start one, holds a write
\* that killed a thread or one that was appended beside a thread about to end: no
\* other write waits for the next request to be flushed.
StalledOnlyByRace ==
  queue # << >> /\ AliveThreads = {} /\ (\A w \in Writes : request[w] # "ensuring")
    => Entries(queue) \cap (Fatal \cup tailgated) # {}
=============================================================================
