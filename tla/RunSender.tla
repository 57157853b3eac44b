------------------------------ MODULE RunSender ------------------------------
(***************************************************************************)
(* The client side of trackio: a Run object (trackio/run.py) queues what    *)
(* log, log_system, alert and _queue_upload hand it, and a background       *)
(* thread sends the queue to a Space or a self-hosted server.  What cannot  *)
(* be sent is kept in the project's SQLite database with the destination in *)
(* its space_id column, and replayed from there by this run, by another run *)
(* of the project, or by sync_incremental(pending_only=True).               *)
(*                                                                         *)
(* Several processes share the database.  The rounds of one sender hold     *)
(* _client_lock; log calls, finish and other processes run beside them.     *)
(***************************************************************************)
EXTENDS Naturals

CONSTANTS
  Runs, Syncs,       \* Run objects, and calls of sync_incremental
  Entries, Owner,    \* what is logged, and by which run
  Kind,              \* [Entries -> Kinds]
  Dest,              \* [Runs \cup Syncs -> destinations]
  Local,             \* the destination of a run without space_id and server_url
  Spaces,            \* the destinations that are Hugging Face Spaces
  Threadless,        \* runs whose process may fail to start a thread
  MaxSendFailures, MaxLocalFailures, MaxCrashes
                     \* bounds on the faults

\* The queues in the order a round sends them, and those with a pending table.
KindOrder == <<"metric", "system", "upload", "alert">>
Kinds     == {KindOrder[i] : i \in 1..4}
Replayed  == 1..3

Actors       == Runs \cup Syncs
Destinations == {Dest[a] : a \in Actors}

ASSUME SenderAssumption ==
  /\ Runs \cap Syncs = {}
  /\ Owner \in [Entries -> Runs] /\ Kind \in [Entries -> Kinds]
  /\ DOMAIN Dest = Actors
  /\ \A s \in Syncs : Dest[s] \in Spaces
  /\ \A e \in Entries : Dest[Owner[e]] = Local => Kind[e] # "upload"
  /\ Local \notin Spaces /\ Spaces \subseteq Destinations
  /\ MaxSendFailures \in Nat /\ MaxLocalFailures \in Nat
  /\ Threadless \subseteq Runs /\ MaxCrashes \in Nat

VARIABLES
  phase,      \* per actor: new, open, stopping (finish has set _stop_flag),
              \* finished, gone (the process has ended)
  thread,     \* per actor: its sender thread, see ThreadStates
  client,     \* runs whose _client is set
  queue,      \* per actor: the four _queued_* lists
  batch,      \* per actor: what its predict call carries
  stage,      \* per actor: position in KindOrder of the table being replayed
  hasBuffer,  \* runs with _has_local_buffer
  database,   \* entries in the local database
  pending,    \* those with a space_id, or a pending_uploads row
  server,     \* per destination: what its database holds
  logged, late, inherited, dropped,
              \* history: entries logged; those logged after _stop_flag; per
              \* actor, rows pending when it started; entries that a process
              \* end or a failing local database took
  faults      \* faults so far

local   == <<database, pending>>
history == <<logged, late, inherited, dropped>>
vars    == <<phase, thread, client, queue, batch, stage, hasBuffer, local, server,
             history, faults>>

\* "sending" and "failing" are a round before and after its first failed call.
ThreadStates == {"none", "connecting", "waiting", "sending", "failing",
                 "replaying", "exiting"}
------------------------------------------------------------------------------
IsLocal(r) == Dest[r] = Local
Alive(a)   == thread[a] # "none"
Stopped(r) == phase[r] # "open"

\* A round holds _client_lock.
Locked(a)  == thread[a] \in {"sending", "failing", "replaying"}

OfKind(S, k) == {e \in S : Kind[e] = k}

\* The list a round sends next: metrics, system metrics, uploads, alerts.
NextBatch(r) ==
  {e \in queue[r] : \A i, j \in 1..4 :
     Kind[e] = KindOrder[i] /\ OfKind(queue[r], KindOrder[j]) # {} => i <= j}

\* What gets a space_id or a pending_uploads row; alerts and local runs do not.
Pendable(S) == {e \in S : Kind[e] # "alert" /\ Dest[Owner[e]] # Local}

\* The state a new sender thread starts in.
FirstState(r) == IF IsLocal(r) \/ r \in client THEN "waiting" ELSE "connecting"

\* Faulty variant: rows are queued for replay whether or not they were written.
KeepUnwritten(r, S, lost) ==
  /\ lost # {} => faults.local < MaxLocalFailures
  /\ database' = database \cup (S \ lost)
  /\ pending' = pending \cup Pendable(S)
  /\ hasBuffer' = IF Pendable(S) # {} THEN hasBuffer \cup {r} ELSE hasBuffer
  /\ dropped' = dropped \cup lost

\* The _persist_*_locally and _write_*_to_sqlite functions: one transaction for
\* each kind, and a kind whose transaction fails is dropped with a warning.
Keep(r, S, lost) ==
  /\ lost # {} => faults.local < MaxLocalFailures
  /\ database' = database \cup (S \ lost)
  /\ pending' = pending \cup Pendable(S \ lost)
  /\ hasBuffer' = IF Pendable(S \ lost) # {} THEN hasBuffer \cup {r} ELSE hasBuffer
  /\ dropped' = dropped \cup lost

Losses(lost) == IF lost = {} THEN 0 ELSE 1

\* _flush_queues_inline, and the round that finds the run stopped before it had a
\* client: the queue S goes to the local database.
FlushQueues(r, S) ==
  /\ \E lost \in {{}} \cup {OfKind(S, k) : k \in Kinds} :
       /\ Keep(r, S, lost)
       /\ faults' = [faults EXCEPT !.local = @ + Losses(lost)]
  /\ queue' = [queue EXCEPT ![r] = {}]
------------------------------------------------------------------------------
Init ==
  /\ phase = [a \in Actors |-> "new"]
  /\ thread = [a \in Actors |-> "none"]
  /\ client = {}
  /\ queue = [a \in Actors |-> {}]
  /\ batch = [a \in Actors |-> {}]
  /\ stage = [a \in Actors |-> 1]
  /\ hasBuffer = {}
  /\ database = {} /\ pending = {}
  /\ server = [d \in Destinations |-> {}]
  /\ logged = {} /\ late = {} /\ dropped = {}
  /\ inherited = [a \in Actors |-> {}]
  /\ faults = [send |-> 0, local |-> 0, crash |-> 0]

\* Faulty variant: a new run does not look for pending data.
InitRunBlind(r) ==
  /\ phase[r] = "new"
  /\ phase' = [phase EXCEPT ![r] = "open"]
  /\ thread' = [thread EXCEPT ![r] = FirstState(r)]
  /\ inherited' = [inherited EXCEPT ![r] = pending]
  /\ UNCHANGED <<client, queue, batch, stage, hasBuffer, local, server, logged, late,
                 dropped, faults>>

\* trackio.init: pending data is looked for only when there is a space_id.
InitRun(r) ==
  /\ phase[r] = "new"
  /\ phase' = [phase EXCEPT ![r] = "open"]
  /\ \/ thread' = [thread EXCEPT ![r] = FirstState(r)]
     \/ r \in Threadless /\ UNCHANGED thread
  /\ hasBuffer' = IF Dest[r] \in Spaces /\ pending # {}
                    THEN hasBuffer \cup {r} ELSE hasBuffer
  /\ inherited' = [inherited EXCEPT ![r] = pending]
  /\ UNCHANGED <<client, queue, batch, stage, local, server, logged, late, dropped,
                 faults>>

\* What log, log_system, alert and _queue_upload do first, under _client_lock.
Accept(r, e) ==
  /\ phase[r] \in {"open", "stopping"} /\ ~Locked(r)
  /\ Owner[e] = r /\ e \notin logged
  /\ logged' = logged \cup {e}
  /\ late' = IF Stopped(r) THEN late \cup {e} ELSE late
  /\ UNCHANGED <<phase, client, batch, stage, server, inherited>>

\* The thread is alive, or _ensure_sender_alive restarts it.
Log(r, e) ==
  /\ Accept(r, e)
  /\ queue' = [queue EXCEPT ![r] = @ \cup {e}]
  /\ \/ Alive(r) /\ UNCHANGED thread
     \/ ~Alive(r) /\ ~Stopped(r) /\ thread' = [thread EXCEPT ![r] = FirstState(r)]
  /\ UNCHANGED <<hasBuffer, local, dropped, faults>>

\* There is no thread.
LogInline(r, e) ==
  /\ Accept(r, e)
  /\ ~Alive(r) /\ (Stopped(r) \/ r \in Threadless)
  /\ FlushQueues(r, queue[r] \cup {e})
  /\ UNCHANGED thread

\* _init_client_background reaches the server.
Connect(r) ==
  /\ thread[r] = "connecting" /\ phase[r] = "open"
  /\ client' = client \cup {r}
  /\ thread' = [thread EXCEPT ![r] = "waiting"]
  /\ UNCHANGED <<phase, queue, batch, stage, hasBuffer, local, server, history, faults>>

\* It is stopped before that: _batch_sender finds no client.
StopConnecting(r) ==
  /\ thread[r] = "connecting" /\ Stopped(r)
  /\ FlushQueues(r, queue[r])
  /\ thread' = [thread EXCEPT ![r] = "exiting"]
  /\ UNCHANGED <<phase, client, batch, stage, server, logged, late, inherited>>

\* A round of _local_batch_sender.
LocalRound(r) ==
  /\ thread[r] = "waiting" /\ IsLocal(r) /\ queue[r] # {}
  /\ FlushQueues(r, queue[r])
  /\ UNCHANGED <<phase, thread, client, batch, stage, server, logged, late, inherited>>

\* A round of _batch_sender takes the lock.
StartRound(r) ==
  /\ thread[r] = "waiting" /\ ~IsLocal(r)
  /\ queue[r] # {} \/ r \in hasBuffer
  /\ thread' = [thread EXCEPT ![r] = "sending"]
  /\ UNCHANGED <<phase, client, queue, batch, stage, hasBuffer, local, server,
                 history, faults>>

\* copy() and clear() of one list
TakeBatch(r) ==
  /\ thread[r] \in {"sending", "failing"} /\ batch[r] = {} /\ queue[r] # {}
  /\ batch' = [batch EXCEPT ![r] = NextBatch(r)]
  /\ queue' = [queue EXCEPT ![r] = @ \ NextBatch(r)]
  /\ UNCHANGED <<phase, thread, client, stage, hasBuffer, local, server, history,
                 faults>>

Receive(a) == server' = [server EXCEPT ![Dest[a]] = @ \cup batch[a]]

PredictReturns(r) ==
  /\ thread[r] \in {"sending", "failing"} /\ batch[r] # {}
  /\ Receive(r)
  /\ batch' = [batch EXCEPT ![r] = {}]
  /\ UNCHANGED <<phase, thread, client, queue, stage, hasBuffer, local, history, faults>>

\* The call fails before or after the server has applied it.
PredictRaises(r) ==
  /\ thread[r] \in {"sending", "failing"} /\ batch[r] # {}
  /\ faults.send < MaxSendFailures
  /\ Receive(r) \/ UNCHANGED server
  /\ \E lost \in {{}, batch[r]} :
       /\ Keep(r, batch[r], lost)
       /\ faults' = [faults EXCEPT !.send = @ + 1, !.local = @ + Losses(lost)]
  /\ batch' = [batch EXCEPT ![r] = {}]
  /\ thread' = [thread EXCEPT ![r] = "failing"]
  /\ UNCHANGED <<phase, client, queue, stage, logged, late, inherited>>

\* Faulty variant: no replay once the run is stopping.
EndRoundWhileOpen(r) ==
  /\ thread[r] \in {"sending", "failing"} /\ batch[r] = {} /\ queue[r] = {}
  /\ thread' = [thread EXCEPT ![r] =
       IF thread[r] = "sending" /\ r \in hasBuffer /\ ~Stopped(r)
         THEN "replaying" ELSE "waiting"]
  /\ stage' = [stage EXCEPT ![r] = 1]
  /\ UNCHANGED <<phase, client, queue, batch, hasBuffer, local, server, history, faults>>

\* The lists are empty: a round without failure goes on to _flush_local_buffer.
EndRound(r) ==
  /\ thread[r] \in {"sending", "failing"} /\ batch[r] = {} /\ queue[r] = {}
  /\ thread' = [thread EXCEPT ![r] =
       IF thread[r] = "sending" /\ r \in hasBuffer THEN "replaying" ELSE "waiting"]
  /\ stage' = [stage EXCEPT ![r] = 1]
  /\ UNCHANGED <<phase, client, queue, batch, hasBuffer, local, server, history, faults>>

\* _flush_local_buffer and sync_incremental: read the pending rows of one table,
\* whatever their space_id, ...
ReplayRead(a) ==
  /\ thread[a] = "replaying" /\ batch[a] = {} /\ stage[a] <= 3
  /\ LET rows == OfKind(pending, KindOrder[stage[a]]) IN
       /\ batch' = [batch EXCEPT ![a] = rows]
       /\ stage' = [stage EXCEPT ![a] = IF rows = {} THEN @ + 1 ELSE @]
  /\ UNCHANGED <<phase, thread, client, queue, hasBuffer, local, server, history,
                 faults>>

\* Faulty variant: everything tagged is cleared, read or not.
ReplaySentClearsAll(a) ==
  /\ thread[a] = "replaying" /\ batch[a] # {}
  /\ Receive(a)
  /\ pending' = pending \ OfKind(pending, KindOrder[stage[a]])
  /\ batch' = [batch EXCEPT ![a] = {}]
  /\ stage' = [stage EXCEPT ![a] = @ + 1]
  /\ UNCHANGED <<phase, thread, client, queue, hasBuffer, database, history, faults>>

\* ... send them, and clear the space_id of the rows that were read.
ReplaySent(a) ==
  /\ thread[a] = "replaying" /\ batch[a] # {}
  /\ Receive(a)
  /\ pending' = pending \ batch[a]
  /\ batch' = [batch EXCEPT ![a] = {}]
  /\ stage' = [stage EXCEPT ![a] = @ + 1]
  /\ UNCHANGED <<phase, thread, client, queue, hasBuffer, database, history, faults>>

\* Faulty variant: the flag is reset before the replay, not after it.
ReplayRaisesReset(a) ==
  /\ thread[a] = "replaying" /\ batch[a] # {}
  /\ faults.send < MaxSendFailures
  /\ faults' = [faults EXCEPT !.send = @ + 1]
  /\ Receive(a) \/ UNCHANGED server
  /\ batch' = [batch EXCEPT ![a] = {}]
  /\ thread' = [thread EXCEPT ![a] = "waiting"]
  /\ hasBuffer' = hasBuffer \ {a}
  /\ UNCHANGED <<phase, client, queue, stage, local, history>>

\* The call fails; a run tries again, sync_incremental raises.
ReplayRaises(a) ==
  /\ thread[a] = "replaying" /\ batch[a] # {}
  /\ faults.send < MaxSendFailures
  /\ faults' = [faults EXCEPT !.send = @ + 1]
  /\ Receive(a) \/ UNCHANGED server
  /\ batch' = [batch EXCEPT ![a] = {}]
  /\ \/ /\ a \in Runs
        /\ thread' = [thread EXCEPT ![a] = "waiting"]
        /\ UNCHANGED phase
     \/ /\ a \in Syncs
        /\ thread' = [thread EXCEPT ![a] = "none"]
        /\ phase' = [phase EXCEPT ![a] = "finished"]
  /\ UNCHANGED <<client, queue, stage, hasBuffer, local, history>>

ReplayDone(a) ==
  /\ thread[a] = "replaying" /\ stage[a] = 4
  /\ hasBuffer' = hasBuffer \ {a}
  /\ \/ /\ a \in Runs
        /\ thread' = [thread EXCEPT ![a] = "waiting"]
        /\ UNCHANGED phase
     \/ /\ a \in Syncs
        /\ thread' = [thread EXCEPT ![a] = "none"]
        /\ phase' = [phase EXCEPT ![a] = "finished"]
  /\ UNCHANGED <<client, queue, batch, stage, local, server, history, faults>>

\* sync_incremental(pending_only=True)
SyncIncremental(s) ==
  /\ phase[s] = "new"
  /\ phase' = [phase EXCEPT ![s] = "open"]
  /\ thread' = [thread EXCEPT ![s] = "replaying"]
  /\ inherited' = [inherited EXCEPT ![s] = pending]
  /\ UNCHANGED <<client, queue, batch, stage, hasBuffer, local, server, logged, late,
                 dropped, faults>>

\* Faulty variant: the loop stops with the stop flag.
LoopEndsAtOnce(r) ==
  /\ thread[r] = "waiting" /\ Stopped(r)
  /\ thread' = [thread EXCEPT ![r] = "exiting"]
  /\ UNCHANGED <<phase, client, queue, batch, stage, hasBuffer, local, server,
                 history, faults>>

\* The condition of the while loop, read without the lock, is false.
LoopEnds(r) ==
  /\ thread[r] = "waiting" /\ Stopped(r)
  /\ queue[r] = {} /\ r \notin hasBuffer
  /\ thread' = [thread EXCEPT ![r] = "exiting"]
  /\ UNCHANGED <<phase, client, queue, batch, stage, hasBuffer, local, server,
                 history, faults>>

\* Until then is_alive() is true.
ThreadEnds(r) ==
  /\ thread[r] = "exiting"
  /\ thread' = [thread EXCEPT ![r] = "none"]
  /\ UNCHANGED <<phase, client, queue, batch, stage, hasBuffer, local, server,
                 history, faults>>

\* Run.finish sets _stop_flag ...
Finish(r) ==
  /\ phase[r] = "open"
  /\ phase' = [phase EXCEPT ![r] = "stopping"]
  /\ UNCHANGED <<thread, client, queue, batch, stage, hasBuffer, local, server,
                 history, faults>>

\* ... and joins the thread.  If none was started it flushes the queue, which
\* LogInline has left empty.
JoinThread(r) ==
  /\ phase[r] = "stopping" /\ ~Alive(r)
  /\ phase' = [phase EXCEPT ![r] = "finished"]
  /\ UNCHANGED <<thread, client, queue, batch, stage, hasBuffer, local, server,
                 history, faults>>

\* join gives up: the queue is flushed if the thread never had a client.
JoinTimesOut(r) ==
  /\ phase[r] = "stopping" /\ Alive(r) /\ ~Locked(r)
  /\ phase' = [phase EXCEPT ![r] = "finished"]
  /\ IF IsLocal(r) \/ r \in client
       THEN UNCHANGED <<queue, hasBuffer, local, dropped, faults>>
       ELSE FlushQueues(r, queue[r])
  /\ UNCHANGED <<thread, client, batch, stage, server, logged, late, inherited>>

\* The process ends, after finish or by a crash, perhaps with a call under way
\* that the server applies.
EndProcess(a) ==
  /\ phase[a] \in {"open", "stopping", "finished"}
  /\ phase' = [phase EXCEPT ![a] = "gone"]
  /\ phase[a] # "finished" => faults.crash < MaxCrashes
  /\ faults' = IF phase[a] = "finished" THEN faults
                ELSE [faults EXCEPT !.crash = @ + 1]
  /\ thread' = [thread EXCEPT ![a] = "none"]
  /\ queue' = [queue EXCEPT ![a] = {}]
  /\ batch' = [batch EXCEPT ![a] = {}]
  /\ Receive(a) \/ UNCHANGED server
  /\ dropped' = dropped \cup queue[a] \cup (IF thread[a] = "replaying" THEN {}
                                             ELSE batch[a])
  /\ UNCHANGED <<client, stage, hasBuffer, local, logged, late, inherited>>

ReplayStep(a) ==
  ReplayRead(a) \/ ReplaySent(a) \/ ReplayRaises(a) \/ ReplayDone(a)

SenderStep(r) ==
  \/ Connect(r) \/ StopConnecting(r)
  \/ LocalRound(r) \/ StartRound(r)
  \/ TakeBatch(r) \/ PredictReturns(r) \/ PredictRaises(r) \/ EndRound(r)
  \/ ReplayStep(r)
  \/ LoopEnds(r) \/ ThreadEnds(r)

UserStep(r) ==
  \/ InitRun(r)
  \/ \E e \in Entries : Log(r, e) \/ LogInline(r, e)
  \/ Finish(r) \/ JoinThread(r) \/ JoinTimesOut(r)

Next ==
  \/ \E r \in Runs : SenderStep(r) \/ UserStep(r)
  \/ \E s \in Syncs : SyncIncremental(s) \/ ReplayStep(s)
  \/ \E a \in Actors : EndProcess(a)

Spec == Init /\ [][Next]_vars

\* The sender threads run, reach their server in the end, and are not stopped by
\* more than the bounded number of failures.  Nothing is assumed of the user.
FairSpec == Spec /\ \A r \in Runs : WF_vars(SenderStep(r))
------------------------------------------------------------------------------
TypeOK ==
  /\ phase \in [Actors -> {"new", "open", "stopping", "finished", "gone"}]
  /\ thread \in [Actors -> ThreadStates]
  /\ client \subseteq Runs /\ hasBuffer \subseteq Runs
  /\ queue \in [Actors -> SUBSET Entries]
  /\ batch \in [Actors -> SUBSET Entries]
  /\ stage \in [Actors -> 1..4]
  /\ database \subseteq Entries /\ pending \subseteq database
  /\ server \in [Destinations -> SUBSET Entries]
  /\ logged \subseteq Entries /\ late \subseteq logged /\ dropped \subseteq logged
  /\ inherited \in [Actors -> SUBSET Entries]
  /\ faults \in [send : Nat, local : Nat, crash : Nat]

Delivered == UNION {server[d] : d \in Destinations}

\* Where an entry is kept while its run is alive or it has been persisted.
Kept(e) ==
  \/ e \in queue[Owner[e]]
  \/ e \in batch[Owner[e]] /\ thread[Owner[e]] \in {"sending", "failing"}
  \/ e \in (IF Pendable({e}) = {} THEN database ELSE pending)

\* "If a batch fails to send, it is persisted to local SQLite and retried": until a
\* server holds it, an entry that no process end and no failing local database has
\* taken is queued, in a call, or (alerts apart) pending, whichever processes send,
\* replay and clear in the same database.
KeptUntilDelivered == \A e \in logged \ dropped : Kept(e) \/ e \in Delivered

\* A process knows of the pending rows it wrote: _has_local_buffer stays set until
\* they are gone, although other processes replay and clear rows of the same tables.
FlagCoversRows ==
  \A e \in pending : phase[Owner[e]] # "gone" => Owner[e] \in hasBuffer

\* A sender thread that has ended leaves in the queue only what was logged beside
\* or after finish.
NothingLeftBehind ==
  \A r \in Runs : phase[r] = "finished" /\ ~Alive(r) => queue[r] \subseteq late

\* "They have been saved locally and will be sent automatically next time you call:
\* trackio.init(project=..., space_id=...)": a run that reached its Space and finished,
\* its thread with it, leaves no row pending that it found for that Space.
NextInitSends ==
  \A r \in Runs :
    Dest[r] \in Spaces /\ phase[r] = "finished" /\ ~Alive(r) /\ r \in client =>
      \A e \in inherited[r] \cap pending : Dest[Owner[e]] # Dest[r]

\* An entry of a remote run reaches its server in the end, replays included, unless
\* it is an alert or was logged beside finish, the process ended, the local database
\* failed, or the run was stopped before it had reached the server.
DeliveredInTheEnd ==
  \A e \in Entries :
    Pendable({e}) # {} /\ e \in logged \ late
      ~> \/ e \in server[Dest[Owner[e]]] \cup dropped
         \/ phase[Owner[e]] = "gone"
         \/ Stopped(Owner[e]) /\ ~Alive(Owner[e]) /\ Owner[e] \notin client

\* pending_only: "only sync rows tagged with space_id", a replay reaches the server
\* that the rows were logged to.
RightDestination ==
  \A d \in Destinations : \A e \in server[d] : Dest[Owner[e]] = d
==============================================================================
