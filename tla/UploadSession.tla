--------------------------- MODULE UploadSession ---------------------------
(***************************************************************************)
(* The resumable upload of one artifact blob to a server with the local    *)
(* store (resumable_uploads.py and its handlers in asgi_app.py).  All the  *)
(* producers of a content derive the same idempotency key from it, so they *)
(* share one session.  Beside the handlers run the cleanup-uploads command *)
(* and a purge of the catalog, neither of which takes the session's lock.  *)
(* The content of a chunk is its index: every producer sends the same, so  *)
(* the checks of digests and sizes that refuse another one are left out.   *)
(***************************************************************************)
EXTENDS Integers, FiniteSets

CONSTANTS Producers,  \* the callers of upload_artifact_blob
          ChunkCount, \* the chunks of the content
          MaxFaults,  \* crashes, broken streams, lost answers and aborts
          MaxSweeps,  \* runs of cleanup-uploads that find the session aged
          MaxPurges   \* purges that delete the blob

ASSUME UploadAssumption == /\ ChunkCount \in Nat
                           /\ MaxFaults \in Nat
                           /\ MaxSweeps \in Nat
                           /\ MaxPurges \in Nat

VARIABLES session, \* session.json, or NoSession
          parts,   \* the chunks whose part file is on disk
          blob,    \* whether the store has the blob
          pc,      \* per producer, where its call of upload_artifact_blob is
          acked,   \* per producer, the chunks its session answered to have
          index,   \* per producer, the chunk its loop has come to
          temp,    \* whether the temporary file of a streamed chunk is on disk
          read,    \* per producer, the session its request has read
          todo,    \* what a running cleanup has still to remove
          torn,    \* history: a cleanup met a request, or removed only the parts
          lost,    \* history: the producers whose blob was purged once verified
          faults, sweeps, purges

counts == <<faults, sweeps, purges>>

history == <<torn, lost>>

vars == <<session, parts, blob, pc, acked, index, temp, read, todo, history, counts>>

Chunks == 0 .. ChunkCount - 1

Sessions == [state : {"uploading", "completed"}, chunks : SUBSET Chunks]

NoSession == [state |-> "none", chunks |-> {}]

\* A call waits in the producer's pending_uploads table, sends chunks, asks for
\* the completion, and its row is cleared; in between, a request of it runs.
ChunkStages == {"streaming", "landed", "acking"}
CompleteStages == {"staging", "stored"}
Stages == {"pending", "sending", "answering", "sent"} \cup ChunkStages \cup CompleteStages

InRequest == {p \in Producers : pc[p] \in ChunkStages \cup CompleteStages}

\* Faulty variant: the handlers take no lock.
NoLock == TRUE

\* async with _resumable_session_lock: one request of the session at a time.
LockFree == InRequest = {}

\* A handler leaves the event loop only while it awaits the body of a chunk;
\* init does not take the session's lock.
EventLoopFree == \A p \in InRequest : pc[p] = "streaming"

Goto(p, stage) == pc' = [pc EXCEPT ![p] = stage]

\* The call returns or raises, and its variables and those of its request go.
Leave(p, stage) == /\ Goto(p, stage)
                   /\ acked' = [acked EXCEPT ![p] = {}]
                   /\ index' = [index EXCEPT ![p] = 0]
                   /\ read' = [read EXCEPT ![p] = NoSession]

\* An error answer makes upload_artifact_blob raise; the row stays pending.
Raises(p) == /\ Leave(p, "pending")
             /\ UNCHANGED <<session, parts, blob, todo, history, counts>>

Init == /\ session = NoSession
        /\ parts = {}
        /\ blob = FALSE
        /\ pc = [p \in Producers |-> "pending"]
        /\ acked = [p \in Producers |-> {}]
        /\ index = [p \in Producers |-> 0]
        /\ temp = FALSE
        /\ read = [p \in Producers |-> NoSession]
        /\ todo = {}
        /\ torn = FALSE
        /\ lost = {}
        /\ faults = 0
        /\ sweeps = 0
        /\ purges = 0

(***************************************************************************)
(* POST .../{project}: create_or_resume_session.                           *)
(***************************************************************************)
CreateOrRead ==
    \/ /\ session = NoSession
       /\ session' = [state |-> "uploading", chunks |-> {}]
       /\ torn' = (torn \/ todo # {})
    \/ /\ session # NoSession
       /\ UNCHANGED <<session, torn>>

\* Faulty variant: the answer acknowledges the part files that are on disk.
ResumeByParts(p) ==
    /\ pc[p] = "pending"
    /\ EventLoopFree
    /\ CreateOrRead
    /\ acked' = [acked EXCEPT ![p] = parts]
    /\ Goto(p, "sending")
    /\ UNCHANGED <<parts, blob, index, temp, read, todo, lost, counts>>

CreateOrResume(p) ==
    /\ pc[p] = "pending"
    /\ EventLoopFree
    /\ CreateOrRead
    /\ acked' = [acked EXCEPT ![p] = session'.chunks]
    /\ Goto(p, "sending")
    /\ UNCHANGED <<parts, blob, index, temp, read, todo, lost, counts>>

(***************************************************************************)
(* The loop over the chunks: an acknowledged one is read and not sent.     *)
(***************************************************************************)
Advance(p) == index' = [index EXCEPT ![p] = @ + 1]

SkipChunk(p) ==
    /\ pc[p] = "sending"
    /\ index[p] \in acked[p]
    /\ Advance(p)
    /\ UNCHANGED <<session, parts, blob, pc, acked, temp, read, todo, history, counts>>

(***************************************************************************)
(* PUT .../chunks/{index}: store_chunk, up to its first await.             *)
(***************************************************************************)
StoreChunk(p) ==
    /\ pc[p] = "sending"
    /\ index[p] \in Chunks \ acked[p]
    /\ LockFree
    /\ \/ /\ session.state # "uploading"
          /\ UNCHANGED temp
          /\ Raises(p)
       \/ /\ session.state = "uploading"
          /\ index[p] \in session.chunks
          /\ Advance(p)
          /\ UNCHANGED <<session, parts, blob, pc, acked, temp, read, todo, history, counts>>
       \/ /\ session.state = "uploading"
          /\ index[p] \notin session.chunks
          /\ temp' = TRUE
          /\ Goto(p, "streaming")
          /\ UNCHANGED <<session, parts, blob, acked, index, read, todo, history, counts>>

\* The body has arrived: os.replace puts the part in place, or raises when a
\* cleanup has removed the temporary file.
LandChunk(p) ==
    /\ pc[p] = "streaming"
    /\ \/ /\ temp
          /\ parts' = parts \cup {index[p]}
          /\ temp' = FALSE
          /\ torn' = (torn \/ todo # {})
          /\ Goto(p, "landed")
          /\ UNCHANGED <<session, blob, acked, index, read, todo, lost, counts>>
       \/ /\ ~temp
          /\ UNCHANGED temp
          /\ Raises(p)

\* The second _read_session of store_chunk.
ReadAgain(p) ==
    /\ pc[p] = "landed"
    /\ UNCHANGED temp
    /\ \/ /\ session = NoSession
          /\ Raises(p)
       \/ /\ session # NoSession
          /\ read' = [read EXCEPT ![p] = session]
          /\ Goto(p, "acking")
          /\ UNCHANGED <<session, parts, blob, acked, index, todo, history, counts>>

\* _write_json_atomic makes the directory again when it is gone.
AcknowledgeChunk(p) ==
    /\ pc[p] = "acking"
    /\ session' = [read[p] EXCEPT !.chunks = @ \cup {index[p]}]
    /\ Advance(p)
    /\ torn' = (torn \/ todo # {})
    /\ read' = [read EXCEPT ![p] = NoSession]
    /\ Goto(p, "sending")
    /\ UNCHANGED <<parts, blob, acked, temp, todo, lost, counts>>

(***************************************************************************)
(* POST .../{project}/{upload_id}: complete_session.                       *)
(***************************************************************************)
\* Faulty variant: the completed session alone proves that the blob is there.
CompletedByReceipt(p) ==
    /\ session.state = "completed"
    /\ Leave(p, "answering")
    /\ UNCHANGED <<session, parts, blob, todo, history, counts>>

AlreadyCompleted(p) ==
    /\ session.state = "completed"
    /\ blob
    /\ Leave(p, "answering")
    /\ UNCHANGED <<session, parts, blob, todo, history, counts>>

CompleteSession(p) ==
    /\ pc[p] = "sending"
    /\ index[p] = ChunkCount
    /\ LockFree
    /\ UNCHANGED temp
    /\ \/ AlreadyCompleted(p)
       \/ /\ session.state = "uploading"
          /\ session.chunks = Chunks
          /\ read' = [read EXCEPT ![p] = session]
          /\ Goto(p, "staging")
          /\ UNCHANGED <<session, parts, blob, acked, index, todo, history, counts>>
       \/ /\ \/ session = NoSession
             \/ session.state = "completed" /\ ~blob
             \/ session.state = "uploading" /\ session.chunks # Chunks
          /\ Raises(p)

\* The parts are read in order into one file, which is put into the store.
StageParts(p) ==
    /\ pc[p] = "staging"
    /\ UNCHANGED temp
    /\ \/ /\ Chunks \subseteq parts
          /\ blob' = TRUE
          /\ Goto(p, "stored")
          /\ UNCHANGED <<session, parts, acked, index, read, todo, history, counts>>
       \/ /\ ~(Chunks \subseteq parts)
          /\ Raises(p)

\* store.verify, the write of the completed session, and rmtree of its parts.
MarkCompleted(p) ==
    /\ pc[p] = "stored"
    /\ UNCHANGED temp
    /\ \/ /\ blob
          /\ session' = [read[p] EXCEPT !.state = "completed"]
          /\ parts' = {}
          /\ Leave(p, "answering")
          /\ UNCHANGED <<blob, todo, history, counts>>
       \/ /\ ~blob
          /\ Raises(p)

\* upload_artifact_blob returns True and clear_pending_uploads removes the row.
ClearPending(p) ==
    /\ pc[p] = "answering"
    /\ Goto(p, "sent")
    /\ UNCHANGED <<session, parts, blob, acked, index, temp, read, todo, history, counts>>

(***************************************************************************)
(* What goes wrong, and the actors that take no lock.                      *)
(***************************************************************************)
Fault == /\ faults < MaxFaults
         /\ faults' = faults + 1

\* The body of a chunk breaks off: the handler unlinks the temporary file.
StreamBreaks(p) ==
    /\ pc[p] = "streaming"
    /\ Fault
    /\ temp' = FALSE
    /\ Leave(p, "pending")
    /\ UNCHANGED <<session, parts, blob, todo, history, sweeps, purges>>

\* An answer is lost, or the producer's process ends: its row stays pending.
LoseAnswer(p) ==
    /\ pc[p] \in {"sending", "answering"}
    /\ Fault
    /\ Leave(p, "pending")
    /\ UNCHANGED <<session, parts, blob, temp, todo, history, sweeps, purges>>

\* The server ends and starts again: its requests fail, the files stay.  The
\* temporary file of a stream stays too, but no later request takes its name.
Crash ==
    /\ Fault
    /\ pc' = [p \in Producers |-> IF p \in InRequest THEN "pending" ELSE pc[p]]
    /\ acked' = [p \in Producers |-> IF p \in InRequest THEN {} ELSE acked[p]]
    /\ index' = [p \in Producers |-> IF p \in InRequest THEN 0 ELSE index[p]]
    /\ read' = [p \in Producers |-> NoSession]
    /\ temp' = FALSE
    /\ UNCHANGED <<session, parts, blob, todo, history, sweeps, purges>>

\* Faulty variant: only the parts are removed.
AbortParts ==
    /\ LockFree
    /\ session.state = "uploading"
    /\ Fault
    /\ parts' = {}
    /\ UNCHANGED <<session, blob, pc, acked, index, temp, read, todo, history, sweeps, purges>>

\* DELETE .../{project}/{upload_id}: abort_session.
AbortSession ==
    /\ LockFree
    /\ session.state = "uploading"
    /\ Fault
    /\ session' = NoSession
    /\ parts' = {}
    /\ UNCHANGED <<blob, pc, acked, index, temp, read, todo, history, sweeps, purges>>

\* expire_sessions reads an incomplete session older than the cutoff.  Time is
\* not in the model: any session may have had no chunk for that long.
ExpireSession ==
    /\ todo = {}
    /\ session.state = "uploading"
    /\ sweeps < MaxSweeps
    /\ sweeps' = sweeps + 1
    /\ todo' = {"metadata", "parts"}
    /\ torn' = (torn \/ \E p \in Producers : pc[p] \in ChunkStages)
    /\ UNCHANGED <<session, parts, blob, pc, acked, index, temp, read, lost, faults, purges>>

\* rmtree removes the two entries of the directory in the order it lists them.
RemoveMetadata ==
    /\ "metadata" \in todo
    /\ session' = NoSession
    /\ todo' = todo \ {"metadata"}
    /\ UNCHANGED <<parts, blob, pc, acked, index, temp, read, history, counts>>

RemoveParts ==
    /\ "parts" \in todo
    /\ parts' = {}
    /\ temp' = FALSE
    /\ todo' = todo \ {"parts"}
    /\ UNCHANGED <<session, blob, pc, acked, index, read, history, counts>>

\* The command is interrupted, or a directory that a request has just written
\* into cannot be removed.
ExpireStops ==
    /\ todo # {}
    /\ todo' = {}
    /\ torn' = (torn \/ todo = {"metadata"})
    /\ UNCHANGED <<session, parts, blob, pc, acked, index, temp, read, lost, counts>>

\* A purge of the catalog deletes the blob (see ArtifactCatalog).
PurgeBlob ==
    /\ blob
    /\ purges < MaxPurges
    /\ purges' = purges + 1
    /\ blob' = FALSE
    /\ lost' = lost \cup {p \in Producers : pc[p] \in {"answering", "sent"}}
    /\ UNCHANGED <<session, parts, pc, acked, index, temp, read, todo, torn, faults, sweeps>>

RequestStep(p) == LandChunk(p) \/ ReadAgain(p) \/ AcknowledgeChunk(p)
                  \/ StageParts(p) \/ MarkCompleted(p)

ProducerStep(p) == CreateOrResume(p) \/ SkipChunk(p) \/ StoreChunk(p) 
                   \/ CompleteSession(p) \/ ClearPending(p)

ExpireStep == RemoveMetadata \/ RemoveParts \/ ExpireStops

Next == \/ \E p \in Producers : ProducerStep(p) \/ RequestStep(p)
                                \/ StreamBreaks(p) \/ LoseAnswer(p)
        \/ Crash
        \/ AbortSession
        \/ ExpireSession
        \/ ExpireStep
        \/ PurgeBlob

Spec == Init /\ [][Next]_vars

\* A request that runs goes on; asyncio.Lock wakes its waiters in order, and
\* every replay of pending_uploads tries the row again, so a producer's next
\* request is not passed over for ever.  The cleanup runs on or ends.
Fairness == /\ \A p \in Producers : WF_vars(RequestStep(p)) /\ SF_vars(ProducerStep(p))
            /\ WF_vars(ExpireStep)

FairSpec == Spec /\ Fairness

----------------------------------------------------------------------------
(***************************************************************************)
(* What must hold.                                                         *)
(***************************************************************************)

\* The variables have their types.
VarTypes == /\ session \in Sessions \cup {NoSession}
            /\ parts \subseteq Chunks
            /\ blob \in BOOLEAN
            /\ pc \in [Producers -> Stages]
            /\ acked \in [Producers -> SUBSET Chunks]
            /\ index \in [Producers -> 0 .. ChunkCount]
            /\ temp \in BOOLEAN
            /\ read \in [Producers -> Sessions \cup {NoSession}]
            /\ todo \subseteq {"metadata", "parts"}
            /\ torn \in BOOLEAN
            /\ lost \subseteq Producers
            /\ faults \in 0 .. MaxFaults
            /\ sweeps \in 0 .. MaxSweeps
            /\ purges \in 0 .. MaxPurges

\* One request of the session runs at a time; a temporary file belongs to the
\* stream that writes it; what a request will write was read incomplete.
OneRequest == /\ \A p, q \in InRequest : p = q
              /\ temp => \E p \in Producers : pc[p] = "streaming"
              /\ \A p \in Producers : pc[p] \in ChunkStages => index[p] \in Chunks
              /\ \A p \in Producers : pc[p] \in {"acking", "staging", "stored"} =>
                    read[p].state = "uploading"

\* The type invariant.
TypeOK == VarTypes /\ OneRequest

\* "Stream one chunk to durable staging and acknowledge it idempotently": an
\* acknowledged chunk has its part file, over crashes, aborts, broken streams
\* and repeated requests, unless a cleanup is between the two entries, ran
\* beside a request, or was interrupted after it had removed the parts.
AckedHavePart == session.state = "uploading" /\ todo # {"metadata"} /\ ~torn
                   => session.chunks \subseteq parts

\* A producer that was told its blob is uploaded, and cleared its row, finds it
\* in the store unless a purge came after the server verified it.  So no
\* receipt of an earlier upload answers for a blob that is gone.
UploadedIsStored == \A p \in Producers : pc[p] = "sent" /\ p \notin lost => blob

\* No request takes back the acknowledgement of a chunk, or the completion,
\* although each writes the whole record it has read.
KeepsAcks == session # NoSession /\ session' # NoSession =>
                 /\ session.chunks \subseteq session'.chunks
                 /\ session.state = "completed" => session'.state = "completed"

AcksKept == [][KeepsAcks]_vars

\* The session answers every request with an error, and no request changes it:
\* it is a receipt for a blob that is gone, or acknowledges parts that are gone.
Stuck == \/ session.state = "completed" /\ ~blob
         \/ session.state = "uploading" /\ ~(session.chunks \subseteq parts)

=============================================================================
