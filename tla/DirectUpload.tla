---------------------------- MODULE DirectUpload ----------------------------
(***************************************************************************)
(* The upload of one artifact blob whose parts the producers put into an   *)
(* S3 store themselves (direct_uploads.py, its handlers in asgi_app.py and *)
(* the client loop in remote_client.py).  All producers of a content share *)
(* one session, because the idempotency key is derived from the content;   *)
(* the session names a multipart upload of the store.  A failing client    *)
(* asks for the abort of the session.  Beside the handlers, which hold the *)
(* event loop, run the cleanup command, catalog commits and purges.        *)
(***************************************************************************)
EXTENDS Integers, FiniteSets

CONSTANTS Clients,          \* the callers of _upload_artifact_blob_direct
          PartCount,        \* the parts of the content
          Uploads,          \* the identities of multipart uploads
          MaxDirectFaults,  \* crashes, store errors, producers that end
          MaxExpiries,      \* runs of cleanup-uploads that find it aged
          MaxDirectPurges   \* purges that delete the object

ASSUME DirectAssumption == /\ PartCount \in Nat \ {0}
                           /\ Uploads \subseteq Nat \ {0}
                           /\ IsFiniteSet(Uploads)

VARIABLES receipt,   \* the session's session.json
          open,      \* the multipart uploads the store has open
          uploaded,  \* per multipart upload, the parts put into it
          object,    \* whether the store has the finished object
          call,      \* per client, where its upload is
          ticket,    \* per client, the session its init answered with
          next,      \* per client, the part its loop has come to
          opened,    \* the session that the running request has read
          expiry,    \* the cleanup: its next step and the upload it has read
          vouched,   \* history: a live version was committed on the object
          severed,   \* history: a completion was cut before it was recorded
          gone,      \* history: clients whose object was purged during or after their call
          strayed,   \* history: an abort failed, or removed another session
          directFaults, expiries, directPurges

directCounts == <<directFaults, expiries, directPurges>>

directHistory == <<vouched, severed, gone, strayed>>

store == <<open, uploaded, object>>

client == <<call, ticket, next>>

directVars == <<receipt, store, client, opened, expiry, directHistory, directCounts>>

PartNumbers == 1 .. PartCount

NoUpload == 0

Receipts == [state : {"none", "uploading", "completed"},
             upload : Uploads \cup {NoUpload}, parts : SUBSET PartNumbers]

NoReceipt == [state |-> "none", upload |-> NoUpload, parts |-> {}]

Idle == [step |-> "idle", upload |-> NoUpload]

\* A request that has read the session and will write it.
Handling == {c \in Clients : call[c] \in {"recording", "verifying"}}

\* Faulty variant: the handlers await, and take no lock of the session.
LoopShared == TRUE

\* The handlers do not await between reading the session and writing it.
LoopFree == Handling = {}

At(c, place) == call' = [call EXCEPT ![c] = place]

\* The call returns or raises, and its variables go.
Leaves(c, place) == /\ At(c, place)
                    /\ ticket' = [ticket EXCEPT ![c] = NoReceipt]
                    /\ next' = [next EXCEPT ![c] = 1]

\* The store forgets the parts of a multipart upload it closes.
Close(u) == /\ open' = open \ {u}
            /\ uploaded' = [v \in Uploads |-> IF v = u THEN {} ELSE uploaded[v]]

Free == Uploads \ (open \cup {receipt.upload, opened.upload, expiry.upload}
                        \cup {ticket[c].upload : c \in Clients})

DirectInit == /\ receipt = NoReceipt
              /\ open = {}
              /\ uploaded = [u \in Uploads |-> {}]
              /\ object = FALSE
              /\ call = [c \in Clients |-> "pending"]
              /\ ticket = [c \in Clients |-> NoReceipt]
              /\ next = [c \in Clients |-> 1]
              /\ opened = NoReceipt
              /\ expiry = Idle
              /\ vouched = FALSE
              /\ severed = FALSE
              /\ gone = {}
              /\ strayed = FALSE
              /\ directFaults = 0
              /\ expiries = 0
              /\ directPurges = 0

DirectFault == /\ directFaults < MaxDirectFaults
               /\ directFaults' = directFaults + 1
               /\ UNCHANGED <<expiries, directPurges>>

(***************************************************************************)
(* POST .../direct/{project}: create_or_resume_session.                    *)
(***************************************************************************)
\* store.begin_multipart.
BeginMultipart(u) == /\ u \in Free
                     /\ \A v \in Free : u <= v
                     /\ open' = open \cup {u}
                     /\ uploaded' = [uploaded EXCEPT ![u] = {}]
                     /\ UNCHANGED object

\* An incomplete session is resumed; the client goes on with its parts.
ResumeDirect(c) ==
    /\ receipt.state = "uploading"
    /\ ticket' = [ticket EXCEPT ![c] = receipt]
    /\ At(c, "putting")
    /\ UNCHANGED <<receipt, store, next>>

\* The object is there: the receipt is kept or, without one, written.
AlreadyPresent(c) ==
    /\ receipt.state # "uploading"
    /\ object
    /\ receipt' = IF receipt.state = "completed" THEN receipt
                  ELSE [NoReceipt EXCEPT !.state = "completed"]
    /\ Leaves(c, "answered")
    /\ UNCHANGED store

\* Faulty variant: the store is not asked for the object.
StartUnasked(c) ==
    /\ receipt.state # "uploading"
    /\ \E u \in Uploads : /\ BeginMultipart(u)
                          /\ receipt' = [state |-> "uploading", upload |-> u, parts |-> {}]
    /\ ticket' = [ticket EXCEPT ![c] = receipt']
    /\ At(c, "putting")
    /\ UNCHANGED next

\* No session, or the stale receipt of an object that is gone, which goes.
StartDirect(c) ==
    /\ receipt.state # "uploading"
    /\ ~object
    /\ \E u \in Uploads : /\ BeginMultipart(u)
                          /\ receipt' = [state |-> "uploading", upload |-> u, parts |-> {}]
    /\ ticket' = [ticket EXCEPT ![c] = receipt']
    /\ At(c, "putting")
    /\ UNCHANGED next

CreateOrResumeDirect(c) ==
    /\ call[c] = "pending"
    /\ LoopFree
    /\ ResumeDirect(c) \/ AlreadyPresent(c) \/ StartDirect(c)
    /\ UNCHANGED <<opened, expiry, directHistory, directCounts>>

\* The server ends after it has begun the multipart upload.
CreateIsCut(c) ==
    /\ call[c] = "pending"
    /\ LoopFree
    /\ receipt.state # "uploading"
    /\ ~object
    /\ DirectFault
    /\ \E u \in Uploads : BeginMultipart(u)
    /\ receipt' = NoReceipt
    /\ strayed' = TRUE
    /\ UNCHANGED <<client, opened, expiry, vouched, severed, gone>>

(***************************************************************************)
(* The loop over the parts.                                                *)
(***************************************************************************)
SkipPart(c) ==
    /\ call[c] = "putting"
    /\ next[c] \in ticket[c].parts
    /\ next' = [next EXCEPT ![c] = @ + 1]
    /\ UNCHANGED <<receipt, store, call, ticket, opened, expiry, directHistory, directCounts>>

\* PUT to the presigned URL: the store refuses an upload it has not open.
PutPart(c) ==
    /\ call[c] = "putting"
    /\ next[c] \in PartNumbers \ ticket[c].parts
    /\ \/ /\ ticket[c].upload \in open
          /\ uploaded' = [uploaded EXCEPT ![ticket[c].upload] = @ \cup {next[c]}]
          /\ At(c, "acking")
       \/ /\ ticket[c].upload \notin open
          /\ At(c, "failing")
          /\ UNCHANGED uploaded
    /\ UNCHANGED <<receipt, open, object, ticket, next, opened, expiry,
                   directHistory, directCounts>>

\* POST .../parts/{part_number}: acknowledge_part reads the session.
AcknowledgePart(c) ==
    /\ call[c] = "acking"
    /\ LoopFree
    /\ \/ /\ receipt.state = "none"
          /\ At(c, "failing")
          /\ UNCHANGED <<next, opened>>
       \/ /\ receipt.state = "completed"
          /\ At(c, "putting")
          /\ next' = [next EXCEPT ![c] = @ + 1]
          /\ UNCHANGED opened
       \/ /\ receipt.state = "uploading"
          /\ opened' = receipt
          /\ At(c, "recording")
          /\ UNCHANGED next
    /\ UNCHANGED <<receipt, store, ticket, expiry, directHistory, directCounts>>

\* ... and writes it, in a directory that _write_json_atomic makes again.
RecordPart(c) ==
    /\ call[c] = "recording"
    /\ receipt' = [opened EXCEPT !.parts = @ \cup {next[c]}]
    /\ opened' = NoReceipt
    /\ next' = [next EXCEPT ![c] = @ + 1]
    /\ At(c, "putting")
    /\ UNCHANGED <<store, ticket, expiry, directHistory, directCounts>>

(***************************************************************************)
(* POST .../{upload_id}: complete_session.                                 *)
(***************************************************************************)
Completes == receipt.upload \in open /\ uploaded[receipt.upload] = PartNumbers

CompleteDirect(c) ==
    /\ call[c] = "putting"
    /\ next[c] > PartCount
    /\ LoopFree
    /\ \/ /\ receipt.state = "none"
          /\ At(c, "failing")
          /\ UNCHANGED <<store, ticket, next, opened>>
       \/ /\ receipt.state = "completed"
          /\ Leaves(c, "answered")
          /\ UNCHANGED <<store, opened>>
       \/ /\ receipt.state = "uploading"
          /\ Completes
          /\ Close(receipt.upload)
          /\ object' = TRUE
          /\ opened' = receipt
          /\ At(c, "verifying")
          /\ UNCHANGED <<ticket, next>>
       \/ /\ receipt.state = "uploading"
          /\ ~Completes
          /\ object' = FALSE
          /\ At(c, "failing")
          /\ UNCHANGED <<open, uploaded, ticket, next, opened>>
    /\ UNCHANGED <<receipt, expiry, directHistory, directCounts>>

\* store.verify and the write of the completed session.
RecordCompleted(c) ==
    /\ call[c] = "verifying"
    /\ opened' = NoReceipt
    /\ \/ /\ object
          /\ receipt' = [NoReceipt EXCEPT !.state = "completed"]
          /\ Leaves(c, "answered")
       \/ /\ ~object
          /\ At(c, "failing")
          /\ UNCHANGED <<receipt, ticket, next>>
    /\ UNCHANGED <<store, expiry, directHistory, directCounts>>

\* The answer to the completion, or the verification's read, is an error: the
\* object is deleted.
VerifyFails(c) ==
    /\ call[c] = "verifying"
    /\ DirectFault
    /\ object' = FALSE
    /\ opened' = NoReceipt
    /\ severed' = TRUE
    /\ At(c, "failing")
    /\ UNCHANGED <<receipt, open, uploaded, ticket, next, expiry, vouched, gone, strayed>>

\* The call returned True; replay_pending_uploads clears the row.
ClearDirect(c) ==
    /\ call[c] = "answered"
    /\ At(c, "sent")
    /\ UNCHANGED <<receipt, store, ticket, next, opened, expiry, directHistory, directCounts>>

(***************************************************************************)
(* DELETE .../{upload_id}: abort_session, whatever session has the id now. *)
(***************************************************************************)
\* Faulty variant: the multipart upload is left open.
AbortWithoutStore(c) ==
    /\ call[c] = "failing"
    /\ LoopFree
    /\ receipt' = IF receipt.state = "uploading" THEN NoReceipt ELSE receipt
    /\ Leaves(c, "pending")
    /\ UNCHANGED <<store, opened, expiry, directHistory, directCounts>>

\* Faulty variant: the session's directory is left in place.
AbortKeepsSession(c) ==
    /\ call[c] = "failing"
    /\ LoopFree
    /\ IF receipt.state = "uploading" THEN Close(receipt.upload) ELSE UNCHANGED <<open, uploaded>>
    /\ Leaves(c, "pending")
    /\ UNCHANGED <<receipt, object, opened, expiry, directHistory, directCounts>>

AbortDirect(c) ==
    /\ call[c] = "failing"
    /\ LoopFree
    /\ \/ /\ receipt.state = "uploading"
          /\ Close(receipt.upload)
          /\ receipt' = NoReceipt
       \/ /\ receipt.state # "uploading"
          /\ UNCHANGED <<open, uploaded, receipt>>
    /\ Leaves(c, "pending")
    /\ UNCHANGED <<object, opened, expiry, directHistory, directCounts>>

(***************************************************************************)
(* What goes wrong, and the actors outside the event loop.                 *)
(***************************************************************************)
\* The producer's process ends, or its abort is lost; the row stays pending.
ClientEnds(c) ==
    /\ call[c] \in {"putting", "acking", "failing", "answered"}
    /\ DirectFault
    /\ Leaves(c, "pending")
    /\ UNCHANGED <<receipt, store, opened, expiry, directHistory>>

\* The server ends; its clients' aborts cannot reach it.
ServerEnds ==
    /\ DirectFault
    /\ call' = [c \in Clients |-> IF c \in Handling THEN "pending" ELSE call[c]]
    /\ ticket' = [c \in Clients |-> IF c \in Handling THEN NoReceipt ELSE ticket[c]]
    /\ next' = [c \in Clients |-> IF c \in Handling THEN 1 ELSE next[c]]
    /\ opened' = NoReceipt
    /\ severed' = (severed \/ \E c \in Handling : call[c] = "verifying")
    /\ UNCHANGED <<receipt, store, expiry, vouched, gone, strayed>>

\* expire_sessions reads an incomplete session that is old enough.
ExpireDirect ==
    /\ expiry = Idle
    /\ receipt.state = "uploading"
    /\ expiries < MaxExpiries
    /\ expiries' = expiries + 1
    /\ expiry' = [step |-> "abort", upload |-> receipt.upload]
    /\ UNCHANGED <<receipt, store, client, opened, directHistory, directFaults, directPurges>>

ExpireAborts ==
    /\ expiry.step = "abort"
    /\ expiry' = [expiry EXCEPT !.step = "remove"]
    /\ \/ /\ Close(expiry.upload)
          /\ UNCHANGED <<strayed, directCounts>>
       \/ /\ DirectFault
          /\ strayed' = TRUE
          /\ UNCHANGED <<open, uploaded>>
    /\ UNCHANGED <<receipt, object, client, opened, vouched, severed, gone>>

\* finally: shutil.rmtree of the session's directory.
ExpireRemoves ==
    /\ expiry.step = "remove"
    /\ expiry' = Idle
    /\ receipt' = NoReceipt
    /\ strayed' = (strayed \/ (receipt.state = "uploading" /\ receipt.upload # expiry.upload))
    /\ UNCHANGED <<store, client, opened, vouched, severed, gone, directCounts>>

\* Another producer finds the blob on the server and commits a version of it.
CommitOnObject ==
    /\ object
    /\ ~vouched
    /\ vouched' = TRUE
    /\ UNCHANGED <<receipt, store, client, opened, expiry, severed, gone, strayed,
                   directCounts>>

\* purge_runs deletes the versions and then the object (see ArtifactCatalog).
PurgeObject ==
    /\ object
    /\ directPurges < MaxDirectPurges
    /\ directPurges' = directPurges + 1
    /\ object' = FALSE
    /\ vouched' = FALSE
    /\ gone' = gone \cup {c \in Clients : call[c] # "pending"}
    /\ UNCHANGED <<receipt, open, uploaded, client, opened, expiry, severed, strayed,
                   directFaults, expiries>>

HandlerStep(c) == RecordPart(c) \/ RecordCompleted(c)

ClientStep(c) == CreateOrResumeDirect(c) \/ SkipPart(c) \/ PutPart(c) \/ AcknowledgePart(c)
                 \/ CompleteDirect(c) \/ ClearDirect(c) \/ AbortDirect(c)

ExpiryStep == ExpireAborts \/ ExpireRemoves

DirectNext == \/ \E c \in Clients : \/ ClientStep(c)
                                    \/ HandlerStep(c)
                                    \/ CreateIsCut(c)
                                    \/ VerifyFails(c)
                                    \/ ClientEnds(c)
              \/ ServerEnds
              \/ ExpireDirect
              \/ ExpiryStep
              \/ CommitOnObject
              \/ PurgeObject

DirectSpec == DirectInit /\ [][DirectNext]_directVars

\* A request that runs goes on; a client's next step is not passed over for
\* ever, and its row is replayed until it is cleared; the cleanup runs on.
DirectFairness == /\ \A c \in Clients : WF_directVars(HandlerStep(c)) /\ SF_directVars(ClientStep(c))
                  /\ WF_directVars(ExpiryStep)

DirectFairSpec == DirectSpec /\ DirectFairness

----------------------------------------------------------------------------
(***************************************************************************)
(* What must hold.                                                         *)
(***************************************************************************)

\* The type invariant: the variables have their types, and one request at a
\* time holds the session it has read.
DirectTypeOK ==
    /\ receipt \in Receipts
    /\ open \subseteq Uploads
    /\ uploaded \in [Uploads -> SUBSET PartNumbers]
    /\ object \in BOOLEAN
    /\ call \in [Clients -> {"pending", "putting", "acking", "recording", "verifying",
                             "failing", "answered", "sent"}]
    /\ ticket \in [Clients -> Receipts]
    /\ next \in [Clients -> 1 .. PartCount + 1]
    /\ opened \in Receipts
    /\ expiry \in [step : {"idle", "abort", "remove"}, upload : Uploads \cup {NoUpload}]
    /\ \A c, d \in Handling : c = d
    /\ Handling # {} => opened.state = "uploading"

\* The object a live version was committed on stays, although a completion that
\* fails deletes it: only a completion that was cut after the store had
\* finished it, and is repeated or given up, takes it away.
CommittedIsStored == vouched /\ ~severed => object

\* No multipart upload stays open in the store (and is paid for) with nobody to
\* close it, unless an abort failed or a cleanup removed a newer session.
NoOrphanUpload ==
    ~strayed => open \subseteq {receipt.upload, expiry.upload} \cup {opened.upload}

\* "A completed multipart session is no longer treated as proof that its object
\* still exists": a producer that was told its blob is uploaded finds it in the
\* store, unless a purge took it since its call began or a completion was cut.
AnsweredIsStored == \A c \in Clients : call[c] = "sent" /\ c \notin gone /\ ~severed => object

\* A client is about to abort a session that is not the one it has failed on.
Clash == \E c \in Clients : /\ call[c] = "failing"
                            /\ receipt.state = "uploading"
                            /\ receipt.upload # ticket[c].upload

=============================================================================
