-------------------------- MODULE MCUploadSession --------------------------
(***************************************************************************)
(* The two kinds of upload sessions on small instances: two producers of a *)
(* content of two chunks (parts).  They share no state: part says which of *)
(* them a behaviour is of; in the other, everything is uploaded and rests. *)
(***************************************************************************)
EXTENDS UploadSession, DirectUpload

ASSUME MCSame == Producers = Clients

VARIABLE part

mcVars == <<part, vars, directVars>>

SessionRests == /\ session = [state |-> "completed", chunks |-> Chunks]
                /\ parts = {}
                /\ blob = TRUE
                /\ pc = [p \in Producers |-> "sent"]
                /\ acked = [p \in Producers |-> {}]
                /\ index = [p \in Producers |-> 0]
                /\ temp = FALSE
                /\ read = [p \in Producers |-> NoSession]
                /\ todo = {}
                /\ torn = FALSE
                /\ lost = {}
                /\ faults = 0
                /\ sweeps = 0
                /\ purges = 0

DirectRests == /\ receipt = [state |-> "completed", upload |-> 1, parts |-> PartNumbers]
               /\ open = {}
               /\ uploaded = [u \in Uploads |-> {}]
               /\ object = TRUE
               /\ call = [c \in Clients |-> "sent"]
               /\ ticket = [c \in Clients |-> NoReceipt]
               /\ next = [c \in Clients |-> 1]
               /\ opened = NoReceipt
               /\ expiry = Idle
               /\ vouched = FALSE
               /\ severed = FALSE
               /\ gone = {}
               /\ strayed = FALSE
               /\ directFaults = 0
               /\ expiries = 0
               /\ directPurges = 0

MCInit == \/ part = "session" /\ Init /\ DirectRests
          \/ part = "direct" /\ DirectInit /\ SessionRests

\* A step of the part that moves.
Step(sessionStep, directStep) ==
    /\ UNCHANGED part
    /\ \/ part = "session" /\ sessionStep /\ UNCHANGED directVars
       \/ part = "direct" /\ directStep /\ UNCHANGED vars

\* Bound: either the object of a direct upload is purged, or its session expires.
Directs == DirectNext /\ (directPurges' = 0 \/ expiries' = 0)

MCNext == Step(Next, Directs)

\* Fairness and DirectFairness.
MCFairness ==
    /\ \A p \in Producers : /\ WF_mcVars(Step(RequestStep(p), HandlerStep(p)))
                           /\ SF_mcVars(Step(ProducerStep(p), ClientStep(p)))
    /\ WF_mcVars(Step(ExpireStep, ExpiryStep))

MCSpec == MCInit /\ [][MCNext]_mcVars /\ MCFairness

\* A committed direct upload has its object, so has one that was answered, and the
\* store keeps no multipart upload that nobody can abort.
DirectSound == DirectTypeOK /\ CommittedIsStored /\ NoOrphanUpload /\ AnsweredIsStored

\* Every producer uploads in the end, whatever the others and the faults do.
\* Of the sessions of the local store, only one that is stuck keeps it from
\* doing so for ever; of those of an S3 store, only producers that go on
\* aborting each other's sessions.
UploadedInTheEnd ==
    \A p \in Producers : \/ <>(pc[p] = "sent" /\ call[p] = "sent")
                         \/ <>[]Stuck
                         \/ []<>Clash

=============================================================================
