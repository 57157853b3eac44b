-------------------------- MODULE ArtifactMigration -------------------------
(***************************************************************************)
(* The copy of a local artifact store into an S3 store, and the removal of *)
(* the local files on the word of a receipt (artifact_migration.py).  The  *)
(* server may store or purge blobs meanwhile, and a run may be cut.        *)
(***************************************************************************)
EXTENDS Naturals, FiniteSets

CONSTANTS LocalBlobs,
          MaxCopies,        \* runs of the tool
          MaxBlobChanges,   \* blobs stored or purged beside it
          MaxCopyFaults     \* runs cut, blobs that fail

ASSUME ArtifactMigrationAssumption == MaxCopies \in Nat

VARIABLES local,      \* blobs in the local store
          s3,         \* blobs in the S3 store
          copying,    \* the run of the tool
          receipts,   \* the receipts written
          unlinked,   \* history: blobs it has removed from the local store
          expired,    \* history: blobs the server has purged
          copyCount

copyVars == <<local, s3, copying, receipts, unlinked, expired, copyCount>>

NotCopying == [at |-> "stopped"]

Tally(what, bound) == /\ copyCount[what] < bound
                      /\ copyCount' = [copyCount EXCEPT ![what] = @ + 1]

CopyInit == /\ local \in SUBSET LocalBlobs
            /\ s3 = {}
            /\ copying = NotCopying
            /\ receipts = {}
            /\ unlinked = {}
            /\ expired = {}
            /\ copyCount = [runs |-> 0, changes |-> 0, faults |-> 0]

\* --delete-local needs a complete receipt of this set of local digests.
MayDelete(blobs) == [blobs |-> blobs, complete |-> TRUE] \in receipts

BeginCopying(mode) ==
    /\ copying = NotCopying
    /\ Tally("runs", MaxCopies)
    /\ mode = "delete" => MayDelete(local)
    /\ copying' = [at |-> "copying", mode |-> mode, blobs |-> local, left |-> local,
                   failed |-> FALSE]
    /\ UNCHANGED <<local, s3, receipts, unlinked, expired>>

\* Faulty variant: the receipt stands for the copies, which are only verified
\* when there is none.
TrustReceipt ==
    /\ copying.at = "copying"
    /\ \E b \in copying.left :
          /\ s3' = IF copying.mode = "copy" THEN s3 \cup {b} ELSE s3
          /\ copying' = [copying EXCEPT !.left = @ \ {b},
                                        !.failed = @ \/ (copying.mode = "verify" /\ b \notin s3)]
    /\ UNCHANGED <<local, receipts, unlinked, expired, copyCount>>

\* store.put_file unless it is there, and store.verify; with verify_only the
\* latter alone, which fails for a blob that is missing.
CopyBlob ==
    /\ copying.at = "copying"
    /\ \E b \in copying.left :
          /\ s3' = IF copying.mode = "verify" THEN s3 ELSE s3 \cup {b}
          /\ copying' = [copying EXCEPT !.left = @ \ {b}, !.failed = @ \/ b \notin s3']
    /\ UNCHANGED <<local, receipts, unlinked, expired, copyCount>>

\* The store, or the local file, fails for this blob; the next one is tried.
CopyFails ==
    /\ copying.at = "copying"
    /\ Tally("faults", MaxCopyFaults)
    /\ \E b \in copying.left : copying' = [copying EXCEPT !.left = @ \ {b}, !.failed = TRUE]
    /\ UNCHANGED <<local, s3, receipts, unlinked, expired>>

\* Faulty variant: a failure does not keep the local files.
UnlinkAnyway ==
    /\ copying.at = "copying"
    /\ copying.mode = "delete"
    /\ copying.left = {}
    /\ \E b \in copying.blobs \cap local : /\ local' = local \ {b}
                                           /\ unlinked' = unlinked \cup {b}
    /\ UNCHANGED <<s3, copying, receipts, expired, copyCount>>

\* Nothing failed: the files go one by one.
UnlinkLocal ==
    /\ copying.at = "copying"
    /\ copying.mode = "delete"
    /\ copying.left = {}
    /\ ~copying.failed
    /\ \E b \in copying.blobs \cap local : /\ local' = local \ {b}
                                           /\ unlinked' = unlinked \cup {b}
    /\ UNCHANGED <<s3, copying, receipts, expired, copyCount>>

\* The receipt is written last; a refused deletion raises before it.
WriteReceipt ==
    /\ copying.at = "copying"
    /\ copying.left = {}
    /\ copying.mode = "delete" => copying.failed \/ copying.blobs \cap local = {}
    /\ receipts' = IF copying.mode = "delete" /\ copying.failed THEN receipts
                   ELSE receipts \cup {[blobs |-> copying.blobs, complete |-> ~copying.failed]}
    /\ copying' = NotCopying
    /\ UNCHANGED <<local, s3, unlinked, expired, copyCount>>

CutCopying == /\ copying # NotCopying
              /\ Tally("faults", MaxCopyFaults)
              /\ copying' = NotCopying
              /\ UNCHANGED <<local, s3, receipts, unlinked, expired>>

\* A server that still has the local store writes a blob; one that has the S3
\* store purges one.
StoreLocally == /\ Tally("changes", MaxBlobChanges)
                /\ \E b \in LocalBlobs \ local : /\ local' = local \cup {b}
                                                 /\ unlinked' = unlinked \ {b}
                /\ UNCHANGED <<s3, copying, receipts, expired>>

PurgeStored == /\ Tally("changes", MaxBlobChanges)
               /\ \E b \in s3 : /\ s3' = s3 \ {b}
                                /\ expired' = IF copying # NotCopying \/ b \notin local
                                              THEN expired \cup {b} ELSE expired
               /\ UNCHANGED <<local, copying, receipts, unlinked>>

CopyNext == \/ \E mode \in {"copy", "verify", "delete"} : BeginCopying(mode)
            \/ CopyBlob \/ CopyFails \/ UnlinkLocal \/ WriteReceipt \/ CutCopying
            \/ StoreLocally \/ PurgeStored

CopySpec == CopyInit /\ [][CopyNext]_copyVars

----------------------------------------------------------------------------
(***************************************************************************)
(* What must hold.                                                         *)
(***************************************************************************)

\* The type invariant.
CopyTypeOK == /\ local \subseteq LocalBlobs
              /\ s3 \subseteq LocalBlobs
              /\ \A r \in receipts : r.blobs \subseteq LocalBlobs /\ r.complete \in BOOLEAN
              /\ copying # NotCopying => copying.left \subseteq copying.blobs

\* --delete-local removes no file whose blob the S3 store does not hold, even
\* when the receipt it is given has become stale since: the blob was purged
\* there after the file had been removed, or while the tool ran.
UnlinkedIsStored == unlinked \subseteq s3 \cup expired

=============================================================================
