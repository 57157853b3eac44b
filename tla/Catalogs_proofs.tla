-------------------------- MODULE Catalogs_proofs ---------------------------
(***************************************************************************)
(* Proofs about what the server's storage promises: the artifact catalog   *)
(* of a project (ArtifactCatalog), the tables of runs in Doris             *)
(* (DorisRuns), the artifact catalog in Doris and the two migrations, for  *)
(* any contents, runs, names, workers, threads, records, blobs and bounds; *)
(* then what MCCatalogs says of its instance, whose steps are steps of one *)
(* component and stutters of the others.                                   *)
(***************************************************************************)
EXTENDS MCCatalogs, SequenceTheorems, TLAPS

-----------------------------------------------------------------------------
\* The artifact catalog and the tables of runs in Doris.

(***************************************************************************)
(* The catalog.  A commit, by CommitExisting or CommitNew, and ApplyPurge  *)
(* are the only steps that change rows; everything else is about which     *)
(* blobs a row or a call may count on.                                     *)
(***************************************************************************)

\* What a commit of call h does to the catalog, without its effect on the call.
CommitRows(h) == CommitExisting(h) \/ CommitNew(h)

\* The number of a new version exceeds those of all that exist.
LEMMA NextNumbersExceed ==
  ASSUME RowsTyped, NEW n \in NextNumbers
  PROVE  n \in Nat /\ \A i \in live : number[i] < n
  BY DEF RowsTyped, NextNumbers, Ids

\* Steps other than commits and purges leave the rows alone.
RowsUnchanged == UNCHANGED <<content, number, live, alias, exposed>>

LEMMA InitTyped == Init => TypeOK
  <1> SUFFICES ASSUME Init PROVE TypeOK
    OBVIOUS
  <1> USE CatalogAssumption DEF Init
  <1>1. RowsTyped
    BY DEF RowsTyped, Ids
  <1>2. LinksTyped
    BY DEF LinksTyped, Ids
  <1>3. StoreTyped
    BY DEF StoreTyped, Ids
  <1>4. CallsTyped
    BY DEF CallsTyped, ClientStates, Calls
  <1> QED
    BY <1>1, <1>2, <1>3, <1>4 DEF TypeOK

LEMMA NextRowsTyped ==
  ASSUME RowsTyped, LinksTyped, CallsTyped, [Next]_vars
  PROVE  RowsTyped'
  <1>1. CASE \E h \in handlers : CommitArtifactVersion(h)
    <2> PICK h \in handlers : CommitArtifactVersion(h)
      BY <1>1
    <2>0. h.manifest \in Manifests
      BY DEF CallsTyped, Calls
    <2>1. CASE CommitExisting(h)
      BY <2>1 DEF CommitExisting, RowsTyped, Ids
    <2>2. CASE CommitNew(h)
      <3> DEFINE i == Len(content) + 1
      <3> PICK n \in NextNumbers : /\ content' = Append(content, h.manifest)
                                   /\ number' = Append(number, n)
                                   /\ live' = live \cup {i}
        BY <2>2 DEF CommitNew
      <3>1. n \in Nat /\ \A j \in live : number[j] < n
        BY NextNumbersExceed
      <3>2. /\ content' \in Seq(Manifests) /\ number' \in Seq(Nat)
            /\ Len(number') = Len(content') /\ Len(content') = i
        BY <2>0, <3>1 DEF RowsTyped
      <3>3. \A j \in live : j \in 1..Len(content) /\ number'[j] = number[j]
                                                  /\ content'[j] = content[j]
        BY <2>0, <3>1 DEF RowsTyped, Ids
      <3>4. number'[i] = n /\ content'[i] = h.manifest
        BY <2>0, <3>1 DEF RowsTyped
      <3>5. \A j \in live : content[j] # h.manifest
        BY <2>2 DEF CommitNew, SameContent
      <3>6. live' \subseteq Ids'
        <4>1. Len(content) \in Nat /\ 1..i = 1..Len(content) \cup {i}
          BY DEF RowsTyped
        <4>2. Ids' = 1..i
          BY <3>2 DEF Ids
        <4> QED
          BY <4>1, <4>2 DEF Ids, RowsTyped
      <3>7. \A j, k \in live' : number'[j] = number'[k] => j = k
        <4> SUFFICES ASSUME NEW j \in live', NEW k \in live', number'[j] = number'[k]
                     PROVE  j = k
          OBVIOUS
        <4>1. \A x \in live : number[x] \in Nat
          BY DEF RowsTyped, Ids
        <4> QED
          BY <3>1, <3>3, <3>4, <4>1 DEF RowsTyped
      <3>8. \A j, k \in live' : content'[j] = content'[k] => j = k
        BY <3>3, <3>4, <3>5 DEF RowsTyped
      <3> HIDE DEF i
      <3> QED
        BY <3>2, <3>6, <3>7, <3>8 DEF RowsTyped
    <2> QED
      BY <2>1, <2>2 DEF CommitArtifactVersion
  <1>2. CASE ApplyPurge
    BY <1>2 DEF ApplyPurge, RowsTyped, Ids
  <1>3. CASE /\ ~(\E h \in handlers : CommitArtifactVersion(h))
             /\ ~ApplyPurge
    <2>1. UNCHANGED <<content, number, live>>
      BY <1>3 DEF Next, vars, catalog, RunStep, PurgeStep, CheckBlobs, UploadBlob,
         ArtifactLogChecks, ArtifactLogFails, ResolveArtifact, LogArtifactUse, DeleteRun,
         PreviewPurge, RecheckPurge, RollBackPurge, DeleteBlob, PurgeDone, Crash
    <2> QED
      BY <2>1 DEF RowsTyped, Ids
  <1> QED
    BY <1>1, <1>2, <1>3

\* Steps only add ids, so what refers to a row keeps referring to one.
LEMMA IdsGrow ==
  ASSUME RowsTyped, CallsTyped, [Next]_vars
  PROVE  Ids \subseteq Ids'
  <1>1. CASE \E h \in handlers : CommitArtifactVersion(h)
    <2> PICK h \in handlers : CommitArtifactVersion(h)
      BY <1>1
    <2>0. h.manifest \in Manifests
      BY DEF CallsTyped, Calls
    <2>1. content' = content \/ content' = Append(content, h.manifest)
      BY DEF CommitArtifactVersion, CommitExisting, CommitNew
    <2> QED
      BY <2>0, <2>1 DEF RowsTyped, Ids
  <1>2. CASE ~(\E h \in handlers : CommitArtifactVersion(h))
    <2>1. content' = content
      BY <1>2 DEF Next, vars, catalog, RunStep, PurgeStep, CheckBlobs, UploadBlob,
         ArtifactLogChecks, ArtifactLogFails, ResolveArtifact, LogArtifactUse, DeleteRun,
         PreviewPurge, RecheckPurge, ApplyPurge, RollBackPurge, DeleteBlob, PurgeDone, Crash
    <2> QED
      BY <2>1 DEF Ids
  <1> QED
    BY <1>1, <1>2

\* The row a commit ends at, whether it existed or is new.
LEMMA CommitRow ==
  ASSUME RowsTyped, LinksTyped, CallsTyped,
         NEW h \in handlers, CommitArtifactVersion(h)
  PROVE  \E i \in live' :
           /\ i \in Ids'
           /\ live' = live \cup {i}
           /\ links' = links \cup {<<h.run, i, "output">>}
           /\ alias' \in [Aliases -> Ids' \cup {0}]
           /\ \A a \in Aliases : alias'[a] \in {alias[a], i}
           /\ exposed' \in {exposed, exposed \cup {i}}
  <1>0. h.manifest \in Manifests
    BY DEF CallsTyped, Calls
  <1>1. CASE CommitExisting(h)
    <2> PICK i \in SameContent(h.manifest) :
               /\ alias' = AliasesAfter(h.manifest, i, number[i], FALSE)
               /\ links' = links \cup {<<h.run, i, "output">>}
      BY <1>1 DEF CommitExisting
    <2>1. i \in live /\ Ids' = Ids /\ live' = live /\ exposed' = exposed
      BY <1>1 DEF CommitExisting, SameContent, Ids
    <2>2. i \in Ids
      BY <2>1 DEF RowsTyped
    <2> QED
      BY <2>1, <2>2 DEF AliasesAfter, LinksTyped
  <1>2. CASE CommitNew(h)
    <2> DEFINE i == Len(content) + 1
    <2> PICK n \in NextNumbers :
               /\ content' = Append(content, h.manifest)
               /\ live' = live \cup {i}
               /\ alias' = AliasesAfter(h.manifest, i, n, TRUE)
               /\ links' = links \cup {<<h.run, i, "output">>}
               /\ exposed' = IF h.raced THEN exposed \cup {i} ELSE exposed
      BY <1>2 DEF CommitNew
    <2>1. Len(content) \in Nat /\ Len(content') = Len(content) + 1
      BY <1>0 DEF RowsTyped
    <2>2. Ids \subseteq Ids' /\ i \in Ids'
      BY <2>1 DEF Ids
    <2> HIDE DEF i
    <2>3. \A a \in Aliases : alias'[a] \in {alias[a], i}
      BY DEF AliasesAfter
    <2>4. alias' \in [Aliases -> Ids' \cup {0}]
      BY <2>2 DEF AliasesAfter, LinksTyped
    <2> QED
      BY <2>2, <2>3, <2>4
  <1> QED
    BY <1>1, <1>2 DEF CommitArtifactVersion

LEMMA NextLinksTyped ==
  ASSUME RowsTyped, LinksTyped, CallsTyped, [Next]_vars
  PROVE  LinksTyped'
  <1>0. Ids \subseteq Ids'
    BY IdsGrow
  <1>1. CASE \E h \in handlers : CommitArtifactVersion(h)
    <2> PICK h \in handlers : CommitArtifactVersion(h)
      BY <1>1
    <2>1. PICK i \in Ids' : /\ links' = links \cup {<<h.run, i, "output">>}
                            /\ alias' \in [Aliases -> Ids' \cup {0}]
      BY CommitRow
    <2>2. h.run \in Runs /\ metrics' = metrics
      BY DEF CallsTyped, Calls, CommitArtifactVersion
    <2> QED
      BY <1>0, <2>1, <2>2 DEF LinksTyped
  <1>2. CASE \E r \in Runs : LogArtifactUse(r)
    <2> PICK r \in Runs : LogArtifactUse(r)
      BY <1>2
    <2>1. client[r].id \in Ids
      <3>1. client[r] \in ClientStates /\ client[r].at = "using"
        BY DEF CallsTyped, LogArtifactUse
      <3> QED
        BY <3>1 DEF ClientStates, Idle
    <2> QED
      BY <1>0, <2>1 DEF LogArtifactUse, LinksTyped
  <1>3. CASE ApplyPurge
    <2>1. Ids' = Ids
      BY <1>3 DEF ApplyPurge, Ids
    <2>2. links' \subseteq links /\ metrics' \subseteq metrics
      BY <1>3 DEF ApplyPurge, LinksWithout
    <2>3. alias' = [a \in Aliases |-> IF alias[a] \in Doomed THEN 0 ELSE alias[a]]
      BY <1>3 DEF ApplyPurge, AliasesWithout
    <2> HIDE DEF Doomed
    <2> QED
      BY <2>1, <2>2, <2>3 DEF LinksTyped
  <1>4. CASE \E r \in Runs : DeleteRun(r)
    BY <1>4 DEF DeleteRun, LinksWithout, LinksTyped, Ids
  <1>5. CASE /\ ~(\E h \in handlers : CommitArtifactVersion(h))
             /\ ~ApplyPurge
             /\ ~(\E r \in Runs : LogArtifactUse(r) \/ DeleteRun(r))
    <2>1. UNCHANGED <<content, alias, links, metrics>>
      BY <1>5 DEF Next, vars, catalog, RunStep, PurgeStep, CheckBlobs, UploadBlob,
         ArtifactLogChecks, ArtifactLogFails, ResolveArtifact,
         PreviewPurge, RecheckPurge, RollBackPurge, DeleteBlob, PurgeDone, Crash
    <2> QED
      BY <2>1 DEF LinksTyped, Ids
  <1> QED
    BY <1>1, <1>2, <1>3, <1>4, <1>5

LEMMA NextStoreTyped ==
  ASSUME RowsTyped, LinksTyped, StoreTyped, CallsTyped, [Next]_vars
  PROVE  StoreTyped'
  <1>0. Ids \subseteq Ids'
    BY IdsGrow
  <1>1. CASE \E h \in handlers : CommitArtifactVersion(h)
    <2> PICK h \in handlers : CommitArtifactVersion(h)
      BY <1>1
    <2>1. \E i \in Ids' : exposed' \in {exposed, exposed \cup {i}}
      BY CommitRow
    <2>2. UNCHANGED <<blobs, garbage>>
      BY DEF CommitArtifactVersion
    <2> QED
      BY <1>0, <2>1, <2>2 DEF StoreTyped
  <1>2. CASE ApplyPurge
    <2>1. garbage' \subseteq Digests
      <3>1. \A i \in live : Blobs[content[i]] \subseteq Digests
        BY CatalogAssumption DEF RowsTyped, Ids
      <3>2. Doomed \subseteq live /\ garbage' \subseteq DigestsOf(Doomed)
        BY <1>2 DEF ApplyPurge, Purgeable, Unreferenced
      <3> QED
        BY <3>1, <3>2 DEF DigestsOf
    <2>2. UNCHANGED <<blobs, exposed>>
      BY <1>2 DEF ApplyPurge
    <2> QED
      BY <1>0, <2>1, <2>2 DEF StoreTyped
  <1>3. CASE \E r \in Runs : UploadBlob(r)
    <2> PICK r \in Runs : UploadBlob(r)
      BY <1>3
    <2>1. client[r].missing \subseteq Digests
      <3>1. client[r] \in ClientStates /\ client[r].at = "logging"
        BY DEF CallsTyped, UploadBlob
      <3> QED
        BY <3>1 DEF ClientStates, Idle
    <2> QED
      BY <1>0, <2>1 DEF UploadBlob, StoreTyped
  <1>4. CASE DeleteBlob \/ Crash
    BY <1>0, <1>4 DEF DeleteBlob, Crash, StoreTyped
  <1>5. CASE /\ ~(\E h \in handlers : CommitArtifactVersion(h))
             /\ ~ApplyPurge /\ ~DeleteBlob /\ ~Crash
             /\ ~(\E r \in Runs : UploadBlob(r))
    <2>1. UNCHANGED <<blobs, garbage, exposed>>
      BY <1>5 DEF Next, vars, RunStep, PurgeStep, CheckBlobs, LogArtifactUse, DeleteRun,
         ArtifactLogChecks, ArtifactLogFails, ResolveArtifact,
         PreviewPurge, RecheckPurge, RollBackPurge, PurgeDone
    <2> QED
      BY <1>0, <2>1 DEF StoreTyped
  <1> QED
    BY <1>1, <1>2, <1>3, <1>4, <1>5

\* A client that is logging has the fields of that state.
Logging == [at : {"logging"}, manifest : Manifests, missing : SUBSET Digests,
            attempt : 0..MaxAttempts]

LEMMA LoggingFields ==
  ASSUME CallsTyped, NEW r \in Runs, client[r].at = "logging"
  PROVE  client[r] \in Logging
  BY DEF CallsTyped, ClientStates, Logging, Idle

LEMMA NextCallsTyped ==
  ASSUME RowsTyped, LinksTyped, CallsTyped, [Next]_vars
  PROVE  CallsTyped'
  <1> USE CatalogAssumption
  <1>0. ClientStates \subseteq ClientStates' /\ Logging \subseteq ClientStates'
    BY IdsGrow DEF ClientStates, Logging
  <1>a. Idle \in ClientStates'
    BY DEF ClientStates
  <1>1. ASSUME NEW r \in Runs, NEW m \in Manifests, CheckBlobs(r, m)
        PROVE  CallsTyped'
    <2>1. [at |-> "logging", manifest |-> m, missing |-> Blobs[m] \ blobs,
           attempt |-> 0] \in Logging
      BY DEF Logging
    <2>2. client' \in [Runs -> ClientStates']
      BY <1>0, <1>1, <2>1 DEF CallsTyped, CheckBlobs
    <2> QED
      BY <1>1, <2>2 DEF CallsTyped, CheckBlobs, Calls
  <1>2. ASSUME NEW r \in Runs, UploadBlob(r)
        PROVE  CallsTyped'
    <2>1. client[r] \in Logging
      BY <1>2, LoggingFields DEF UploadBlob
    <2>2. PICK d \in client[r].missing :
                 client' = [client EXCEPT ![r].missing = @ \ {d}]
      BY <1>2 DEF UploadBlob
    <2>3. [client[r] EXCEPT !.missing = @ \ {d}] \in Logging
      BY <2>1 DEF Logging
    <2>4. client' \in [Runs -> ClientStates']
      BY <1>0, <2>2, <2>3 DEF CallsTyped
    <2> QED
      BY <1>2, <2>4 DEF CallsTyped, UploadBlob, Calls
  <1>3. ASSUME NEW r \in Runs, ArtifactLogChecks(r)
        PROVE  CallsTyped'
    <2>1. client[r] \in Logging /\ client[r].attempt < MaxAttempts
      BY <1>3, LoggingFields DEF ArtifactLogChecks, Calling
    <2>2. [client[r] EXCEPT !.attempt = @ + 1] \in Logging
      BY <2>1 DEF Logging
    <2>3. client' \in [Runs -> ClientStates']
      BY <1>0, <1>3, <2>2 DEF CallsTyped, ArtifactLogChecks
    <2>4. [run |-> r, manifest |-> client[r].manifest, attempt |-> client[r].attempt,
           raced |-> garbage # {}] \in Calls
      BY <2>1 DEF Logging, Calls
    <2> QED
      BY <1>3, <2>3, <2>4 DEF CallsTyped, ArtifactLogChecks, Calls
  <1>4. ASSUME NEW r \in Runs, ArtifactLogFails(r)
        PROVE  CallsTyped'
    BY <1>0, <1>a, <1>4 DEF CallsTyped, ArtifactLogFails, Calls
  <1>5. ASSUME NEW r \in Runs, NEW a \in Aliases, ResolveArtifact(r, a)
        PROVE  CallsTyped'
    <2>1. alias[a] \in Ids /\ Ids' = Ids
      BY <1>5 DEF ResolveArtifact, LinksTyped, catalog, Ids
    <2>2. [at |-> "using", id |-> alias[a]] \in ClientStates'
      BY <2>1 DEF ClientStates
    <2>3. client' \in [Runs -> ClientStates']
      BY <1>0, <1>5, <2>2 DEF CallsTyped, ResolveArtifact
    <2> QED
      BY <1>5, <2>3 DEF CallsTyped, ResolveArtifact, Calls
  <1>6. ASSUME NEW r \in Runs, LogArtifactUse(r)
        PROVE  CallsTyped'
    BY <1>0, <1>a, <1>6 DEF CallsTyped, LogArtifactUse, Calls
  <1>7. ASSUME NEW h \in handlers, CommitArtifactVersion(h)
        PROVE  CallsTyped'
    BY <1>0, <1>a, <1>7 DEF CallsTyped, CommitArtifactVersion, Calls
  <1>8. CASE ApplyPurge
    <2>1. handlers' \subseteq handlers \cup {[h EXCEPT !.raced = TRUE] : h \in handlers}
      BY <1>8 DEF ApplyPurge
    <2>2. \A h \in handlers : [h EXCEPT !.raced = TRUE] \in Calls
      BY DEF CallsTyped, Calls
    <2>3. handlers' \subseteq Calls
      BY <2>1, <2>2 DEF CallsTyped
    <2> QED
      BY <1>0, <1>8, <2>3 DEF CallsTyped, ApplyPurge, Calls
  <1>9. CASE UNCHANGED <<client, handlers>> /\ (PurgeStep \/ \E r \in Runs : DeleteRun(r))
    <2>1. count' \in [log : Nat, use : Nat, delete : Nat, purge : Nat, crash : Nat]
      <3>1. CASE \E R \in SUBSET Runs : PreviewPurge(R)
        BY <3>1 DEF PreviewPurge, CallsTyped
      <3>2. CASE \E r \in Runs : DeleteRun(r)
        BY <3>2 DEF DeleteRun, CallsTyped
      <3>3. CASE UNCHANGED count
        BY <3>3 DEF CallsTyped
      <3> QED
        BY <1>9, <3>1, <3>2, <3>3 DEF PurgeStep, RecheckPurge, ApplyPurge, RollBackPurge,
           DeleteBlob, PurgeDone
    <2> QED
      BY <1>0, <1>9, <2>1 DEF CallsTyped, Calls
  <1>10. CASE Crash
    BY <1>0, <1>10 DEF CallsTyped, Crash, Calls
  <1>11. CASE UNCHANGED vars
    BY <1>0, <1>11 DEF CallsTyped, vars, Calls
  <1>12. PurgeStep => ApplyPurge \/ UNCHANGED <<client, handlers>>
    BY DEF PurgeStep, PreviewPurge, RecheckPurge, RollBackPurge, DeleteBlob, PurgeDone
  <1>13. ASSUME NEW r \in Runs, DeleteRun(r)
         PROVE  UNCHANGED <<client, handlers>>
    BY <1>13 DEF DeleteRun
  <1> QED
    BY <1>1, <1>2, <1>3, <1>4, <1>5, <1>6, <1>7, <1>8, <1>9, <1>10, <1>11, <1>12, <1>13
       DEF Next, RunStep

\* TypeOK: rows refer to rows that were inserted, version numbers and contents
\* are unique among the rows that exist, and the state has its types.
THEOREM CatalogTyped == Spec => []TypeOK
  <1>1. Init => TypeOK
    BY InitTyped
  <1>2. TypeOK /\ [Next]_vars => TypeOK'
    BY NextRowsTyped, NextLinksTyped, NextStoreTyped, NextCallsTyped DEF TypeOK
  <1> QED
    BY <1>1, <1>2, PTL DEF Spec

------------------------------------------------------------------------------
LEMMA NextPointersResolve ==
  ASSUME TypeOK, PointersResolve, [Next]_vars
  PROVE  PointersResolve'
  <1> USE DEF TypeOK
  <1>1. CASE \E h \in handlers : CommitArtifactVersion(h)
    <2> PICK h \in handlers : CommitArtifactVersion(h)
      BY <1>1
    <2>1. PICK i \in live' : /\ live' = live \cup {i}
                             /\ links' = links \cup {<<h.run, i, "output">>}
                             /\ \A a \in Aliases : alias'[a] \in {alias[a], i}
      BY CommitRow
    <2>2. \A r \in Runs, j \in Ids' : <<r, j, "output">> \in links' => j \in live'
      <3> SUFFICES ASSUME NEW r \in Runs, NEW j \in Ids', <<r, j, "output">> \in links
                   PROVE  j \in live
        BY <2>1
      <3> QED
        BY DEF PointersResolve, LinksTyped
    <2>3. \A a \in Aliases : alias'[a] \in live' \cup {0}
      BY <2>1 DEF PointersResolve
    <2> QED
      BY <2>2, <2>3 DEF PointersResolve
  <1>2. CASE ApplyPurge
    <2>1. live' = live \ Doomed /\ alias' = AliasesWithout(Doomed) /\ Ids' = Ids
      BY <1>2 DEF ApplyPurge, Ids
    <2>2. \A l \in links' : l \in links /\ l[2] \notin Doomed
      BY <1>2 DEF ApplyPurge, Purgeable, LinksWithout
    <2> HIDE DEF Doomed
    <2>3. \A r \in Runs, j \in Ids' : <<r, j, "output">> \in links' => j \in live'
      BY <2>1, <2>2 DEF PointersResolve
    <2>4. \A a \in Aliases : alias'[a] \in live' \cup {0}
      BY <2>1 DEF PointersResolve, AliasesWithout
    <2> QED
      BY <2>3, <2>4 DEF PointersResolve
  <1>3. CASE \E r \in Runs : LogArtifactUse(r)
    BY <1>3 DEF LogArtifactUse, PointersResolve, Ids
  <1>4. CASE \E r \in Runs : DeleteRun(r)
    BY <1>4 DEF DeleteRun, LinksWithout, PointersResolve, Ids
  <1>5. CASE /\ ~(\E h \in handlers : CommitArtifactVersion(h))
             /\ ~ApplyPurge
             /\ ~(\E r \in Runs : LogArtifactUse(r) \/ DeleteRun(r))
    <2>1. UNCHANGED <<content, live, alias, links>>
      BY <1>5 DEF Next, vars, catalog, RunStep, PurgeStep, CheckBlobs, UploadBlob,
         ArtifactLogChecks, ArtifactLogFails, ResolveArtifact,
         PreviewPurge, RecheckPurge, RollBackPurge, DeleteBlob, PurgeDone, Crash
    <2> QED
      BY <2>1 DEF PointersResolve, Ids
  <1> QED
    BY <1>1, <1>2, <1>3, <1>4, <1>5

\* A call past the blob check, or a version, that no purge has raced still has
\* its blobs, and no purge is about to delete one of them.
CallsCovered ==
  \A h \in handlers : ~h.raced => garbage = {} /\ Blobs[h.manifest] \subseteq blobs

VersionsCovered ==
  \A i \in live \ exposed : Blobs[content[i]] \subseteq blobs \ garbage

GarbageOwned == purge.at # "deleting" => garbage = {}

BlobsInv == TypeOK /\ CallsCovered /\ VersionsCovered /\ GarbageOwned

LEMMA NextCallsCovered ==
  ASSUME BlobsInv, [Next]_vars
  PROVE  CallsCovered'
  <1> USE DEF BlobsInv
  <1>1. CASE ApplyPurge
    <2>1. purge.at # "deleting" /\ blobs' = blobs
      BY <1>1 DEF ApplyPurge
    <2>2. CASE garbage' = {}
      BY <1>1, <2>1, <2>2 DEF ApplyPurge, CallsCovered, GarbageOwned
    <2>3. CASE garbage' # {}
      <3>1. \A h \in handlers : [h EXCEPT !.raced = TRUE].raced
        BY DEF TypeOK, CallsTyped, Calls
      <3> QED
        BY <1>1, <2>3, <3>1 DEF ApplyPurge, CallsCovered
    <2> QED
      BY <2>2, <2>3
  <1>2. CASE \E r \in Runs : ArtifactLogChecks(r)
    <2> PICK r \in Runs : ArtifactLogChecks(r)
      BY <1>2
    <2> DEFINE new == [run |-> r, manifest |-> client[r].manifest,
                       attempt |-> client[r].attempt, raced |-> garbage # {}]
    <2>1. /\ handlers' = handlers \cup {new} /\ UNCHANGED <<blobs, garbage>>
          /\ Blobs[client[r].manifest] \subseteq blobs
      BY DEF ArtifactLogChecks
    <2>2. new.manifest = client[r].manifest /\ new.raced = (garbage # {})
      OBVIOUS
    <2> HIDE DEF new
    <2>3. ~new.raced => garbage = {}
      BY <2>2, Zenon
    <2> QED
      BY <2>1, <2>2, <2>3 DEF CallsCovered
  <1>3. CASE DeleteBlob
    BY <1>3 DEF DeleteBlob, CallsCovered
  <1>4. CASE Crash
    BY <1>4 DEF Crash, CallsCovered
  <1>5. CASE \E r \in Runs : UploadBlob(r)
    BY <1>5 DEF UploadBlob, CallsCovered
  <1>6. CASE /\ ~ApplyPurge /\ ~DeleteBlob /\ ~Crash
             /\ ~(\E r \in Runs : ArtifactLogChecks(r) \/ UploadBlob(r))
    <2>1. handlers' \subseteq handlers /\ UNCHANGED <<blobs, garbage>>
      BY <1>6 DEF Next, vars, RunStep, PurgeStep, CheckBlobs, LogArtifactUse, DeleteRun,
         ArtifactLogFails, ResolveArtifact, CommitArtifactVersion,
         PreviewPurge, RecheckPurge, RollBackPurge, PurgeDone
    <2> QED
      BY <2>1 DEF CallsCovered
  <1> QED
    BY <1>1, <1>2, <1>3, <1>4, <1>5, <1>6

LEMMA NextVersionsCovered ==
  ASSUME BlobsInv, [Next]_vars
  PROVE  VersionsCovered'
  <1> USE DEF BlobsInv
  <1>1. CASE \E h \in handlers : CommitArtifactVersion(h)
    <2> PICK h \in handlers : CommitArtifactVersion(h)
      BY <1>1
    <2>0. UNCHANGED <<blobs, garbage>>
      BY DEF CommitArtifactVersion
    <2>1. CASE CommitExisting(h)
      BY <2>0, <2>1 DEF CommitExisting, VersionsCovered
    <2>2. CASE CommitNew(h)
      <3> DEFINE i == Len(content) + 1
      <3>1. /\ content' = Append(content, h.manifest)
            /\ live' = live \cup {i}
            /\ exposed' = IF h.raced THEN exposed \cup {i} ELSE exposed
        BY <2>2 DEF CommitNew
      <3>2. h.manifest \in Manifests
        BY DEF TypeOK, CallsTyped, Calls
      <3>3. content'[i] = h.manifest /\ \A j \in live : content'[j] = content[j]
        BY <3>1, <3>2 DEF TypeOK, RowsTyped, Ids
      <3> HIDE DEF i
      <3>4. ~h.raced => Blobs[h.manifest] \subseteq blobs \ garbage
        BY DEF CallsCovered
      <3> QED
        BY <2>0, <3>1, <3>3, <3>4 DEF VersionsCovered
    <2> QED
      BY <2>1, <2>2 DEF CommitArtifactVersion
  <1>2. CASE ApplyPurge
    <2>1. /\ live' = live \ Doomed /\ UNCHANGED <<content, blobs, exposed>>
          /\ garbage' = DigestsOf(Doomed) \ DigestsOf(live \ Doomed)
      BY <1>2 DEF ApplyPurge, Unreferenced
    <2> HIDE DEF Doomed
    <2>2. \A j \in live' : Blobs[content[j]] \cap garbage' = {}
      BY <2>1 DEF DigestsOf
    <2> QED
      BY <2>1, <2>2 DEF VersionsCovered
  <1>3. CASE /\ ~(\E h \in handlers : CommitArtifactVersion(h)) /\ ~ApplyPurge
    <2>1. UNCHANGED <<content, live, exposed>>
      BY <1>3 DEF Next, vars, catalog, RunStep, PurgeStep, CheckBlobs, UploadBlob,
         ArtifactLogChecks, ArtifactLogFails, ResolveArtifact, LogArtifactUse, DeleteRun,
         PreviewPurge, RecheckPurge, RollBackPurge, DeleteBlob, PurgeDone, Crash
    <2>2. blobs \ garbage \subseteq blobs' \ garbage'
      BY <1>3 DEF Next, vars, RunStep, PurgeStep, CheckBlobs, UploadBlob,
         ArtifactLogChecks, ArtifactLogFails, ResolveArtifact, LogArtifactUse, DeleteRun,
         PreviewPurge, RecheckPurge, RollBackPurge, DeleteBlob, PurgeDone, Crash
    <2> QED
      BY <2>1, <2>2 DEF VersionsCovered
  <1> QED
    BY <1>1, <1>2, <1>3

LEMMA NextGarbageOwned ==
  ASSUME BlobsInv, [Next]_vars
  PROVE  GarbageOwned'
  <1>1. CASE DeleteBlob
    BY <1>1 DEF DeleteBlob, BlobsInv, GarbageOwned
  <1>2. CASE ApplyPurge
    BY <1>2 DEF ApplyPurge, GarbageOwned
  <1>3. CASE PurgeDone \/ Crash
    BY <1>3 DEF PurgeDone, Crash, GarbageOwned
  <1>4. CASE \E R \in SUBSET Runs : PreviewPurge(R)
    BY <1>4 DEF PreviewPurge, BlobsInv, GarbageOwned, NoPurge
  <1>5. CASE RecheckPurge \/ RollBackPurge
    BY <1>5 DEF RecheckPurge, RollBackPurge, BlobsInv, GarbageOwned
  <1>6. CASE UNCHANGED <<purge, garbage>>
    BY <1>6 DEF BlobsInv, GarbageOwned
  <1> QED
    BY <1>1, <1>2, <1>3, <1>4, <1>5, <1>6 DEF Next, vars, RunStep, PurgeStep,
       CheckBlobs, UploadBlob, ArtifactLogChecks, ArtifactLogFails, ResolveArtifact,
       LogArtifactUse, DeleteRun, CommitArtifactVersion

\* Every alias and output link resolves, for any number of runs, versions,
\* retries, deletions, purges and crashes.
THEOREM CatalogResolves == Spec => []PointersResolve
  <1>1. Init => PointersResolve
    BY DEF Init, PointersResolve
  <1>2. TypeOK /\ PointersResolve /\ [Next]_vars => PointersResolve'
    BY NextPointersResolve
  <1> QED
    BY <1>1, <1>2, CatalogTyped, PTL DEF Spec

\* A version whose check and commit no purge overlapped keeps its blobs.
THEOREM BlobsKept == Spec => []BlobsUnlessExposed
  <1>1. Init => BlobsInv
    <2>1. Init => TypeOK
      BY InitTyped
    <2>2. Init => CallsCovered /\ VersionsCovered /\ GarbageOwned
      BY DEF Init, CallsCovered, VersionsCovered, GarbageOwned
    <2> QED
      BY <2>1, <2>2 DEF BlobsInv
  <1>2. BlobsInv /\ [Next]_vars => BlobsInv'
    BY NextRowsTyped, NextLinksTyped, NextStoreTyped, NextCallsTyped,
       NextCallsCovered, NextVersionsCovered, NextGarbageOwned DEF BlobsInv, TypeOK
  <1>3. BlobsInv => BlobsUnlessExposed
    BY DEF BlobsInv, VersionsCovered, BlobsUnlessExposed
  <1> QED
    BY <1>1, <1>2, <1>3, PTL DEF Spec

\* A purge never takes a version from a run that stays: the check inside the
\* transaction is enough, whatever happened since the preview.
THEOREM ConsumersSpared == Spec => PurgeSparesConsumers
  <1> DEFINE Spares == \A i \in live \ live' : \A r \in Linked(i, "input") :
                                                  r \in purge.plan.runs
  <1>1. [Next]_vars => [Spares]_vars
    <2> SUFFICES ASSUME [Next]_vars PROVE Spares
      OBVIOUS
    <2>1. CASE ApplyPurge
      <3>1. live' = live \ Doomed
        BY <2>1 DEF ApplyPurge
      <3>2. \A l \in links : l[1] \in purge.plan.runs \/ l[2] \notin Doomed
        BY <2>1 DEF ApplyPurge, Purgeable, LinksWithout
      <3> HIDE DEF Doomed
      <3> QED
        BY <3>1, <3>2 DEF Linked
    <2>2. CASE ~ApplyPurge
      <3>1. live \subseteq live'
        BY <2>2 DEF Next, vars, catalog, RunStep, PurgeStep, CheckBlobs, UploadBlob,
           ArtifactLogChecks, ArtifactLogFails, ResolveArtifact, LogArtifactUse, DeleteRun,
           CommitArtifactVersion, CommitExisting, CommitNew,
           PreviewPurge, RecheckPurge, RollBackPurge, DeleteBlob, PurgeDone, Crash
      <3> QED
        BY <3>1
    <2> QED
      BY <2>1, <2>2
  <1> QED
    BY <1>1, PTL DEF Spec, PurgeSparesConsumers

\* No alias moves from a version to an older one.
THEOREM AliasesForward == Spec => AliasesMoveForward
  <1> DEFINE Forward == \A a \in Aliases : alias[a] # 0 /\ alias'[a] # 0
                          => number[alias[a]] <= number'[alias'[a]]
  <1>1. TypeOK /\ PointersResolve /\ [Next]_vars => [Forward]_vars
    <2> SUFFICES ASSUME TypeOK, PointersResolve, [Next]_vars PROVE Forward
      OBVIOUS
    <2> USE DEF TypeOK
    <2>0. \A i \in Ids : number[i] \in Nat /\ number[i] <= number[i]
      BY DEF RowsTyped, Ids
    <2>1. CASE \E h \in handlers : CommitArtifactVersion(h)
      <3> PICK h \in handlers : CommitArtifactVersion(h)
        BY <2>1
      <3>1. CASE CommitExisting(h)
        <4> PICK i \in SameContent(h.manifest) :
                   alias' = AliasesAfter(h.manifest, i, number[i], FALSE)
          BY <3>1 DEF CommitExisting
        <4>1. number' = number /\ i \in Ids
          BY <3>1 DEF CommitExisting, SameContent, RowsTyped
        <4>2. ASSUME NEW a \in Aliases, alias[a] # 0
              PROVE  number[alias[a]] <= number[alias'[a]]
          <5>1. alias[a] \in Ids
            BY <4>2 DEF LinksTyped
          <5>2. alias'[a] = alias[a] \/ (alias'[a] = i /\ number[alias[a]] <= number[i])
            BY <4>2 DEF AliasesAfter, Moves
          <5> QED
            BY <2>0, <5>1, <5>2
        <4> QED
          BY <4>1, <4>2
      <3>2. CASE CommitNew(h)
        <4> DEFINE i == Len(content) + 1
        <4> PICK n \in NextNumbers :
                   /\ number' = Append(number, n)
                   /\ alias' = AliasesAfter(h.manifest, i, n, TRUE)
          BY <3>2 DEF CommitNew
        <4>1. n \in Nat /\ \A j \in live : number[j] < n
          BY NextNumbersExceed
        <4>2. number'[i] = n /\ \A j \in Ids : number'[j] = number[j]
          BY <4>1 DEF RowsTyped, Ids
        <4> HIDE DEF i
        <4>3. ASSUME NEW a \in Aliases, alias[a] # 0
              PROVE  number[alias[a]] <= number'[alias'[a]]
          <5>1. alias[a] \in Ids /\ alias[a] \in live
            BY <4>3 DEF LinksTyped, PointersResolve
          <5>2. alias'[a] \in {alias[a], i}
            BY DEF AliasesAfter
          <5>3. number[alias[a]] \in Nat /\ number[alias[a]] < n
            BY <2>0, <4>1, <5>1
          <5>4. number'[alias[a]] = number[alias[a]]
            BY <4>2, <5>1
          <5>5. number'[alias'[a]] \in {n, number[alias[a]]}
            BY <4>2, <5>2, <5>4
          <5> DEFINE x == number[alias[a]]
                     y == number'[alias'[a]]
          <5>6. x \in Nat /\ n \in Nat /\ x < n /\ (y = n \/ y = x)
            BY <4>1, <5>3, <5>5
          <5> HIDE DEF x, y
          <5>7. x <= y
            BY <5>6
          <5> QED
            BY <5>7 DEF x, y
        <4> QED
          BY <4>3
      <3> QED
        BY <3>1, <3>2 DEF CommitArtifactVersion
    <2>2. CASE ApplyPurge
      <3>1. number' = number /\ \A a \in Aliases : alias'[a] \in {0, alias[a]}
        BY <2>2 DEF ApplyPurge, AliasesWithout
      <3> QED
        BY <2>0, <3>1 DEF LinksTyped
    <2>3. CASE ~(\E h \in handlers : CommitArtifactVersion(h)) /\ ~ApplyPurge
      <3>1. UNCHANGED <<number, alias>>
        BY <2>3 DEF Next, vars, catalog, RunStep, PurgeStep, CheckBlobs, UploadBlob,
           ArtifactLogChecks, ArtifactLogFails, ResolveArtifact, LogArtifactUse, DeleteRun,
           PreviewPurge, RecheckPurge, RollBackPurge, DeleteBlob, PurgeDone, Crash
      <3> QED
        BY <2>0, <3>1 DEF LinksTyped
    <2> QED
      BY <2>1, <2>2, <2>3
  <1> QED
    BY <1>1, CatalogTyped, CatalogResolves, PTL DEF Spec, AliasesMoveForward
------------------------------------------------------------------------------
\* While every row ever inserted exists, latest is the one with the greatest
\* number.  The number alone does not say that latest is set.
LatestSet == live = Ids /\ live # {} => alias["latest"] \in live

LatestInv == TypeOK /\ LatestSet /\ LatestIsNewest

LEMMA NextLatest ==
  ASSUME LatestInv, [Next]_vars
  PROVE  LatestSet' /\ LatestIsNewest'
  <1> USE DEF LatestInv, TypeOK
  <1> DEFINE L == "latest"
  <1>0. L \in Aliases /\ live \subseteq Ids /\ \A i \in live : number[i] \in Nat
    BY DEF Aliases, RowsTyped, Ids
  <1>1. CASE \E h \in handlers : CommitArtifactVersion(h)
    <2> PICK h \in handlers : CommitArtifactVersion(h)
      BY <1>1
    <2>1. CASE CommitExisting(h)
      <3> PICK i \in SameContent(h.manifest) :
                 alias' = AliasesAfter(h.manifest, i, number[i], FALSE)
        BY <2>1 DEF CommitExisting
      <3>1. i \in live /\ number' = number /\ live' = live /\ Ids' = Ids
        BY <2>1 DEF CommitExisting, SameContent, Ids
      <3>2. CASE live = Ids
        <4>1. alias[L] \in live /\ \A j \in live : number[j] <= number[alias[L]]
          BY <3>1, <3>2 DEF LatestSet, LatestIsNewest
        <4>2. \/ alias'[L] = alias[L]
              \/ alias'[L] = i /\ (alias[L] = 0 \/ number[alias[L]] <= number[i])
          BY <1>0 DEF AliasesAfter, Moves
        <4>3. alias[L] # 0
          BY <1>0, <4>1 DEF Ids
        <4>4. alias'[L] \in live /\ \A j \in live : number[j] <= number[alias'[L]]
          <5>1. CASE alias'[L] = alias[L]
            BY <4>1, <5>1
          <5>2. CASE alias'[L] = i /\ number[alias[L]] <= number[i]
            <6> SUFFICES ASSUME NEW j \in live PROVE number[j] <= number[i]
              BY <3>1, <5>2
            <6> DEFINE x == number[j]
                       y == number[alias[L]]
                       z == number[i]
            <6>1. x \in Nat /\ y \in Nat /\ z \in Nat /\ x <= y /\ y <= z
              BY <1>0, <3>1, <4>1, <5>2
            <6> HIDE DEF x, y, z
            <6>2. x <= z
              BY <6>1
            <6> QED
              BY <6>2 DEF x, z
          <5> QED
            BY <4>2, <4>3, <5>1, <5>2
        <4> QED
          BY <3>1, <4>4 DEF LatestSet, LatestIsNewest
      <3>3. CASE live # Ids
        BY <3>1, <3>3 DEF LatestSet, LatestIsNewest
      <3> QED
        BY <3>2, <3>3
    <2>2. CASE CommitNew(h)
      <3> DEFINE i == Len(content) + 1
      <3> PICK n \in NextNumbers :
                 /\ number' = Append(number, n)
                 /\ live' = live \cup {i}
                 /\ alias' = AliasesAfter(h.manifest, i, n, TRUE)
        BY <2>2 DEF CommitNew
      <3>1. n \in Nat /\ \A j \in live : number[j] < n
        BY NextNumbersExceed
      <3>2. number'[i] = n /\ \A j \in live : number'[j] = number[j]
        BY <3>1 DEF RowsTyped, Ids
      <3> HIDE DEF i
      <3>3. alias'[L] = i
        BY <1>0 DEF AliasesAfter
      <3>4. \A j \in live' : number'[j] <= number'[alias'[L]]
        <4>1. \A j \in live : number[j] <= n
          <5> SUFFICES ASSUME NEW j \in live PROVE number[j] <= n
            OBVIOUS
          <5>1. number[j] \in Nat /\ number[j] < n
            BY <1>0, <3>1
          <5> DEFINE x == number[j]
          <5> HIDE DEF x
          <5>2. x \in Nat /\ x < n
            BY <5>1 DEF x
          <5>3. x <= n
            BY <3>1, <5>2
          <5> QED
            BY <5>3 DEF x
        <4>2. n <= n
          BY <3>1
        <4> QED
          BY <3>2, <3>3, <4>1, <4>2
      <3> QED
        BY <3>3, <3>4 DEF LatestSet, LatestIsNewest
    <2> QED
      BY <2>1, <2>2 DEF CommitArtifactVersion
  <1>2. CASE ApplyPurge
    <2>1. /\ live' = live \ Doomed /\ Ids' = Ids /\ number' = number
          /\ alias' = [a \in Aliases |-> IF alias[a] \in Doomed THEN 0 ELSE alias[a]]
      BY <1>2 DEF ApplyPurge, AliasesWithout, Ids
    <2> HIDE DEF Doomed
    <2>2. CASE live' = Ids'
      <3>1. live' = live /\ (alias[L] \in live => alias'[L] = alias[L])
        BY <1>0, <2>1, <2>2
      <3> QED
        BY <2>1, <3>1 DEF LatestSet, LatestIsNewest
    <2>3. CASE live' # Ids'
      BY <2>3 DEF LatestSet, LatestIsNewest
    <2> QED
      BY <2>2, <2>3
  <1>3. CASE ~(\E h \in handlers : CommitArtifactVersion(h)) /\ ~ApplyPurge
    <2>1. UNCHANGED <<content, number, live, alias>>
      BY <1>3 DEF Next, vars, catalog, RunStep, PurgeStep, CheckBlobs, UploadBlob,
         ArtifactLogChecks, ArtifactLogFails, ResolveArtifact, LogArtifactUse, DeleteRun,
         PreviewPurge, RecheckPurge, RollBackPurge, DeleteBlob, PurgeDone, Crash
    <2> QED
      BY <2>1 DEF LatestSet, LatestIsNewest, Ids
  <1> QED
    BY <1>1, <1>2, <1>3

\* Repeated, overtaken and mixed commits leave latest on the newest version until
\* the first purge of a version.
THEOREM LatestNewest == Spec => []LatestIsNewest
  <1>1. Init => LatestInv
    <2>1. Init => LatestSet /\ LatestIsNewest
      BY DEF Init, LatestSet, LatestIsNewest
    <2> QED
      BY <2>1, InitTyped DEF LatestInv
  <1>2. LatestInv /\ [Next]_vars => LatestInv'
    BY NextLatest, NextRowsTyped, NextLinksTyped, NextStoreTyped, NextCallsTyped
       DEF LatestInv, TypeOK
  <1>3. LatestInv => LatestIsNewest
    BY DEF LatestInv
  <1> QED
    BY <1>1, <1>2, <1>3, PTL DEF Spec
------------------------------------------------------------------------------
(***************************************************************************)
(* The tables of runs: an operation that nothing cut and no insert met     *)
(* went through every table (WholeRuns), and a run that nothing lists was  *)
(* met.                                                                    *)
(***************************************************************************)
Statements == Evidence \X SUBSET RunIds

Lefts == Seq(Statements) \ {<< >>}

WriteTasks == [op : {"write"}, runs : SUBSET RunIds, name : RunNames, left : Lefts,
               alone : BOOLEAN]
DeleteTasks == [op : {"delete"}, runs : SUBSET RunIds, checked : BOOLEAN, left : Lefts,
                alone : BOOLEAN]
RenameTasks == [op : {"rename"}, runs : SUBSET RunIds, name : RunNames, checked : BOOLEAN,
                left : Lefts, alone : BOOLEAN]
WholeTasks == [op : {"purge", "project"}, runs : SUBSET RunIds, left : Lefts, alone : BOOLEAN]

Tasks == WriteTasks \cup DeleteTasks \cup RenameTasks \cup WholeTasks

Erasing == {"delete", "purge", "project"}

\* A statement to come in t is about r in the table.
Ahead(t, table, r) ==
    \E i \in 1 .. Len(t.left) : t.left[i][1] = table /\ r \in t.left[i][2]

\* The rows of one run; the tables R, and the runs M that were met, are arguments
\* of what follows, so that it can be said of two states.
RowsOf(R, table, r) == {e \in R[table] : e[1] = r}

\* A task's statements are about its runs, two of them about the same or about others.
SubjectsFit(t) ==
    /\ \A i \in 1 .. Len(t.left) : t.left[i][2] \subseteq t.runs
    /\ t.op # "purge" => \A i \in 1 .. Len(t.left) : t.left[i][2] = t.runs
    /\ \A i, j \in 1 .. Len(t.left) :
          t.left[i][2] = t.left[j][2] \/ t.left[i][2] \cap t.left[j][2] = {}

\* A write goes to the metrics before the traces and the configs.
MetricsFirst(t, R, M) ==
    t.op = "write" =>
       \A r \in t.runs, i \in 1 .. Len(t.left) :
          t.left[i][1] \in {"traces", "configs"} =>
             \/ \E j \in 1 .. i - 1 : t.left[j][1] = "metrics"
             \/ RowsOf(R, "metrics", r) # {}
             \/ r \in M

\* What a deletion that nothing met has gone past is empty.
ErasedBehind(t, R, M) ==
    t.op \in Erasing =>
       \A r \in t.runs, table \in Evidence :
          t.alone \/ r \notin M => RowsOf(R, table, r) = {} \/ Ahead(t, table, r)

\* What a renaming that nothing met has gone past carries the name.
RenamedBehind(t, R) ==
    t.op = "rename" /\ t.alone =>
       \A r \in t.runs, table \in Evidence :
          RowsOf(R, table, r) \subseteq {<<r, t.name>>} \/ Ahead(t, table, r)

TaskFits(t, R, M) == /\ SubjectsFit(t) /\ MetricsFirst(t, R, M)
                     /\ ErasedBehind(t, R, M) /\ RenamedBehind(t, R)

\* A run with rows that nothing lists.
Hidden(R, r) == /\ RowsOf(R, "configs", r) # {} \/ RowsOf(R, "traces", r) # {}
                /\ RowsOf(R, "metrics", r) = {} /\ RowsOf(R, "run_artifact_links", r) = {}

\* Such a run is being deleted, or was met.
HiddenHeld ==
    \A r \in RunIds : Hidden(rows, r) =>
       \/ r \in mangled
       \/ \E w \in Workers : task[w].op \in Erasing /\ r \in task[w].runs

RunsTyped ==
    /\ rows \in [Evidence -> SUBSET (RunIds \X RunNames)]
    /\ task \in [Workers -> Tasks \cup {Free}]
    /\ \A e, f \in rows["configs"] : e[1] = f[1] => e = f
    /\ mangled \subseteq RunIds
    /\ runCuts \in Nat

RunsInv == /\ RunsTyped
           /\ \A w \in Workers : task[w] # Free => TaskFits(task[w], rows, mangled)
           /\ HiddenHeld

-----------------------------------------------------------------------------
LEMMA TaskIsNotFree == \A t \in Tasks : t # Free /\ t.op # "none"
BY DEF Tasks, WriteTasks, DeleteTasks, RenameTasks, WholeTasks, Free

LEMMA TaskFields ==
  ASSUME NEW t \in Tasks
  PROVE  /\ t.runs \subseteq RunIds /\ t.alone \in BOOLEAN /\ t.left \in Lefts
         /\ t.op \in {"write", "rename"} => t.name \in RunNames
         /\ t.op \in {"delete", "rename"} => t.checked \in BOOLEAN
         /\ t.op \in {"write", "delete", "rename", "purge", "project"}
BY DEF Tasks, WriteTasks, DeleteTasks, RenameTasks, WholeTasks

LEMMA LeftFields ==
  ASSUME NEW left \in Lefts
  PROVE  /\ Len(left) \in Nat /\ Len(left) >= 1
         /\ Head(left) = left[1]
         /\ \A i \in 1 .. Len(left) : left[i] \in Statements /\ left[i][1] \in Evidence
                                      /\ left[i][2] \subseteq RunIds
<1>1. left \in Seq(Statements) /\ left # << >>
  BY DEF Lefts
<1>2. Len(left) \in Nat /\ Len(left) >= 1
  BY <1>1, EmptySeq, LenProperties
<1>3. \A i \in 1 .. Len(left) : left[i] \in Statements
  BY <1>1, ElementOfSeq
<1> QED
  BY <1>1, <1>2, <1>3 DEF Statements

LEMMA LeftTail ==
  ASSUME NEW left \in Lefts, Len(left) # 1
  PROVE  /\ Tail(left) \in Lefts
         /\ Len(Tail(left)) = Len(left) - 1
         /\ \A i \in 1 .. Len(Tail(left)) : Tail(left)[i] = left[i + 1]
<1>1. left \in Seq(Statements) /\ left # << >>
  BY DEF Lefts
<1>2. Tail(left) \in Seq(Statements) /\ Len(Tail(left)) = Len(left) - 1
      /\ \A i \in 1 .. Len(Tail(left)) : Tail(left)[i] = left[i + 1]
  BY <1>1, HeadTailProperties
<1>3. Len(Tail(left)) # 0
  BY <1>2, LeftFields
<1>4. Tail(left) # << >>
  BY <1>3, EmptySeq
<1> QED
  BY <1>2, <1>4 DEF Lefts

\* What changes in a task when a statement is executed, and when another meets it.
LEMMA ShorterTask ==
  ASSUME NEW t \in Tasks, NEW left \in Lefts
  PROVE  LET u == [t EXCEPT !.left = left]
         IN /\ u \in Tasks /\ u.left = left /\ u.op = t.op /\ u.runs = t.runs /\ u.alone = t.alone
            /\ t.op \in {"write", "rename"} => u.name = t.name
BY DEF Tasks, WriteTasks, DeleteTasks, RenameTasks, WholeTasks

LEMMA SharedTask ==
  ASSUME NEW t \in Tasks
  PROVE  LET u == [t EXCEPT !.alone = FALSE]
         IN /\ u \in Tasks /\ u.left = t.left /\ u.op = t.op /\ u.runs = t.runs /\ u.alone = FALSE
            /\ t.op \in {"write", "rename"} => u.name = t.name
BY DEF Tasks, WriteTasks, DeleteTasks, RenameTasks, WholeTasks

LEMMA CheckedTask ==
  ASSUME NEW t \in Tasks, t.op \in {"delete", "rename"}
  PROVE  LET u == [t EXCEPT !.checked = TRUE]
         IN /\ u \in Tasks /\ u.left = t.left /\ u.op = t.op /\ u.runs = t.runs /\ u.alone = t.alone
            /\ t.op = "rename" => u.name = t.name
BY DEF Tasks, WriteTasks, DeleteTasks, RenameTasks, WholeTasks

LEMMA OnTables ==
  ASSUME NEW tables \in Seq(Evidence), tables # << >>, NEW R \in SUBSET RunIds
  PROVE  /\ On(tables, R) \in Lefts
         /\ Len(On(tables, R)) = Len(tables)
         /\ \A i \in 1 .. Len(tables) : On(tables, R)[i] = <<tables[i], R>>
<1>1. DOMAIN tables = 1 .. Len(tables) /\ Len(tables) \in Nat /\ Len(tables) # 0
  BY EmptySeq, LenProperties
<1>2. \A i \in 1 .. Len(tables) : tables[i] \in Evidence
  BY ElementOfSeq
<1>3. On(tables, R) \in [1 .. Len(tables) -> Statements]
  BY <1>1, <1>2 DEF On, Statements
<1>4. On(tables, R) \in Seq(Statements) /\ Len(On(tables, R)) = Len(tables)
  BY <1>1, <1>3
<1>5. On(tables, R) # << >>
  BY <1>1, <1>4, EmptySeq
<1> QED
  BY <1>1, <1>4, <1>5 DEF On, Lefts

Covers(tables) == /\ tables \in Seq(Evidence) /\ tables # << >>
                  /\ \A table \in Evidence : \E i \in 1 .. Len(tables) : tables[i] = table

LEMMA StatementsCover == Covers(StatementsOfDelete) /\ Covers(StatementsOfRename)
                         /\ Covers(StatementsOfPurge) /\ Covers(StatementsOfProject)
<1> DEFINE versions == <<"artifact_versions">>
<1>1. /\ RunTables \in Seq(Evidence) /\ Len(RunTables) = 6
      /\ RunTables[1] = "metrics" /\ RunTables[2] = "configs"
      /\ RunTables[3] = "system_metrics" /\ RunTables[4] = "traces"
      /\ RunTables[5] = "alerts" /\ RunTables[6] = "run_artifact_links"
  BY DEF RunTables, Evidence
<1>2. versions \in Seq(Evidence) /\ Len(versions) = 1 /\ versions[1] = "artifact_versions"
  BY DEF Evidence
<1> HIDE DEF versions
<1>3. Covers(versions \o RunTables)
  <2>1. /\ versions \o RunTables \in Seq(Evidence) /\ Len(versions \o RunTables) = Len(versions) + Len(RunTables)
        /\ \A i \in 1 .. Len(versions) + Len(RunTables) :
              (versions \o RunTables)[i] = IF i <= Len(versions) THEN versions[i]
                                           ELSE RunTables[i - Len(versions)]
    <3>1. versions \in Seq(Evidence) /\ RunTables \in Seq(Evidence)
      BY <1>1, <1>2
    <3> QED
      BY <3>1, ConcatProperties
  <2>2. ASSUME NEW i \in 1 .. 6
        PROVE  (versions \o RunTables)[i + 1] = RunTables[i]
    <3>1. i + 1 \in 1 .. Len(versions) + Len(RunTables) /\ ~(i + 1 <= Len(versions))
          /\ (i + 1) - Len(versions) = i
      BY <1>1, <1>2
    <3> QED
      BY <2>1, <3>1
  <2>3. (versions \o RunTables)[1] = versions[1]
    BY <1>1, <1>2, <2>1
  <2>4. /\ Len(versions \o RunTables) = 7
        /\ (versions \o RunTables)[1 + 1] = "metrics" /\ (versions \o RunTables)[2 + 1] = "configs"
        /\ (versions \o RunTables)[3 + 1] = "system_metrics"
        /\ (versions \o RunTables)[4 + 1] = "traces" /\ (versions \o RunTables)[5 + 1] = "alerts"
        /\ (versions \o RunTables)[6 + 1] = "run_artifact_links"
    BY <1>1, <1>2, <2>1, <2>2
  <2> QED
    BY <1>2, <2>1, <2>3, <2>4, EmptySeq DEF Covers, Evidence
<1>4. Covers(RunTables \o versions)
  <2>1. /\ RunTables \o versions \in Seq(Evidence) /\ Len(RunTables \o versions) = Len(RunTables) + Len(versions)
        /\ \A i \in 1 .. Len(RunTables) + Len(versions) :
              (RunTables \o versions)[i] = IF i <= Len(RunTables) THEN RunTables[i]
                                           ELSE versions[i - Len(RunTables)]
    <3>1. RunTables \in Seq(Evidence) /\ versions \in Seq(Evidence)
      BY <1>1, <1>2
    <3> QED
      BY <3>1, ConcatProperties
  <2>2. (RunTables \o versions)[7] = versions[1]
    <3>1. 7 \in 1 .. Len(RunTables) + Len(versions) /\ ~(7 <= Len(RunTables))
          /\ 7 - Len(RunTables) = 1
      BY <1>1, <1>2
    <3> QED
      BY <2>1, <3>1
  <2>3. \A i \in 1 .. 6 : (RunTables \o versions)[i] = RunTables[i]
    BY <1>1, <1>2, <2>1
  <2>4. Len(RunTables \o versions) = 7
    BY <1>1, <1>2, <2>1
  <2> QED
    BY <1>1, <1>2, <2>1, <2>2, <2>3, <2>4, EmptySeq DEF Covers, Evidence
<1>5. Covers(StatementsOfProject)
  <2>1. /\ StatementsOfProject \in Seq(Evidence) /\ Len(StatementsOfProject) = 7
        /\ StatementsOfProject[1] = "run_artifact_links"
        /\ StatementsOfProject[2] = "artifact_versions"
        /\ StatementsOfProject[3] = "traces" /\ StatementsOfProject[4] = "alerts"
        /\ StatementsOfProject[5] = "system_metrics" /\ StatementsOfProject[6] = "metrics"
        /\ StatementsOfProject[7] = "configs"
    BY DEF StatementsOfProject, Evidence
  <2> QED
    BY <2>1, EmptySeq DEF Covers, Evidence
<1> QED
  BY <1>3, <1>4, <1>5 DEF versions, StatementsOfDelete, StatementsOfRename, StatementsOfPurge

LEMMA WritesInOrder ==
  ASSUME NEW tables \in Writes
  PROVE  /\ tables \in Seq(Evidence) /\ tables # << >>
         /\ \A i \in 1 .. Len(tables) : tables[i] \in {"traces", "configs"} =>
               \E j \in 1 .. i - 1 : tables[j] = "metrics"
<1>1. ASSUME NEW a \in Evidence, tables = <<a>>, a \notin {"traces", "configs"}
      PROVE  tables \in Seq(Evidence) /\ Len(tables) = 1 /\ tables[1] = a
  BY <1>1
<1>2. ASSUME NEW a \in Evidence, NEW b \in Evidence, tables = <<a, b>>
      PROVE  tables \in Seq(Evidence) /\ Len(tables) = 2 /\ tables[1] = a /\ tables[2] = b
  BY <1>2
<1>3. CASE tables \in {<<"metrics">>, <<"system_metrics">>, <<"alerts">>, <<"run_artifact_links">>}
  BY <1>1, <1>3, EmptySeq DEF Evidence
<1>4. CASE tables = <<"metrics", "traces">>
  BY <1>2, <1>4, EmptySeq DEF Evidence
<1>5. CASE tables = <<"artifact_versions", "run_artifact_links">>
  BY <1>2, <1>5, EmptySeq DEF Evidence
<1>6. CASE tables = <<"metrics", "traces", "configs">>
  <2>1. tables \in Seq(Evidence) /\ Len(tables) = 3 /\ tables[1] = "metrics"
        /\ tables[2] = "traces" /\ tables[3] = "configs"
    BY <1>6 DEF Evidence
  <2>2. \A i \in 1 .. 3 : tables[i] \in {"traces", "configs"} => 1 \in 1 .. i - 1
    BY <2>1
  <2> QED
    BY <2>1, <2>2, EmptySeq
<1> QED
  BY <1>3, <1>4, <1>5, <1>6 DEF Writes

-----------------------------------------------------------------------------
LEMMA RowsAre == \A table, r : Of(table, {r}) = RowsOf(rows, table, r)
BY DEF Of, RowsOf

\* A task another worker's statement has passed by.
LEMMA OtherKeeps ==
  ASSUME NEW t \in Tasks, NEW u \in Tasks, NEW R, NEW S, NEW M, NEW N, TaskFits(t, R, M),
         u.op = t.op, u.runs = t.runs, u.left = t.left, u.op = "rename" => u.name = t.name,
         u.alone => t.alone, M \subseteq N,
         \A r \in t.runs :
            \/ \A table \in Evidence : RowsOf(S, table, r) = RowsOf(R, table, r)
            \/ /\ r \in N
               /\ u.alone /\ t.op \in Erasing => 
                     \A table \in Evidence : RowsOf(R, table, r) = {} => RowsOf(S, table, r) = {}
               /\ u.alone /\ t.op = "rename" => 
                     \A table \in Evidence : RowsOf(S, table, r) \subseteq RowsOf(R, table, r)
  PROVE  TaskFits(u, S, N)
<1>1. SubjectsFit(u)
  BY DEF TaskFits, SubjectsFit
<1>2. MetricsFirst(u, S, N)
  <2> SUFFICES ASSUME u.op = "write", NEW r \in u.runs, NEW i \in 1 .. Len(u.left),
                      u.left[i][1] \in {"traces", "configs"}
               PROVE  \/ \E j \in 1 .. i - 1 : u.left[j][1] = "metrics"
                      \/ RowsOf(S, "metrics", r) # {}
                      \/ r \in N
    BY DEF MetricsFirst
  <2>1. \/ \E j \in 1 .. i - 1 : t.left[j][1] = "metrics"
        \/ RowsOf(R, "metrics", r) # {}
        \/ r \in M
    BY DEF TaskFits, MetricsFirst
  <2> QED
    BY <2>1 DEF Evidence
<1>3. \A table, r : Ahead(u, table, r) <=> Ahead(t, table, r)
  BY DEF Ahead
<1>4. ErasedBehind(u, S, N)
  <2> SUFFICES ASSUME u.op \in Erasing, NEW r \in u.runs, NEW table \in Evidence,
                      u.alone \/ r \notin N
               PROVE  RowsOf(S, table, r) = {} \/ Ahead(u, table, r)
    BY DEF ErasedBehind
  <2>1. RowsOf(R, table, r) = {} \/ Ahead(t, table, r)
    BY DEF TaskFits, ErasedBehind
  <2> QED
    BY <2>1, <1>3
<1>5. RenamedBehind(u, S)
  <2> SUFFICES ASSUME u.op = "rename", u.alone, NEW r \in u.runs, NEW table \in Evidence
               PROVE  RowsOf(S, table, r) \subseteq {<<r, u.name>>} \/ Ahead(u, table, r)
    BY DEF RenamedBehind
  <2>1. RowsOf(R, table, r) \subseteq {<<r, t.name>>} \/ Ahead(t, table, r)
    BY DEF TaskFits, RenamedBehind
  <2> QED
    BY <2>1, <1>3
<1> QED
  BY <1>1, <1>2, <1>4, <1>5 DEF TaskFits

LEMMA AheadMoves ==
  ASSUME NEW t \in Tasks, NEW u \in Tasks, Len(t.left) # 1, u.left = Tail(t.left),
         NEW table, NEW r, Ahead(t, table, r)
  PROVE  Ahead(u, table, r) \/ (t.left[1][1] = table /\ r \in t.left[1][2])
<1>1. PICK i \in 1 .. Len(t.left) : t.left[i][1] = table /\ r \in t.left[i][2]
  BY DEF Ahead
<1>2. CASE i = 1
  BY <1>1, <1>2
<1>3. CASE i # 1
  <2>1. /\ Len(t.left) \in Nat /\ Len(u.left) = Len(t.left) - 1
        /\ \A k \in 1 .. Len(u.left) : u.left[k] = t.left[k + 1]
    BY TaskFields, LeftTail, LeftFields
  <2>2. i - 1 \in 1 .. Len(u.left) /\ (i - 1) + 1 = i
    BY <1>3, <2>1
  <2>3. u.left[i - 1] = t.left[i]
    BY <2>1, <2>2
  <2> QED
    BY <1>1, <2>2, <2>3 DEF Ahead
<1> QED
  BY <1>2, <1>3

LEMMA SubjectsMove ==
  ASSUME NEW t \in Tasks, NEW u \in Tasks, Len(t.left) # 1, u.left = Tail(t.left),
         u.op = t.op, u.runs = t.runs, SubjectsFit(t)
  PROVE  SubjectsFit(u)
<1>1. /\ Len(t.left) \in Nat /\ Len(u.left) = Len(t.left) - 1
      /\ \A k \in 1 .. Len(u.left) : u.left[k] = t.left[k + 1]
  BY TaskFields, LeftTail, LeftFields
<1>2. \A k \in 1 .. Len(u.left) : k + 1 \in 1 .. Len(t.left)
  BY <1>1
<1> QED
  BY <1>1, <1>2 DEF SubjectsFit

\* A task whose own statement has been executed.
LEMMA WriteMoves ==
  ASSUME NEW t \in Tasks, NEW u \in Tasks, NEW R, NEW S, NEW M, NEW N, TaskFits(t, R, M),
         Len(t.left) # 1, u.left = Tail(t.left), u.op = t.op, u.runs = t.runs,
         t.op = "write", M \subseteq N,
         \A r \in t.runs : /\ RowsOf(S, t.left[1][1], r) # {}
                           /\ RowsOf(R, "metrics", r) # {} => RowsOf(S, "metrics", r) # {}
  PROVE  TaskFits(u, S, N)
<1>1. SubjectsFit(u)
  BY SubjectsMove DEF TaskFits
<1>2. MetricsFirst(u, S, N)
  <2> SUFFICES ASSUME NEW r \in u.runs, NEW i \in 1 .. Len(u.left),
                      u.left[i][1] \in {"traces", "configs"}
               PROVE  \/ \E j \in 1 .. i - 1 : u.left[j][1] = "metrics"
                      \/ RowsOf(S, "metrics", r) # {}
                      \/ r \in N
    BY DEF MetricsFirst
  <2>1. /\ Len(t.left) \in Nat /\ Len(u.left) = Len(t.left) - 1
        /\ \A k \in 1 .. Len(u.left) : u.left[k] = t.left[k + 1]
    BY TaskFields, LeftTail, LeftFields
  <2>2. i + 1 \in 1 .. Len(t.left) /\ u.left[i] = t.left[i + 1]
    BY <2>1
  <2>3. \/ \E j \in 1 .. (i + 1) - 1 : t.left[j][1] = "metrics"
        \/ RowsOf(R, "metrics", r) # {}
        \/ r \in M
    BY <2>2 DEF TaskFits, MetricsFirst
  <2>4. ASSUME NEW j \in 1 .. (i + 1) - 1, t.left[j][1] = "metrics", j # 1
        PROVE  \E k \in 1 .. i - 1 : u.left[k][1] = "metrics"
    <3>1. j - 1 \in 1 .. i - 1 /\ j - 1 \in 1 .. Len(u.left) /\ (j - 1) + 1 = j
      BY <2>1, <2>4
    <3>2. u.left[j - 1] = t.left[j]
      BY <2>1, <3>1
    <3> QED
      BY <2>4, <3>1, <3>2
  <2> QED
    BY <2>3, <2>4
<1> QED
  BY <1>1, <1>2 DEF TaskFits, ErasedBehind, RenamedBehind, Erasing

LEMMA RenameMoves ==
  ASSUME NEW t \in Tasks, NEW u \in Tasks, NEW R, NEW S, NEW M, NEW N, TaskFits(t, R, M),
         Len(t.left) # 1, u.left = Tail(t.left), u.op = t.op, u.runs = t.runs,
         u.alone = t.alone, u.name = t.name, t.op = "rename",
         \A r \in t.left[1][2] : RowsOf(S, t.left[1][1], r) \subseteq {<<r, t.name>>},
         \A r \in t.runs, table \in Evidence :
            RowsOf(R, table, r) \subseteq {<<r, t.name>>} => RowsOf(S, table, r) \subseteq {<<r, t.name>>}
  PROVE  TaskFits(u, S, N)
<1>1. SubjectsFit(u)
  BY SubjectsMove DEF TaskFits
<1>2. RenamedBehind(u, S)
  <2> SUFFICES ASSUME u.alone, NEW r \in u.runs, NEW table \in Evidence
               PROVE  RowsOf(S, table, r) \subseteq {<<r, u.name>>} \/ Ahead(u, table, r)
    BY DEF RenamedBehind
  <2>1. RowsOf(R, table, r) \subseteq {<<r, t.name>>} \/ Ahead(t, table, r)
    BY DEF TaskFits, RenamedBehind
  <2> QED
    BY <2>1, AheadMoves
<1> QED
  BY <1>1, <1>2 DEF TaskFits, ErasedBehind, MetricsFirst, Erasing

LEMMA EraseMoves ==
  ASSUME NEW t \in Tasks, NEW u \in Tasks, NEW R, NEW S, NEW M, NEW N, TaskFits(t, R, M),
         Len(t.left) # 1, u.left = Tail(t.left), u.op = t.op, u.runs = t.runs,
         u.alone = t.alone, t.op \in Erasing, M \subseteq N,
         \A r \in t.left[1][2] : RowsOf(S, t.left[1][1], r) = {},
         \A r \in t.runs, table \in Evidence : RowsOf(R, table, r) = {} => RowsOf(S, table, r) = {}
  PROVE  TaskFits(u, S, N)
<1>1. SubjectsFit(u)
  BY SubjectsMove DEF TaskFits
<1>2. ErasedBehind(u, S, N)
  <2> SUFFICES ASSUME NEW r \in u.runs, NEW table \in Evidence, u.alone \/ r \notin N
               PROVE  RowsOf(S, table, r) = {} \/ Ahead(u, table, r)
    BY DEF ErasedBehind
  <2>1. RowsOf(R, table, r) = {} \/ Ahead(t, table, r)
    BY DEF TaskFits, ErasedBehind
  <2> QED
    BY <2>1, AheadMoves
<1> QED
  BY <1>1, <1>2 DEF TaskFits, RenamedBehind, MetricsFirst, Erasing

-----------------------------------------------------------------------------
\* An operation that begins has every table ahead of it.
LEMMA NewTaskFits ==
  ASSUME NEW t \in Tasks, NEW R, NEW M, NEW tables \in Seq(Evidence), tables # << >>,
         t.left = On(tables, t.runs), t.op # "write" => Covers(tables),
         t.op = "write" => tables \in Writes
  PROVE  TaskFits(t, R, M)
<1>1. /\ Len(t.left) = Len(tables)
      /\ \A i \in 1 .. Len(tables) : t.left[i] = <<tables[i], t.runs>>
  BY OnTables, TaskFields
<1>2. SubjectsFit(t)
  BY <1>1 DEF SubjectsFit
<1>3. MetricsFirst(t, R, M)
  BY <1>1, WritesInOrder DEF MetricsFirst
<1>4. t.op # "write" => \A r \in t.runs, table \in Evidence : Ahead(t, table, r)
  BY <1>1 DEF Covers, Ahead
<1> QED
  BY <1>2, <1>3, <1>4 DEF TaskFits, ErasedBehind, RenamedBehind, Erasing

LEMMA TwoHalves ==
  ASSUME NEW t \in Tasks, NEW names, NEW n \in Nat, NEW r, NEW q, r # q, t.runs = {r, q},
         t.op = "purge", Len(t.left) = n + n,
         \A i \in 1 .. n : t.left[i] = <<names[i], {r}>>,
         \A i \in 1 .. n : t.left[i + n] = <<names[i], {q}>>,
         \A table \in Evidence : \E i \in 1 .. n : names[i] = table
  PROVE  SubjectsFit(t) /\ \A table \in Evidence : Ahead(t, table, r) /\ Ahead(t, table, q)
<1>1. \A i \in 1 .. Len(t.left) : t.left[i][2] = {r} \/ t.left[i][2] = {q}
  <2> SUFFICES ASSUME NEW i \in 1 .. Len(t.left) PROVE t.left[i][2] = {r} \/ t.left[i][2] = {q}
    OBVIOUS
  <2>1. CASE i <= n
    <3>1. i \in 1 .. n
      BY <2>1
    <3>2. t.left[i] = <<names[i], {r}>>
      BY <3>1
    <3> QED
      BY <3>2
  <2>2. CASE ~(i <= n)
    <3>1. i - n \in 1 .. n /\ (i - n) + n = i
      BY <2>2
    <3>2. t.left[i] = <<names[i - n], {q}>>
      BY <3>1
    <3> QED
      BY <3>2
  <2> QED
    BY <2>1, <2>2
<1>2. ASSUME NEW table \in Evidence
      PROVE  Ahead(t, table, r) /\ Ahead(t, table, q)
  <2>1. PICK i \in 1 .. n : names[i] = table
    OBVIOUS
  <2>2. i \in 1 .. Len(t.left) /\ i + n \in 1 .. Len(t.left)
    OBVIOUS
  <2>3. t.left[i] = <<names[i], {r}>> /\ t.left[i + n] = <<names[i], {q}>>
    OBVIOUS
  <2>4. /\ t.left[i][1] = table /\ r \in t.left[i][2]
        /\ t.left[i + n][1] = table /\ q \in t.left[i + n][2]
    BY <2>1, <2>3
  <2> QED
    BY <2>2, <2>4 DEF Ahead
<1>3. SubjectsFit(t)
  <2>1. {r} \subseteq t.runs /\ {q} \subseteq t.runs /\ {r} \cap {q} = {}
    OBVIOUS
  <2>2. \A i \in 1 .. Len(t.left) : t.left[i][2] \subseteq t.runs
    BY <1>1, <2>1
  <2>3. ASSUME NEW i \in 1 .. Len(t.left), NEW j \in 1 .. Len(t.left)
        PROVE  t.left[i][2] = t.left[j][2] \/ t.left[i][2] \cap t.left[j][2] = {}
    <3>1. /\ t.left[i][2] = {r} \/ t.left[i][2] = {q}
          /\ t.left[j][2] = {r} \/ t.left[j][2] = {q}
      BY <1>1
    <3> QED
      BY <2>1, <3>1
  <2> QED
    BY <2>2, <2>3 DEF SubjectsFit
<1> QED
  BY <1>2, <1>3

LEMMA NewPurgeFits ==
  ASSUME NEW t \in Tasks, NEW R, NEW M, NEW r \in RunIds, NEW q \in RunIds, t.op = "purge",
         t.runs = {r, q}, r # q,
         t.left = On(StatementsOfPurge, {r}) \o On(StatementsOfPurge, {q})
  PROVE  TaskFits(t, R, M)
<1> DEFINE a == On(StatementsOfPurge, {r})
           b == On(StatementsOfPurge, {q})
           n == Len(StatementsOfPurge)
<1>1. StatementsOfPurge \in Seq(Evidence) /\ StatementsOfPurge # << >> /\ n \in Nat
  BY StatementsCover, LenProperties DEF Covers
<1>2. a \in Seq(Statements) /\ Len(a) = n /\ \A i \in 1 .. n : a[i] = <<StatementsOfPurge[i], {r}>>
  BY <1>1, OnTables DEF Lefts
<1>3. b \in Seq(Statements) /\ Len(b) = n /\ \A i \in 1 .. n : b[i] = <<StatementsOfPurge[i], {q}>>
  BY <1>1, OnTables DEF Lefts
<1> HIDE DEF a, b, n
<1>4. /\ Len(t.left) = Len(a) + Len(b)
      /\ \A i \in 1 .. Len(a) + Len(b) : t.left[i] = IF i <= Len(a) THEN a[i] ELSE b[i - Len(a)]
  BY <1>2, <1>3, ConcatProperties DEF a, b
<1>5. ASSUME NEW i \in 1 .. n
      PROVE  t.left[i] = <<StatementsOfPurge[i], {r}>> /\ t.left[i + n] = <<StatementsOfPurge[i], {q}>>
  <2>1. i \in 1 .. Len(a) + Len(b) /\ i <= Len(a)
    BY <1>1, <1>2, <1>3
  <2>2. i + n \in 1 .. Len(a) + Len(b) /\ ~(i + n <= Len(a)) /\ (i + n) - Len(a) = i
    BY <1>1, <1>2, <1>3
  <2> QED
    BY <1>2, <1>3, <1>4, <2>1, <2>2
<1>6. \A table \in Evidence : \E i \in 1 .. n : StatementsOfPurge[i] = table
  BY StatementsCover DEF Covers, n
<1>7. Len(t.left) = n + n
  BY <1>1, <1>2, <1>3, <1>4
<1>8. SubjectsFit(t) /\ \A table \in Evidence : Ahead(t, table, r) /\ Ahead(t, table, q)
  <2> DEFINE names == StatementsOfPurge
  <2>1. \A i \in 1 .. n : t.left[i] = <<names[i], {r}>>
    BY <1>5
  <2>2. \A i \in 1 .. n : t.left[i + n] = <<names[i], {q}>>
    BY <1>5
  <2>3. \A table \in Evidence : \E i \in 1 .. n : names[i] = table
    BY <1>6
  <2>4. n \in Nat
    BY <1>1
  <2> HIDE DEF names
  <2> QED
    BY <1>7, <2>1, <2>2, <2>3, <2>4, TwoHalves
<1> QED
  BY <1>8 DEF TaskFits, ErasedBehind, RenamedBehind, MetricsFirst, Erasing

LEMMA RunsInvInit == DorisRunsInit => RunsInv
BY DEF DorisRunsInit, RunsInv, RunsTyped, HiddenHeld, Hidden, RowsOf, Evidence

LEMMA BeginKeeps ==
  ASSUME RunsInv, NEW w \in Workers, NEW t \in Tasks, Begin(w, t), TaskFits(t, rows, mangled)
  PROVE  RunsInv'
<1>1. /\ task[w] = Free /\ task' = [task EXCEPT ![w] = t]
      /\ rows' = rows /\ mangled' = mangled /\ runCuts' = runCuts
  BY DEF Begin
<1>2. RunsTyped'
  BY <1>1 DEF RunsInv, RunsTyped
<1>3. \A v \in Workers : task'[v] # Free => TaskFits(task'[v], rows', mangled')
  BY <1>1 DEF RunsInv, RunsTyped
<1>4. HiddenHeld'
  BY <1>1, TaskIsNotFree DEF RunsInv, RunsTyped, HiddenHeld, Free, Erasing
<1> QED
  BY <1>2, <1>3, <1>4 DEF RunsInv

LEMMA BeginsKeep ==
  ASSUME RunsInv, NEW w \in Workers,
         \/ \E r \in RunIds, n \in RunNames : BeginWrite(w, r, n)
         \/ BeginDelete(w)
         \/ \E n \in RunNames : BeginRename(w, n)
         \/ BeginPurge(w)
         \/ BeginDeleteProject(w)
  PROVE  RunsInv'
<1> USE DEF Tasks, WriteTasks, DeleteTasks, RenameTasks, WholeTasks
<1>1. \A n : Resolved(n) \subseteq RunIds
  BY DEF Resolved
<1>2. /\ StatementsOfDelete \in Seq(Evidence) /\ StatementsOfDelete # << >>
      /\ StatementsOfRename \in Seq(Evidence) /\ StatementsOfRename # << >>
      /\ StatementsOfPurge \in Seq(Evidence) /\ StatementsOfPurge # << >>
      /\ StatementsOfProject \in Seq(Evidence) /\ StatementsOfProject # << >>
  BY StatementsCover DEF Covers
<1>3. ASSUME NEW r \in RunIds, NEW n \in RunNames, BeginWrite(w, r, n) PROVE RunsInv'
  <2>1. PICK tables \in Writes : Begin(w, [op |-> "write", runs |-> {r}, name |-> n,
                                           left |-> On(tables, {r}), alone |-> TRUE])
    BY <1>3 DEF BeginWrite
  <2>2. tables \in Seq(Evidence) /\ tables # << >> /\ On(tables, {r}) \in Lefts
    BY WritesInOrder, OnTables
  <2> QED
    BY <2>1, <2>2, NewTaskFits, BeginKeeps
<1>4. CASE BeginDelete(w)
  <2>1. PICK r \in RunIds : Begin(w, [op |-> "delete", runs |-> {r}, checked |-> FALSE,
                                      left |-> On(StatementsOfDelete, {r}), alone |-> TRUE])
    BY <1>1, <1>4 DEF BeginDelete
  <2>2. On(StatementsOfDelete, {r}) \in Lefts
    BY <1>2, OnTables
  <2> QED
    BY <1>2, <2>1, <2>2, StatementsCover, NewTaskFits, BeginKeeps
<1>5. ASSUME NEW n \in RunNames, BeginRename(w, n) PROVE RunsInv'
  <2>1. PICK r \in RunIds : Begin(w, [op |-> "rename", runs |-> {r}, name |-> n, checked |-> FALSE,
                                      left |-> On(StatementsOfRename, {r}), alone |-> TRUE])
    BY <1>1, <1>5 DEF BeginRename
  <2>2. On(StatementsOfRename, {r}) \in Lefts
    BY <1>2, OnTables
  <2> QED
    BY <1>2, <2>1, <2>2, StatementsCover, NewTaskFits, BeginKeeps
<1>6. CASE BeginPurge(w)
  <2>1. PICK r \in RunIds, q \in RunIds :
           Begin(w, [op |-> "purge", runs |-> {r, q}, alone |-> TRUE,
                     left |-> On(StatementsOfPurge, {r})
                              \o (IF r = q THEN << >> ELSE On(StatementsOfPurge, {q}))])
    BY <1>6 DEF BeginPurge
  <2>2. On(StatementsOfPurge, {r}) \in Lefts /\ On(StatementsOfPurge, {q}) \in Lefts
    BY <1>2, OnTables
  <2>3. On(StatementsOfPurge, {r}) \in Seq(Statements) /\ On(StatementsOfPurge, {q}) \in Seq(Statements)
        /\ On(StatementsOfPurge, {r}) # << >>
    BY <2>2 DEF Lefts
  <2>4. CASE r = q
    <3>1. Begin(w, [op |-> "purge", runs |-> {r}, alone |-> TRUE, left |-> On(StatementsOfPurge, {r})])
      BY <2>1, <2>3, <2>4, ConcatEmptySeq
    <3> QED
      BY <1>2, <2>2, <3>1, StatementsCover, NewTaskFits, BeginKeeps
  <2>5. CASE r # q
    <3> DEFINE left == On(StatementsOfPurge, {r}) \o On(StatementsOfPurge, {q})
    <3>1. left \in Lefts
      <4>1. left \in Seq(Statements)
        BY <2>3, ConcatProperties
      <4>2. left # << >>
        BY <2>3, ConcatEqualIffEmpty
      <4> QED
        BY <4>1, <4>2 DEF Lefts
    <3> HIDE DEF left
    <3>2. Begin(w, [op |-> "purge", runs |-> {r, q}, alone |-> TRUE, left |-> left])
      BY <2>1, <2>5 DEF left
    <3>3. [op |-> "purge", runs |-> {r, q}, alone |-> TRUE, left |-> left] \in Tasks
      BY <3>1
    <3>4. TaskFits([op |-> "purge", runs |-> {r, q}, alone |-> TRUE, left |-> left], rows, mangled)
      BY <2>5, <3>3, NewPurgeFits DEF left
    <3> QED
      BY <3>2, <3>3, <3>4, BeginKeeps
  <2> QED
    BY <2>4, <2>5
<1>7. CASE BeginDeleteProject(w)
  <2>1. Begin(w, [op |-> "project", runs |-> RunIds, left |-> On(StatementsOfProject, RunIds),
                  alone |-> TRUE])
    BY <1>7 DEF BeginDeleteProject
  <2>2. On(StatementsOfProject, RunIds) \in Lefts
    BY <1>2, OnTables
  <2> QED
    BY <1>2, <2>1, <2>2, StatementsCover, NewTaskFits, BeginKeeps
<1> QED
  BY <1>3, <1>4, <1>5, <1>6, <1>7

-----------------------------------------------------------------------------
(* The statements. *)

LEMMA RunningTask ==
  ASSUME RunsTyped, NEW w \in Workers, task[w] # Free
  PROVE  /\ task[w] \in Tasks
         /\ Table(w) = task[w].left[1][1] /\ Subject(w) = task[w].left[1][2]
         /\ Table(w) \in Evidence /\ Subject(w) \subseteq RunIds
         /\ Len(task[w].left) = 1 => Advanced(w) = Free
         /\ Len(task[w].left) # 1 =>
               /\ Advanced(w) \in Tasks
               /\ Advanced(w).left = Tail(task[w].left)
               /\ Advanced(w).op = task[w].op /\ Advanced(w).runs = task[w].runs
               /\ Advanced(w).alone = task[w].alone
               /\ task[w].op \in {"write", "rename"} => Advanced(w).name = task[w].name
<1>1. task[w] \in Tasks
  BY DEF RunsTyped
<1>2. task[w].left \in Lefts
  BY <1>1, TaskFields
<1>3. /\ Len(task[w].left) \in Nat /\ Len(task[w].left) >= 1
      /\ Head(task[w].left) = task[w].left[1]
      /\ task[w].left[1][1] \in Evidence /\ task[w].left[1][2] \subseteq RunIds
  BY <1>2, LeftFields
<1>4. CASE Len(task[w].left) = 1
  BY <1>1, <1>3, <1>4 DEF Table, Subject, Advanced
<1>5. CASE Len(task[w].left) # 1
  <2>1. Tail(task[w].left) \in Lefts
    BY <1>2, <1>5, LeftTail
  <2>2. Advanced(w) = [task[w] EXCEPT !.left = Tail(task[w].left)]
    BY <1>5 DEF Advanced
  <2>3. /\ Advanced(w) \in Tasks /\ Advanced(w).left = Tail(task[w].left)
        /\ Advanced(w).op = task[w].op /\ Advanced(w).runs = task[w].runs
        /\ Advanced(w).alone = task[w].alone
        /\ task[w].op \in {"write", "rename"} => Advanced(w).name = task[w].name
    <3> DEFINE t == task[w]
               left == Tail(task[w].left)
               u == Advanced(w)
    <3>1. t \in Tasks /\ left \in Lefts /\ u = [t EXCEPT !.left = left]
      BY <1>1, <2>1, <2>2
    <3> HIDE DEF t, left, u
    <3>2. /\ u \in Tasks /\ u.left = left /\ u.op = t.op /\ u.runs = t.runs /\ u.alone = t.alone
          /\ t.op \in {"write", "rename"} => u.name = t.name
      BY <3>1, ShorterTask
    <3> QED
      BY <3>2 DEF t, left, u
  <2> QED
    BY <1>1, <1>3, <1>5, <2>3 DEF Table, Subject
<1> QED
  BY <1>4, <1>5

LEMMA InsertKeeps ==
  ASSUME RunsInv, NEW w \in Workers, InsertRows(w)
  PROVE  RunsInv'
<1> DEFINE t == task[w]
           S == Subject(w)
           T == Table(w)
<1>1. /\ RunsTyped /\ t # Free /\ t.op = "write" /\ t \in Tasks
      /\ TaskFits(t, rows, mangled)
      /\ T = t.left[1][1] /\ S = t.left[1][2] /\ T \in Evidence /\ S \subseteq RunIds
  BY RunningTask DEF InsertRows, Running, RunsInv
<1>2. S = t.runs /\ t.name \in RunNames
  BY <1>1, TaskFields, LeftFields DEF TaskFits, SubjectsFit
<1>3. PICK kept : /\ kept = IF T = "configs" THEN rows["configs"] \ Of("configs", S) ELSE rows[T]
                  /\ rows' = [rows EXCEPT ![T] = kept \cup (S \X {t.name})]
  BY DEF InsertRows
<1>4. /\ mangled' = mangled \cup (IF Beside(w) = {} THEN {} ELSE S)
      /\ runCuts' = runCuts
      /\ task' = [v \in Workers |-> IF v = w THEN Advanced(w)
                                    ELSE IF v \in Beside(w) THEN [task[v] EXCEPT !.alone = FALSE]
                                    ELSE task[v]]
  BY DEF InsertRows, Met, After
<1>5. /\ rows' \in [Evidence -> SUBSET (RunIds \X RunNames)]
      /\ rows'[T] = kept \cup (S \X {t.name})
      /\ \A table \in Evidence \ {T} : rows'[table] = rows[table]
  <2>1. kept \subseteq RunIds \X RunNames
    BY <1>1, <1>3 DEF RunsTyped, Evidence
  <2> QED
    BY <1>1, <1>2, <1>3, <2>1 DEF RunsTyped
<1>6. \A table \in Evidence : \A r : r \notin S => RowsOf(rows', table, r) = RowsOf(rows, table, r)
  BY <1>1, <1>3, <1>5 DEF RowsOf, Of
<1>7. \A r \in S : <<r, t.name>> \in RowsOf(rows', T, r)
  BY <1>5 DEF RowsOf
<1>8. \A table \in Evidence \ {T} : \A r : RowsOf(rows', table, r) = RowsOf(rows, table, r)
  BY <1>5 DEF RowsOf
<1> HIDE DEF t, S, T
<1>9. \A v \in Workers \ {w} :
         \/ task'[v] = task[v] /\ (task[v] = Free \/ task[v].runs \cap S = {})
         \/ /\ task[v] # Free /\ task[v].runs \cap S # {} /\ S \subseteq mangled'
            /\ task'[v] = [task[v] EXCEPT !.alone = FALSE]
  BY <1>4 DEF Beside, S
<1>10. RunsTyped'
  <2>1. task' \in [Workers -> Tasks \cup {Free}]
    <3>1. Advanced(w) \in Tasks \cup {Free}
      BY <1>1, RunningTask DEF t
    <3>2. \A v \in Beside(w) : [task[v] EXCEPT !.alone = FALSE] \in Tasks
      BY <1>1, SharedTask DEF Beside, RunsTyped
    <3> QED
      BY <1>1, <1>4, <3>1, <3>2 DEF RunsTyped
  <2>2. ASSUME NEW e \in rows'["configs"], NEW f \in rows'["configs"], e[1] = f[1]
        PROVE  e = f
    <3>1. CASE T # "configs"
      BY <1>1, <1>5, <2>2, <3>1 DEF RunsTyped, Evidence
    <3>2. CASE T = "configs"
      <4>1. kept = {g \in rows["configs"] : g[1] \notin S}
        BY <1>3, <3>2 DEF Of
      <4>2. \A g \in rows'["configs"] : g \in kept \/ (g[1] \in S /\ g = <<g[1], t.name>>)
        BY <1>5, <3>2
      <4> QED
        BY <1>1, <2>2, <4>1, <4>2 DEF RunsTyped
    <3> QED
      BY <3>1, <3>2
  <2> QED
    BY <1>1, <1>4, <1>5, <2>1, <2>2 DEF RunsTyped
<1>11. ASSUME NEW v \in Workers, task'[v] # Free
       PROVE  TaskFits(task'[v], rows', mangled')
  <2>1. CASE v = w
    <3>1. /\ task'[w] = Advanced(w) /\ Len(t.left) # 1
      BY <1>1, <1>4, <1>11, <2>1, RunningTask DEF t
    <3>2. \A r \in t.runs : /\ RowsOf(rows', T, r) # {}
                            /\ RowsOf(rows, "metrics", r) # {} => RowsOf(rows', "metrics", r) # {}
      BY <1>2, <1>7, <1>8 DEF Evidence
    <3>3. /\ Advanced(w) \in Tasks /\ Advanced(w).left = Tail(t.left)
          /\ Advanced(w).op = t.op /\ Advanced(w).runs = t.runs
      BY <1>1, <3>1, RunningTask DEF t
    <3>4. mangled \subseteq mangled'
      BY <1>4
    <3> QED
      BY <1>1, <2>1, <3>1, <3>2, <3>3, <3>4, WriteMoves
  <2>2. CASE v # w /\ task'[v] = task[v] /\ (task[v] = Free \/ task[v].runs \cap S = {})
    <3>1. task[v] \in Tasks /\ TaskFits(task[v], rows, mangled) /\ task[v].runs \cap S = {}
      BY <1>1, <1>11, <2>2 DEF RunsInv, RunsTyped
    <3>2. mangled \subseteq mangled'
      BY <1>4
    <3>3. \A r \in task[v].runs : \A table \in Evidence : RowsOf(rows', table, r) = RowsOf(rows, table, r)
      BY <1>6, <3>1
    <3> QED
      BY <2>2, <3>1, <3>2, <3>3, OtherKeeps
  <2>3. CASE /\ v # w /\ task[v] # Free /\ S \subseteq mangled'
             /\ task'[v] = [task[v] EXCEPT !.alone = FALSE]
    <3>1. task[v] \in Tasks /\ TaskFits(task[v], rows, mangled)
      BY <1>1, <2>3 DEF RunsInv, RunsTyped
    <3>2. mangled \subseteq mangled'
      BY <1>4
    <3>3. /\ task'[v] \in Tasks /\ task'[v].left = task[v].left /\ task'[v].op = task[v].op
          /\ task'[v].runs = task[v].runs /\ task'[v].alone = FALSE
          /\ task[v].op = "rename" => task'[v].name = task[v].name
      BY <2>3, <3>1, SharedTask
    <3>4. \A r \in task[v].runs :
             \/ \A table \in Evidence : RowsOf(rows', table, r) = RowsOf(rows, table, r)
             \/ r \in mangled'
      BY <1>6, <2>3
    <3> QED
      BY <3>1, <3>2, <3>3, <3>4, OtherKeeps
  <2> QED
    BY <1>9, <2>1, <2>2, <2>3
<1>12. HiddenHeld'
  <2> SUFFICES ASSUME NEW r \in RunIds, Hidden(rows', r), r \notin mangled'
               PROVE  \E v \in Workers : task'[v].op \in Erasing /\ r \in task'[v].runs
    BY DEF HiddenHeld
  <2>1. r \notin mangled
    BY <1>4
  <2>3. Hidden(rows, r)
    <3>1. CASE r \notin S
      BY <1>6, <3>1 DEF Hidden, Evidence
    <3>2. CASE r \in S
      <4>1. T \notin {"metrics", "run_artifact_links"}
        BY <1>7, <3>2 DEF Hidden
      <4>2. T \notin {"traces", "configs"}
        <5>1. SUFFICES ASSUME T \in {"traces", "configs"} PROVE FALSE
          OBVIOUS
        <5>2. 1 \in 1 .. Len(t.left) /\ \A j \in 1 .. 1 - 1 : FALSE
          BY <1>1, TaskFields, LeftFields
        <5>3. RowsOf(rows, "metrics", r) # {}
          BY <1>1, <1>2, <2>1, <3>2, <5>1, <5>2 DEF TaskFits, MetricsFirst
        <5>4. RowsOf(rows', "metrics", r) # {}
          BY <1>8, <5>1, <5>3 DEF Evidence
        <5> QED
          BY <5>4 DEF Hidden
      <4> QED
        BY <1>8, <4>1, <4>2 DEF Hidden, Evidence
    <3> QED
      BY <3>1, <3>2
  <2>4. PICK v \in Workers : task[v].op \in Erasing /\ r \in task[v].runs
    BY <2>1, <2>3 DEF RunsInv, HiddenHeld
  <2>5. task[v] # Free /\ v # w /\ task[v] \in Tasks
    BY <1>1, <2>4 DEF Free, Erasing, RunsTyped, t
  <2>6. task'[v].op = task[v].op /\ task'[v].runs = task[v].runs
    BY <1>9, <2>5, SharedTask
  <2> QED
    BY <2>4, <2>6
<1> QED
  BY <1>10, <1>11, <1>12 DEF RunsInv

\* What a renaming's statement makes of the rows.
LEMMA UpdatedRows ==
  ASSUME RunsInv, NEW w \in Workers, UpdateNames(w)
  PROVE  LET t == task[w]
             S == Subject(w)
             T == Table(w)
         IN /\ S = t.runs
            /\ rows' \in [Evidence -> SUBSET (RunIds \X RunNames)]
            /\ \A table \in Evidence \ {T} : /\ rows'[table] = rows[table]
                                             /\ \A r : RowsOf(rows', table, r) = RowsOf(rows, table, r)
            /\ \A r : r \notin S => RowsOf(rows', T, r) = RowsOf(rows, T, r)
            /\ \A r \in S : /\ RowsOf(rows', T, r) \subseteq {<<r, t.name>>}
                            /\ RowsOf(rows, T, r) = {} => RowsOf(rows', T, r) = {}
                            /\ RowsOf(rows, T, r) # {} => RowsOf(rows', T, r) # {}
<1> DEFINE t == task[w]
           S == Subject(w)
           T == Table(w)
           mine == Of(T, S)
<1>1. /\ RunsTyped /\ t # Free /\ t.op = "rename" /\ t \in Tasks
      /\ TaskFits(t, rows, mangled)
      /\ T = t.left[1][1] /\ S = t.left[1][2] /\ T \in Evidence /\ S \subseteq RunIds
  BY RunningTask DEF UpdateNames, Running, RunsInv
<1>2. S = t.runs /\ t.name \in RunNames
  BY <1>1, TaskFields, LeftFields DEF TaskFits, SubjectsFit
<1>3. rows' = [rows EXCEPT ![T] = (@ \ mine) \cup {<<e[1], t.name>> : e \in mine}]
  BY DEF UpdateNames
<1>5. /\ rows' \in [Evidence -> SUBSET (RunIds \X RunNames)]
      /\ rows'[T] = (rows[T] \ mine) \cup {<<e[1], t.name>> : e \in mine}
      /\ \A table \in Evidence \ {T} : rows'[table] = rows[table]
  <2>1. mine \subseteq RunIds \X RunNames
    BY <1>1 DEF RunsTyped, Of
  <2>2. {<<e[1], t.name>> : e \in mine} \subseteq RunIds \X RunNames
    BY <1>2, <2>1
  <2> QED
    BY <1>1, <1>3, <2>2 DEF RunsTyped
<1>6. \A table \in Evidence \ {T} : \A r : RowsOf(rows', table, r) = RowsOf(rows, table, r)
  BY <1>5 DEF RowsOf
<1>7. \A r : r \notin S => RowsOf(rows', T, r) = RowsOf(rows, T, r)
  <2> SUFFICES ASSUME NEW r, r \notin S PROVE RowsOf(rows', T, r) = RowsOf(rows, T, r)
    OBVIOUS
  <2>1. \A e \in rows[T] : e[1] = r => e \notin mine
    BY DEF Of
  <2>2. \A e \in rows'[T] : e[1] = r => e \in rows[T]
    BY <1>5 DEF Of
  <2>3. \A e \in rows[T] : e[1] = r => e \in rows'[T]
    BY <1>5, <2>1
  <2> QED
    BY <2>2, <2>3 DEF RowsOf
<1>8. \A r \in S : /\ RowsOf(rows', T, r) \subseteq {<<r, t.name>>}
                   /\ RowsOf(rows, T, r) = {} => RowsOf(rows', T, r) = {}
                   /\ RowsOf(rows, T, r) # {} => RowsOf(rows', T, r) # {}
  <2> SUFFICES ASSUME NEW r \in S
               PROVE  /\ RowsOf(rows', T, r) \subseteq {<<r, t.name>>}
                      /\ RowsOf(rows, T, r) = {} => RowsOf(rows', T, r) = {}
                      /\ RowsOf(rows, T, r) # {} => RowsOf(rows', T, r) # {}
    OBVIOUS
  <2>1. RowsOf(rows, T, r) \subseteq mine
    BY DEF RowsOf, Of
  <2>2. ASSUME NEW e \in RowsOf(rows', T, r)
        PROVE  e = <<r, t.name>> /\ \E f \in mine : f \in RowsOf(rows, T, r)
    <3>1. e \in rows'[T] /\ e[1] = r
      BY DEF RowsOf
    <3>2. e \notin rows[T] \ mine
      BY <3>1 DEF Of
    <3>3. PICK f \in mine : e = <<f[1], t.name>>
      BY <1>5, <3>1, <3>2
    <3>4. f \in rows[T] /\ f[1] = r
      BY <3>1, <3>3 DEF Of
    <3> QED
      BY <3>3, <3>4 DEF RowsOf
  <2>3. ASSUME NEW e \in RowsOf(rows, T, r)
        PROVE  <<r, t.name>> \in RowsOf(rows', T, r)
    <3>1. e \in mine /\ e[1] = r
      BY <2>1 DEF RowsOf
    <3>2. <<r, t.name>> \in rows'[T]
      BY <1>5, <3>1
    <3> QED
      BY <3>2 DEF RowsOf
  <2> QED
    BY <2>2, <2>3
<1> QED
  BY <1>2, <1>5, <1>6, <1>7, <1>8

LEMMA UpdateKeeps ==
  ASSUME RunsInv, NEW w \in Workers, UpdateNames(w)
  PROVE  RunsInv'
<1> DEFINE t == task[w]
           S == Subject(w)
           T == Table(w)
<1>1. /\ RunsTyped /\ t # Free /\ t.op = "rename" /\ t \in Tasks
      /\ TaskFits(t, rows, mangled)
      /\ T = t.left[1][1] /\ S = t.left[1][2] /\ T \in Evidence /\ S \subseteq RunIds
  BY RunningTask DEF UpdateNames, Running, RunsInv
<1>2. S = t.runs /\ t.name \in RunNames
  BY <1>1, UpdatedRows, TaskFields
<1>4. /\ mangled' = mangled \cup (IF Beside(w) = {} THEN {} ELSE S)
      /\ runCuts' = runCuts
      /\ task' = [v \in Workers |-> IF v = w THEN Advanced(w)
                                    ELSE IF v \in Beside(w) /\ task[v].op = "rename"
                                    THEN [task[v] EXCEPT !.alone = FALSE]
                                    ELSE task[v]]
  BY DEF UpdateNames, Met
<1>5. /\ rows' \in [Evidence -> SUBSET (RunIds \X RunNames)]
      /\ \A table \in Evidence \ {T} : rows'[table] = rows[table]
  BY UpdatedRows
<1>6. \A table \in Evidence \ {T} : \A r : RowsOf(rows', table, r) = RowsOf(rows, table, r)
  BY UpdatedRows
<1>7. \A r : r \notin S => RowsOf(rows', T, r) = RowsOf(rows, T, r)
  BY UpdatedRows
<1>8. \A r \in S : /\ RowsOf(rows', T, r) \subseteq {<<r, t.name>>}
                   /\ RowsOf(rows, T, r) = {} => RowsOf(rows', T, r) = {}
                   /\ RowsOf(rows, T, r) # {} => RowsOf(rows', T, r) # {}
  BY UpdatedRows
<1> HIDE DEF t, S, T
<1>9. \A table \in Evidence : \A r : RowsOf(rows', table, r) = {} <=> RowsOf(rows, table, r) = {}
  BY <1>1, <1>6, <1>7, <1>8
<1>10. \A v \in Workers \ {w} :
         \/ task'[v] = task[v] /\ (task[v] = Free \/ task[v].runs \cap S = {})
         \/ /\ task[v] # Free /\ S \subseteq mangled'
            /\ IF task[v].op = "rename" THEN task'[v] = [task[v] EXCEPT !.alone = FALSE]
                                        ELSE task'[v] = task[v]
  BY <1>4 DEF Beside, S
<1>11. RunsTyped'
  <2>1. task' \in [Workers -> Tasks \cup {Free}]
    <3>1. Advanced(w) \in Tasks \cup {Free}
      BY <1>1, RunningTask DEF t
    <3>2. \A v \in Beside(w) : [task[v] EXCEPT !.alone = FALSE] \in Tasks
      BY <1>1, SharedTask DEF Beside, RunsTyped
    <3> QED
      BY <1>1, <1>4, <3>1, <3>2 DEF RunsTyped
  <2>2. ASSUME NEW e \in rows'["configs"], NEW f \in rows'["configs"], e[1] = f[1]
        PROVE  e = f
    <3>1. CASE T # "configs"
      BY <1>1, <1>5, <2>2, <3>1 DEF RunsTyped, Evidence
    <3>2. CASE T = "configs"
      <4>1. e \in RowsOf(rows', T, e[1]) /\ f \in RowsOf(rows', T, e[1])
        BY <2>2, <3>2 DEF RowsOf
      <4>2. CASE e[1] \in S
        BY <1>8, <4>1, <4>2
      <4>3. CASE e[1] \notin S
        BY <1>1, <1>7, <2>2, <3>2, <4>1, <4>3 DEF RowsOf, RunsTyped
      <4> QED
        BY <4>2, <4>3
    <3> QED
      BY <3>1, <3>2
  <2> QED
    BY <1>1, <1>4, <1>5, <2>1, <2>2 DEF RunsTyped
<1>12. ASSUME NEW v \in Workers, task'[v] # Free
       PROVE  TaskFits(task'[v], rows', mangled')
  <2>0. mangled \subseteq mangled'
    BY <1>4
  <2>1. CASE v = w
    <3>1. task'[w] = Advanced(w) /\ Len(t.left) # 1
      BY <1>1, <1>4, <1>12, <2>1, RunningTask DEF t
    <3>2. /\ Advanced(w) \in Tasks /\ Advanced(w).left = Tail(t.left)
          /\ Advanced(w).op = t.op /\ Advanced(w).runs = t.runs
          /\ Advanced(w).alone = t.alone /\ Advanced(w).name = t.name
      BY <1>1, <3>1, RunningTask DEF t
    <3>3. \A r \in t.runs, table \in Evidence :
             RowsOf(rows, table, r) \subseteq {<<r, t.name>>} => RowsOf(rows', table, r) \subseteq {<<r, t.name>>}
      BY <1>2, <1>6, <1>8
    <3> QED
      BY <1>1, <1>8, <2>1, <3>1, <3>2, <3>3, RenameMoves
  <2>2. CASE v # w /\ task'[v] = task[v] /\ (task[v] = Free \/ task[v].runs \cap S = {})
    <3>1. task[v] \in Tasks /\ TaskFits(task[v], rows, mangled) /\ task[v].runs \cap S = {}
      BY <1>1, <1>12, <2>2 DEF RunsInv, RunsTyped
    <3>2. \A r \in task[v].runs : \A table \in Evidence : RowsOf(rows', table, r) = RowsOf(rows, table, r)
      BY <1>6, <1>7, <3>1
    <3> QED
      BY <2>0, <2>2, <3>1, <3>2, OtherKeeps
  <2>3. CASE /\ v # w /\ task[v] # Free /\ S \subseteq mangled'
             /\ IF task[v].op = "rename" THEN task'[v] = [task[v] EXCEPT !.alone = FALSE]
                                         ELSE task'[v] = task[v]
    <3>1. task[v] \in Tasks /\ TaskFits(task[v], rows, mangled)
      BY <1>1, <2>3 DEF RunsInv, RunsTyped
    <3>2. /\ task'[v] \in Tasks /\ task'[v].left = task[v].left /\ task'[v].op = task[v].op
          /\ task'[v].runs = task[v].runs
          /\ task[v].op = "rename" => task'[v].name = task[v].name /\ task'[v].alone = FALSE
          /\ task'[v].alone => task[v].alone
      BY <2>3, <3>1, SharedTask
    <3>3. \A r \in task[v].runs :
             \/ \A table \in Evidence : RowsOf(rows', table, r) = RowsOf(rows, table, r)
             \/ r \in mangled'
                /\ \A table \in Evidence : RowsOf(rows, table, r) = {} => RowsOf(rows', table, r) = {}
      BY <1>6, <1>7, <1>9, <2>3
    <3>4. \A r \in task[v].runs :
             \/ \A table \in Evidence : RowsOf(rows', table, r) = RowsOf(rows, table, r)
             \/ /\ r \in mangled'
                /\ task'[v].alone /\ task[v].op \in Erasing =>
                      \A table \in Evidence : RowsOf(rows, table, r) = {} => RowsOf(rows', table, r) = {}
                /\ task'[v].alone /\ task[v].op = "rename" =>
                      \A table \in Evidence : RowsOf(rows', table, r) \subseteq RowsOf(rows, table, r)
      BY <3>2, <3>3
    <3>5. task'[v].op = "rename" => task'[v].name = task[v].name
      BY <3>2
    <3> HIDE DEF TaskFits
    <3> QED
      BY <2>0, <3>1, <3>2, <3>4, <3>5, OtherKeeps
  <2> QED
    BY <1>10, <2>1, <2>2, <2>3
<1>13. HiddenHeld'
  <2> SUFFICES ASSUME NEW r \in RunIds, Hidden(rows', r), r \notin mangled'
               PROVE  \E v \in Workers : task'[v].op \in Erasing /\ r \in task'[v].runs
    BY DEF HiddenHeld
  <2>1. r \notin mangled /\ Hidden(rows, r)
    BY <1>4, <1>9 DEF Hidden, Evidence
  <2>2. PICK v \in Workers : task[v].op \in Erasing /\ r \in task[v].runs
    BY <2>1 DEF RunsInv, HiddenHeld
  <2>3. v # w /\ task[v].op # "rename"
    BY <1>1, <2>2 DEF Erasing, t
  <2>4. task'[v] = task[v]
    BY <1>10, <2>3
  <2> QED
    BY <2>2, <2>4
<1> QED
  BY <1>11, <1>12, <1>13 DEF RunsInv

LEMMA DeleteKeeps ==
  ASSUME RunsInv, NEW w \in Workers, DeleteRows(w)
  PROVE  RunsInv'
<1> DEFINE t == task[w]
           S == Subject(w)
           T == Table(w)
<1>1. /\ RunsTyped /\ t # Free /\ t.op \in Erasing /\ t \in Tasks
      /\ TaskFits(t, rows, mangled)
      /\ T = t.left[1][1] /\ S = t.left[1][2] /\ T \in Evidence /\ S \subseteq RunIds
  BY RunningTask DEF DeleteRows, Running, RunsInv, Erasing
<1>2. S \subseteq t.runs
  BY <1>1, TaskFields, LeftFields DEF TaskFits, SubjectsFit
<1>3. rows' = [rows EXCEPT ![T] = @ \ Of(T, S)]
  BY DEF DeleteRows
<1>4. /\ mangled' = mangled \cup (IF Beside(w) = {} THEN {} ELSE S)
      /\ runCuts' = runCuts
      /\ task' = [task EXCEPT ![w] = Advanced(w)]
  BY DEF DeleteRows, Met
<1>5. /\ rows' \in [Evidence -> SUBSET (RunIds \X RunNames)]
      /\ rows'[T] = rows[T] \ Of(T, S)
      /\ \A table \in Evidence \ {T} : rows'[table] = rows[table]
  BY <1>1, <1>3 DEF RunsTyped
<1>6. \A table \in Evidence : \A r : r \notin S => RowsOf(rows', table, r) = RowsOf(rows, table, r)
  BY <1>5 DEF RowsOf, Of
<1>7. \A table \in Evidence : \A r : RowsOf(rows', table, r) \subseteq RowsOf(rows, table, r)
  BY <1>5 DEF RowsOf
<1>8. \A r \in S : RowsOf(rows', T, r) = {}
  BY <1>5 DEF RowsOf, Of
<1> HIDE DEF t, S, T
<1>9. \A v \in Workers \ {w} :
         task'[v] = task[v] /\ (task[v] = Free \/ task[v].runs \cap S = {} \/ S \subseteq mangled')
  BY <1>4 DEF Beside, S
<1>10. RunsTyped'
  <2>1. task' \in [Workers -> Tasks \cup {Free}]
    BY <1>1, <1>4, RunningTask DEF RunsTyped, t
  <2>2. rows'["configs"] \subseteq rows["configs"]
    BY <1>5 DEF Evidence
  <2> QED
    BY <1>1, <1>4, <1>5, <2>1, <2>2 DEF RunsTyped
<1>11. ASSUME NEW v \in Workers, task'[v] # Free
       PROVE  TaskFits(task'[v], rows', mangled')
  <2>0. mangled \subseteq mangled'
    BY <1>4
  <2>1. CASE v = w
    <3>1. task'[w] = Advanced(w) /\ Len(t.left) # 1
      BY <1>1, <1>4, <1>11, <2>1, RunningTask DEF t, RunsTyped
    <3>2. /\ Advanced(w) \in Tasks /\ Advanced(w).left = Tail(t.left)
          /\ Advanced(w).op = t.op /\ Advanced(w).runs = t.runs /\ Advanced(w).alone = t.alone
      BY <1>1, <3>1, RunningTask DEF t
    <3>3. \A r \in t.runs, table \in Evidence : RowsOf(rows, table, r) = {} => RowsOf(rows', table, r) = {}
      BY <1>7
    <3> QED
      BY <1>1, <1>8, <2>0, <2>1, <3>1, <3>2, <3>3, EraseMoves
  <2>2. CASE v # w
    <3>1. task[v] \in Tasks /\ TaskFits(task[v], rows, mangled) /\ task'[v] = task[v]
          /\ (task[v].runs \cap S = {} \/ S \subseteq mangled')
      BY <1>1, <1>9, <1>11, <2>2 DEF RunsInv, RunsTyped
    <3>2. \A r \in task[v].runs :
             \/ \A table \in Evidence : RowsOf(rows', table, r) = RowsOf(rows, table, r)
             \/ r \in mangled'
      BY <1>6, <3>1
    <3>3. \A r \in task[v].runs : \A table \in Evidence :
             /\ RowsOf(rows, table, r) = {} => RowsOf(rows', table, r) = {}
             /\ RowsOf(rows', table, r) \subseteq RowsOf(rows, table, r)
      BY <1>7
    <3>4. \A r \in task[v].runs :
             \/ \A table \in Evidence : RowsOf(rows', table, r) = RowsOf(rows, table, r)
             \/ /\ r \in mangled'
                /\ task'[v].alone /\ task[v].op \in Erasing =>
                      \A table \in Evidence : RowsOf(rows, table, r) = {} => RowsOf(rows', table, r) = {}
                /\ task'[v].alone /\ task[v].op = "rename" =>
                      \A table \in Evidence : RowsOf(rows', table, r) \subseteq RowsOf(rows, table, r)
      BY <3>2, <3>3
    <3>5. /\ task'[v] \in Tasks /\ task'[v].left = task[v].left /\ task'[v].op = task[v].op
          /\ task'[v].runs = task[v].runs /\ task'[v].alone = task[v].alone
          /\ task'[v].op = "rename" => task'[v].name = task[v].name
      BY <3>1
    <3> QED
      BY <2>0, <3>1, <3>4, <3>5, OtherKeeps
  <2> QED
    BY <2>1, <2>2
<1>12. HiddenHeld'
  <2> SUFFICES ASSUME NEW r \in RunIds, Hidden(rows', r), r \notin mangled'
               PROVE  \E v \in Workers : task'[v].op \in Erasing /\ r \in task'[v].runs
    BY DEF HiddenHeld
  <2>1. r \notin mangled
    BY <1>4
  <2>2. CASE r \in t.runs /\ Len(t.left) # 1
    <3>1. task'[w].op = t.op /\ task'[w].runs = t.runs
      BY <1>1, <1>4, <2>2, RunningTask DEF t, RunsTyped
    <3> QED
      BY <1>1, <2>2, <3>1
  <2>3. CASE r \in t.runs /\ Len(t.left) = 1
    <3>1. \A table \in Evidence : RowsOf(rows', table, r) = {}
      <4> SUFFICES ASSUME NEW table \in Evidence PROVE RowsOf(rows', table, r) = {}
        OBVIOUS
      <4>1. RowsOf(rows, table, r) = {} \/ Ahead(t, table, r)
        BY <1>1, <2>1, <2>3 DEF TaskFits, ErasedBehind
      <4>2. Ahead(t, table, r) => table = T /\ r \in S
        BY <1>1, <2>3 DEF Ahead
      <4> QED
        BY <1>7, <1>8, <4>1, <4>2
    <3> QED
      BY <3>1 DEF Hidden, Evidence
  <2>4. CASE r \notin t.runs
    <3>1. Hidden(rows, r)
      BY <1>2, <1>6, <2>4 DEF Hidden, Evidence
    <3>2. PICK v \in Workers : task[v].op \in Erasing /\ r \in task[v].runs
      BY <2>1, <3>1 DEF RunsInv, HiddenHeld
    <3>3. v # w
      BY <2>4, <3>2 DEF t
    <3> QED
      BY <1>9, <3>2, <3>3
  <2> QED
    BY <2>2, <2>3, <2>4
<1> QED
  BY <1>10, <1>11, <1>12 DEF RunsInv

LEMMA CheckKeeps ==
  ASSUME RunsInv, NEW w \in Workers, Check(w)
  PROVE  RunsInv'
<1>1. /\ RunsTyped /\ task[w].op \in {"delete", "rename"} /\ task[w] # Free /\ task[w] \in Tasks
      /\ TaskFits(task[w], rows, mangled)
  BY RunningTask DEF Check, Free, RunsInv
<1>2. /\ UNCHANGED <<rows, mangled, runCuts>>
      /\ task' = [task EXCEPT ![w] = IF Refused(w) THEN Free ELSE [task[w] EXCEPT !.checked = TRUE]]
  BY DEF Check
<1>3. LET u == [task[w] EXCEPT !.checked = TRUE]
      IN /\ u \in Tasks /\ u.left = task[w].left /\ u.op = task[w].op /\ u.runs = task[w].runs
         /\ u.alone = task[w].alone /\ (task[w].op = "rename" => u.name = task[w].name)
  BY <1>1, CheckedTask
<1>4. RunsTyped'
  BY <1>1, <1>2, <1>3 DEF RunsTyped
<1>5. ASSUME NEW v \in Workers, task'[v] # Free
      PROVE  TaskFits(task'[v], rows', mangled')
  <2>1. CASE v # w
    BY <1>1, <1>2, <1>5, <2>1 DEF RunsInv, RunsTyped
  <2>2. CASE v = w
    <3>1. task'[w] = [task[w] EXCEPT !.checked = TRUE]
      BY <1>1, <1>2, <1>5, <2>2 DEF RunsTyped
    <3>2. TaskFits(task'[w], rows, mangled)
      BY <1>1, <1>3, <3>1, OtherKeeps
    <3> QED
      BY <1>2, <2>2, <3>2
  <2> QED
    BY <2>1, <2>2
<1>6. HiddenHeld'
  <2> SUFFICES ASSUME NEW r \in RunIds, Hidden(rows', r), r \notin mangled'
               PROVE  \E v \in Workers : task'[v].op \in Erasing /\ r \in task'[v].runs
    BY DEF HiddenHeld
  <2>1. PICK v \in Workers : task[v].op \in Erasing /\ r \in task[v].runs
    BY <1>2 DEF RunsInv, HiddenHeld
  <2>2. CASE v # w
    BY <1>1, <1>2, <2>1, <2>2 DEF RunsTyped
  <2>3. CASE v = w
    <3>1. RunExists(r)
      BY <1>2, RowsAre DEF RunExists, Hidden, Evidence
    <3>2. ~Refused(w)
      BY <1>1, <2>1, <2>3, <3>1 DEF Refused, Erasing
    <3>3. task'[w] = [task[w] EXCEPT !.checked = TRUE]
      BY <1>1, <1>2, <3>2 DEF RunsTyped
    <3> QED
      BY <1>3, <2>1, <2>3, <3>3
  <2> QED
    BY <2>2, <2>3
<1> QED
  BY <1>4, <1>5, <1>6 DEF RunsInv

LEMMA CutKeeps ==
  ASSUME RunsInv, NEW W \in SUBSET Workers, CutRunTasks(W)
  PROVE  RunsInv'
<1>1. /\ RunsTyped /\ \A v \in W : task[v] # Free /\ task[v] \in Tasks
      /\ rows' = rows /\ runCuts' = runCuts + 1
      /\ mangled' = mangled \cup UNION {task[v].runs : v \in W}
      /\ task' = [v \in Workers |-> IF v \in W THEN Free ELSE task[v]]
  BY RunningTask DEF CutRunTasks, RunsInv
<1>2. mangled \subseteq mangled' /\ \A v \in W : task[v].runs \subseteq mangled'
  BY <1>1
<1>3. RunsTyped'
  <2>1. \A v \in W : task[v].runs \subseteq RunIds
    BY <1>1, TaskFields
  <2>2. mangled' \subseteq RunIds
    BY <1>1, <2>1 DEF RunsTyped
  <2> QED
    BY <1>1, <2>2 DEF RunsTyped
<1>4. ASSUME NEW v \in Workers, task'[v] # Free
      PROVE  TaskFits(task'[v], rows', mangled')
  <2>1. task'[v] = task[v] /\ task[v] \in Tasks /\ TaskFits(task[v], rows, mangled)
    BY <1>1, <1>4 DEF RunsInv, RunsTyped
  <2>2. TaskFits(task[v], rows, mangled')
    BY <1>2, <2>1, OtherKeeps
  <2> QED
    BY <1>1, <2>1, <2>2
<1>5. HiddenHeld'
  <2> SUFFICES ASSUME NEW r \in RunIds, Hidden(rows', r), r \notin mangled'
               PROVE  \E v \in Workers : task'[v].op \in Erasing /\ r \in task'[v].runs
    BY DEF HiddenHeld
  <2>1. PICK v \in Workers : task[v].op \in Erasing /\ r \in task[v].runs
    BY <1>1, <1>2 DEF RunsInv, HiddenHeld
  <2>2. v \notin W
    BY <1>2, <2>1
  <2> QED
    BY <1>1, <2>1, <2>2
<1> QED
  BY <1>3, <1>4, <1>5 DEF RunsInv

LEMMA RunsInvNext == RunsInv /\ [DorisRunsNext]_dorisRunsVars => RunsInv'
<1> SUFFICES ASSUME RunsInv, [DorisRunsNext]_dorisRunsVars
             PROVE  RunsInv'
  OBVIOUS
<1>1. CASE UNCHANGED dorisRunsVars
  BY <1>1 DEF RunsInv, RunsTyped, HiddenHeld, dorisRunsVars
<1>2. CASE CutRunTasks({w \in Workers : task[w] # Free})
  BY <1>2, CutKeeps
<1>3. ASSUME NEW w \in Workers, CutRunTasks({w})
      PROVE  RunsInv'
  BY <1>3, CutKeeps
<1>4. ASSUME NEW w \in Workers,
             \/ \E r \in RunIds, n \in RunNames : BeginWrite(w, r, n)
             \/ BeginDelete(w)
             \/ \E n \in RunNames : BeginRename(w, n)
             \/ BeginPurge(w)
             \/ BeginDeleteProject(w)
      PROVE  RunsInv'
  BY <1>4, BeginsKeep
<1>5. ASSUME NEW w \in Workers, Check(w) \/ InsertRows(w) \/ UpdateNames(w) \/ DeleteRows(w)
      PROVE  RunsInv'
  BY <1>5, CheckKeeps, InsertKeeps, UpdateKeeps, DeleteKeeps
<1> QED
  BY <1>1, <1>2, <1>3, <1>4, <1>5 DEF DorisRunsNext

LEMMA RunsInvGives == RunsInv => DorisRunsTypeOK /\ HiddenOnlyIfMangled
<1> SUFFICES ASSUME RunsInv PROVE DorisRunsTypeOK /\ HiddenOnlyIfMangled
  OBVIOUS
<1>1. DorisRunsTypeOK
  <2>1. ASSUME NEW w \in Workers, task[w] # Free
        PROVE  task[w].runs \subseteq RunIds /\ task[w].left # << >>
    BY <2>1, TaskFields DEF RunsInv, RunsTyped, Lefts
  <2> QED
    BY <2>1 DEF RunsInv, RunsTyped, DorisRunsTypeOK
<1>2. HiddenOnlyIfMangled
  <2> SUFFICES ASSUME NEW r \in RunIds, Of("configs", {r}) \cup Of("traces", {r}) # {}, ~Listed(r),
                      \A w \in Workers : task[w] # Free => r \notin task[w].runs
               PROVE  r \in mangled
    BY DEF HiddenOnlyIfMangled
  <2>1. Hidden(rows, r)
    BY RowsAre DEF Listed, Hidden
  <2>2. \A w \in Workers : task[w].op \in Erasing => task[w] # Free
    BY DEF Free, Erasing
  <2> QED
    BY <2>1, <2>2 DEF RunsInv, HiddenHeld
<1> QED
  BY <1>1, <1>2

\* A task that executes a statement is changed by its own worker alone.
LEMMA OwnStep ==
  ASSUME RunsInv, [DorisRunsNext]_dorisRunsVars, NEW w \in Workers, Completes(w)
  PROVE  UpdateNames(w) \/ DeleteRows(w)
<1>1. /\ RunsTyped /\ task[w] # Free /\ task[w] \in Tasks /\ task[w].op # "write" /\ Running(w)
      /\ task'[w] = Advanced(w) /\ runCuts' = runCuts /\ runCuts \in Nat
  BY RunningTask DEF Completes, RunsInv, RunsTyped
<1>2. task'[w] = Free \/ task'[w].left # task[w].left
  <2>1. Len(task[w].left) # 1 => Len(Tail(task[w].left)) # Len(task[w].left)
    BY <1>1, TaskFields, LeftTail, LeftFields
  <2> QED
    BY <1>1, <2>1, RunningTask
<1>3. task'[w] # task[w]
  BY <1>1, <1>2
<1>4. task[w] \in Tasks => [task[w] EXCEPT !.alone = FALSE].left = task[w].left
                           /\ [task[w] EXCEPT !.alone = FALSE] # Free
  BY SharedTask, TaskIsNotFree
<1>5. CASE UNCHANGED dorisRunsVars
  BY <1>3, <1>5 DEF dorisRunsVars
<1>6. ASSUME NEW W, CutRunTasks(W)
      PROVE  FALSE
  BY <1>1, <1>6 DEF CutRunTasks
<1>7. ASSUME NEW v \in Workers, NEW new, Begin(v, new)
      PROVE  FALSE
  BY <1>1, <1>3, <1>7 DEF Begin, RunsTyped
<1>8. ASSUME NEW v \in Workers, Check(v)
      PROVE  FALSE
  BY <1>1, <1>3, <1>8 DEF Check, Running, RunsTyped
<1>9. ASSUME NEW v \in Workers, InsertRows(v)
      PROVE  FALSE
  BY <1>1, <1>2, <1>4, <1>9 DEF InsertRows, After
<1>10. ASSUME NEW v \in Workers \ {w}, UpdateNames(v)
       PROVE  FALSE
  BY <1>1, <1>2, <1>4, <1>10 DEF UpdateNames
<1>11. ASSUME NEW v \in Workers \ {w}, DeleteRows(v)
       PROVE  FALSE
  BY <1>1, <1>3, <1>11 DEF DeleteRows, RunsTyped
<1>12. ASSUME NEW v \in Workers,
              \/ \E r \in RunIds, n \in RunNames : BeginWrite(v, r, n)
              \/ BeginDelete(v)
              \/ \E n \in RunNames : BeginRename(v, n)
              \/ BeginPurge(v)
              \/ BeginDeleteProject(v)
       PROVE  FALSE
  BY <1>7, <1>12 DEF BeginWrite, BeginDelete, BeginRename, BeginPurge, BeginDeleteProject
<1> QED
  BY <1>5, <1>6, <1>8, <1>9, <1>10, <1>11, <1>12 DEF DorisRunsNext

\* What the last statement of an operation leaves.
LEMMA CompletedWhole ==
  ASSUME RunsInv, [DorisRunsNext]_dorisRunsVars, NEW w \in Workers, Completes(w), task[w].alone,
         NEW table \in Evidence, NEW r \in Subject(w)
  PROVE  IF task[w].op = "rename" THEN RowsOf(rows', table, r) \subseteq {<<r, task[w].name>>}
                                  ELSE RowsOf(rows', table, r) = {}
<1> DEFINE t == task[w]
<1>1. /\ RunsTyped /\ t # Free /\ t \in Tasks /\ TaskFits(t, rows, mangled)
      /\ Table(w) = t.left[1][1] /\ Subject(w) = t.left[1][2] /\ Table(w) \in Evidence
      /\ \A i \in 2 .. Len(t.left) : t.left[i][2] # Subject(w)
  BY RunningTask DEF Completes, RunsInv
<1>2. /\ Len(t.left) \in Nat /\ 1 \in 1 .. Len(t.left) /\ Subject(w) \subseteq t.runs
  BY <1>1, TaskFields, LeftFields DEF TaskFits, SubjectsFit
<1>3. Ahead(t, table, r) => table = Table(w)
  <2>1. ASSUME NEW i \in 1 .. Len(t.left), t.left[i][1] = table, r \in t.left[i][2]
        PROVE  table = Table(w)
    <3>1. t.left[i][2] = t.left[1][2]
      BY <1>1, <1>2, <2>1 DEF TaskFits, SubjectsFit
    <3>2. i = 1
      BY <1>1, <1>2, <3>1
    <3> QED
      BY <1>1, <2>1, <3>2
  <2> QED
    BY <2>1 DEF Ahead
<1>4. CASE UpdateNames(w)
  <2>1. t.op = "rename"
    BY <1>4 DEF UpdateNames
  <2>2. RowsOf(rows, table, r) \subseteq {<<r, t.name>>} \/ Ahead(t, table, r)
    BY <1>1, <1>2, <2>1 DEF TaskFits, RenamedBehind
  <2> QED
    BY <1>3, <1>4, <2>1, <2>2, UpdatedRows
<1>5. CASE DeleteRows(w)
  <2>1. t.op \in Erasing
    BY <1>5 DEF DeleteRows, Erasing
  <2>2. RowsOf(rows, table, r) = {} \/ Ahead(t, table, r)
    BY <1>1, <1>2, <2>1 DEF TaskFits, ErasedBehind
  <2>3. /\ rows'[Table(w)] = rows[Table(w)] \ Of(Table(w), Subject(w))
        /\ rows'[table] \subseteq rows[table]
    BY <1>1, <1>5 DEF DeleteRows, RunsTyped
  <2>4. RowsOf(rows', Table(w), r) = {}
    BY <2>3 DEF RowsOf, Of
  <2>5. RowsOf(rows', table, r) = {}
    BY <1>3, <2>2, <2>3, <2>4 DEF RowsOf
  <2> QED
    BY <2>1, <2>5 DEF Erasing
<1> QED
  BY <1>4, <1>5, OwnStep

LEMMA NextWholeRuns ==
  ASSUME RunsInv, [DorisRunsNext]_dorisRunsVars
  PROVE  [\A w \in Workers : Completes(w) /\ task[w].alone =>
             \A table \in Evidence, r \in Subject(w) :
                LET left == {e \in rows'[table] : e[1] = r} IN
                IF task[w].op = "rename" THEN left \subseteq {<<r, task[w].name>>} ELSE left = {}
         ]_dorisRunsVars
BY CompletedWhole DEF RowsOf

\* A deletion, a renaming or a purge in Doris that nothing cut and no insert
\* met has gone through every table, whatever the other threads do.
THEOREM RunsWhole == DorisRunsSpec => WholeRuns
BY RunsInvInit, RunsInvNext, NextWholeRuns, PTL DEF DorisRunsSpec, WholeRuns

\* A run whose rows nothing lists is being deleted or was met.
THEOREM HiddenMangled == DorisRunsSpec => [](DorisRunsTypeOK /\ HiddenOnlyIfMangled)
BY RunsInvInit, RunsInvNext, RunsInvGives, PTL DEF DorisRunsSpec

-----------------------------------------------------------------------------
(* The copy of the blobs. *)

Copies == [at : {"copying"}, mode : {"copy", "verify", "delete"},
           blobs : SUBSET LocalBlobs, left : SUBSET LocalBlobs, failed : BOOLEAN]

\* Besides the types: a file that is there has not been removed, and the blobs
\* that a run about to delete has gone past without a failure are in the store
\* or were purged beside it.
CopyInv ==
    /\ local \subseteq LocalBlobs
    /\ s3 \subseteq LocalBlobs
    /\ \A r \in receipts : r.blobs \subseteq LocalBlobs /\ r.complete \in BOOLEAN
    /\ copying # NotCopying => /\ copying \in Copies
                               /\ copying.left \subseteq copying.blobs
                               /\ copying.mode = "delete" /\ ~copying.failed
                                     => copying.blobs \ copying.left \subseteq s3 \cup expired
    /\ unlinked \cap local = {}
    /\ UnlinkedIsStored

LEMMA CopyInvInit == CopyInit => CopyInv
BY DEF CopyInit, CopyInv, NotCopying, UnlinkedIsStored

LEMMA CopyInvNext == CopyInv /\ [CopyNext]_copyVars => CopyInv'
<1> SUFFICES ASSUME CopyInv, [CopyNext]_copyVars PROVE CopyInv'
  OBVIOUS
<1> USE DEF CopyInv, UnlinkedIsStored
<1>1. ASSUME NEW mode \in {"copy", "verify", "delete"}, BeginCopying(mode)
      PROVE  CopyInv'
  BY <1>1 DEF BeginCopying, NotCopying, Copies
<1>2. CASE CopyBlob
  <2>1. copying # NotCopying /\ copying \in Copies
    BY <1>2 DEF CopyBlob, NotCopying
  <2>2. PICK b \in copying.left :
               /\ s3' = IF copying.mode = "verify" THEN s3 ELSE s3 \cup {b}
               /\ copying' = [copying EXCEPT !.left = @ \ {b}, !.failed = @ \/ b \notin s3']
    BY <1>2 DEF CopyBlob
  <2>3. /\ copying'.left = copying.left \ {b}
        /\ copying'.failed = (copying.failed \/ b \notin s3')
        /\ copying'.blobs = copying.blobs /\ copying'.mode = copying.mode
        /\ copying' \in Copies
    BY <2>1, <2>2 DEF Copies
  <2>4. copying'.mode = "delete" /\ ~copying'.failed
           => copying'.blobs \ copying'.left \subseteq s3' \cup expired
    BY <2>1, <2>2, <2>3
  <2>5. s3' \subseteq LocalBlobs /\ s3 \subseteq s3'
    BY <2>1, <2>2 DEF Copies
  <2> QED
    BY <1>2, <2>1, <2>2, <2>3, <2>4, <2>5 DEF CopyBlob
<1>3. CASE CopyFails
  <2>1. copying # NotCopying /\ copying \in Copies
    BY <1>3 DEF CopyFails, NotCopying
  <2> QED
    BY <1>3, <2>1 DEF CopyFails, Copies
<1>4. CASE UnlinkLocal
  <2>1. copying # NotCopying /\ copying \in Copies
    BY <1>4 DEF UnlinkLocal, NotCopying
  <2>2. copying.blobs \subseteq s3 \cup expired
    BY <1>4, <2>1 DEF UnlinkLocal
  <2> QED
    BY <1>4, <2>1, <2>2 DEF UnlinkLocal, Copies
<1>5. CASE WriteReceipt
  <2>1. copying # NotCopying /\ copying \in Copies
    BY <1>5 DEF WriteReceipt, NotCopying
  <2> DEFINE new == [blobs |-> copying.blobs, complete |-> ~copying.failed]
  <2>2. new.blobs \subseteq LocalBlobs /\ new.complete \in BOOLEAN
    BY <2>1 DEF Copies
  <2>3. receipts' \subseteq receipts \cup {new}
    BY <1>5 DEF WriteReceipt
  <2>4. \A r \in receipts' : r.blobs \subseteq LocalBlobs /\ r.complete \in BOOLEAN
    <3> HIDE DEF new
    <3> QED
      BY <2>2, <2>3
  <2> QED
    BY <1>5, <2>4 DEF WriteReceipt
<1>6. CASE CutCopying
  BY <1>6 DEF CutCopying
<1>7. CASE StoreLocally
  BY <1>7 DEF StoreLocally
<1>8. CASE PurgeStored
  <2>1. PICK b \in s3 : /\ s3' = s3 \ {b}
                        /\ expired' = IF copying # NotCopying \/ b \notin local
                                      THEN expired \cup {b} ELSE expired
    BY <1>8 DEF PurgeStored
  <2>2. unlinked \subseteq s3' \cup expired'
    BY <2>1
  <2>3. copying # NotCopying => s3 \cup expired \subseteq s3' \cup expired'
    BY <2>1
  <2> QED
    BY <1>8, <2>1, <2>2, <2>3 DEF PurgeStored
<1>9. CASE UNCHANGED copyVars
  BY <1>9 DEF copyVars
<1> QED
  BY <1>1, <1>2, <1>3, <1>4, <1>5, <1>6, <1>7, <1>8, <1>9 DEF CopyNext

\* --delete-local (artifact_migration.py:161-168) removes only files whose blob
\* the store holds, unless it was purged there, whatever receipts, cuts and
\* failures there were.
THEOREM UnlinkedStored == CopySpec => []UnlinkedIsStored
<1>1. CopyInv => UnlinkedIsStored
  BY DEF CopyInv
<1> QED
  BY CopyInvInit, CopyInvNext, <1>1, PTL DEF CopySpec

-----------------------------------------------------------------------------
(* The copy to Doris. *)

TableNames == {MigratedTables[i] : i \in DOMAIN MigratedTables}

Migrating == [at : {"copying"}, snapshot : SUBSET Records, evidence : SUBSET Records,
              left : Seq(TableNames), unread : Seq(TableNames)]

\* The tables that are still to be read back.
Unread == {migration.unread[i] : i \in DOMAIN migration.unread}

\* Besides the types: the evidence is of records that Doris has or others
\* changed; of a table that has been read it is all of them, and no table is
\* read while one is left to copy.  A receipt speaks of no run under way, and
\* is true.
MigrationInv ==
    /\ MigrationTypeOK
    /\ migration # Stopped =>
          /\ migration \in Migrating
          /\ verified = Unverified
          /\ migration.left # << >> => migration.unread = ReadTables
          /\ migration.evidence \subseteq target \cup altered
          /\ \A r \in target \ altered : TableOf[r] \in Unread \/ r \in migration.evidence
    /\ VerifiedIsMigrated

LEMMA AllTablesRead ==
    /\ MigratedTables \in Seq(TableNames)
    /\ ReadTables \in Seq(TableNames)
    /\ TableNames = {ReadTables[i] : i \in DOMAIN ReadTables}
<1>1. TableNames = {"metrics", "configs", "system_metrics", "alerts", "traces",
                    "project_metadata", "artifact_graph"}
  BY DEF TableNames, MigratedTables
<1>2. {ReadTables[i] : i \in DOMAIN ReadTables} =
         {"metrics", "configs", "system_metrics", "alerts", "traces",
          "project_metadata", "artifact_graph"}
  BY DEF ReadTables
<1> QED
  BY <1>1, <1>2 DEF MigratedTables, ReadTables

LEMMA MigrationInvInit == MigrationInit => MigrationInv
BY DEF MigrationInit, MigrationInv, MigrationTypeOK, VerifiedIsMigrated, Unverified, Stopped

LEMMA MigrationInvNext == MigrationInv /\ [MigrationNext]_migrationVars => MigrationInv'
<1> SUFFICES ASSUME MigrationInv, [MigrationNext]_migrationVars PROVE MigrationInv'
  OBVIOUS
<1> USE DEF MigrationInv, MigrationTypeOK
<1>1. ASSUME NEW verifyOnly \in BOOLEAN, Snapshot(verifyOnly) PROVE MigrationInv'
  <2>1. /\ migration' = [at |-> "copying", snapshot |-> source, evidence |-> {},
                         left |-> IF verifyOnly THEN << >> ELSE MigratedTables,
                         unread |-> ReadTables]
        /\ verified' = Unverified
        /\ UNCHANGED <<source, target, altered>>
    BY <1>1 DEF Snapshot
  <2>2. migration' \in Migrating
    BY <2>1, AllTablesRead DEF Migrating
  <2>3. \A r \in Records : TableOf[r] \in TableNames
    BY MigrationAssumption DEF TableNames
  <2>4. \A r \in Records : TableOf[r] \in Unread'
    BY <2>1, <2>3, AllTablesRead DEF Unread
  <2> QED
    BY <2>1, <2>2, <2>4 DEF VerifiedIsMigrated, Unverified
<1>2. CASE CopyBatch
  <2>1. migration # Stopped /\ migration \in Migrating /\ migration.left # << >>
    BY <1>2 DEF CopyBatch, Stopped
  <2>2. PICK batch \in SUBSET InTable(Head(migration.left), migration.snapshot) :
           /\ target' = target \cup batch
           /\ migration' = IF InTable(Head(migration.left), migration.snapshot) = batch
                           THEN [migration EXCEPT !.left = Tail(@)] ELSE migration
    BY <1>2 DEF CopyBatch
  <2>3. batch \subseteq Records
    BY <2>1, <2>2 DEF InTable, Migrating
  <2>4. /\ migration' \in Migrating /\ migration'.snapshot = migration.snapshot
        /\ migration'.evidence = migration.evidence /\ migration'.unread = ReadTables
    <3>1. Tail(migration.left) \in Seq(TableNames)
      BY <2>1, HeadTailProperties DEF Migrating
    <3> QED
      BY <2>1, <2>2, <3>1 DEF Migrating
  <2>5. \A r \in Records : TableOf[r] \in Unread'
    BY <2>4, AllTablesRead, MigrationAssumption DEF TableNames, Unread
  <2> QED
    BY <1>2, <2>1, <2>2, <2>3, <2>4, <2>5 DEF CopyBatch, VerifiedIsMigrated, Unverified
<1>3. CASE ReadTarget
  <2>1. migration # Stopped /\ migration \in Migrating /\ migration.unread # << >>
    BY <1>3 DEF ReadTarget, Stopped
  <2>2. /\ migration' \in Migrating /\ migration'.snapshot = migration.snapshot
        /\ migration'.left = << >> /\ migration'.unread = Tail(migration.unread)
        /\ migration'.evidence = migration.evidence \cup InTable(Head(migration.unread), target)
    <3>1. Tail(migration.unread) \in Seq(TableNames)
      BY <2>1, HeadTailProperties DEF Migrating
    <3>2. migration.evidence \cup InTable(Head(migration.unread), target) \subseteq Records
      BY <2>1 DEF Migrating, InTable
    <3> QED
      BY <1>3, <2>1, <3>1, <3>2 DEF ReadTarget, Migrating
  <2>3. Unread \subseteq {Head(migration.unread)} \cup Unread'
    <3> SUFFICES ASSUME NEW i \in DOMAIN migration.unread
                 PROVE  migration.unread[i] \in {Head(migration.unread)} \cup Unread'
      BY DEF Unread
    <3>1. migration.unread \in Seq(TableNames) /\ i \in 1..Len(migration.unread)
      BY <2>1 DEF Migrating
    <3>2. CASE i = 1
      BY <3>1, <3>2, HeadTailProperties
    <3>3. CASE i # 1
      <4>1. /\ i - 1 \in DOMAIN migration'.unread
            /\ migration'.unread[i - 1] = migration.unread[i]
        BY <2>1, <2>2, <3>1, <3>3, HeadTailProperties
      <4> QED
        BY <4>1 DEF Unread
    <3> QED
      BY <3>2, <3>3
  <2>4. UNCHANGED <<source, target, verified, altered>>
    BY <1>3 DEF ReadTarget
  <2>5. \A r \in target' \ altered' : TableOf[r] \in Unread' \/ r \in migration'.evidence
    BY <2>1, <2>2, <2>3, <2>4 DEF InTable
  <2> QED
    BY <2>1, <2>2, <2>4, <2>5 DEF InTable, VerifiedIsMigrated, Unverified
<1>4. CASE Conclude
  <2>1. migration # Stopped /\ migration \in Migrating
    BY <1>4 DEF Conclude, Stopped
  <2>2. migration' = Stopped /\ UNCHANGED <<source, target, altered>>
    BY <1>4 DEF Conclude
  <2>3. CASE Matches
    <3>1. verified' = [ok |-> TRUE, records |-> migration.snapshot]
      BY <1>4, <2>3 DEF Conclude
    <3>2. Unread = {}
      BY <1>4 DEF Conclude, Unread
    <3>3. \A r \in Records \ altered : r \in migration.snapshot <=> r \in target
      BY <2>1, <2>3, <3>2 DEF Matches
    <3> QED
      BY <2>1, <2>2, <2>3, <3>1, <3>3 DEF Matches, VerifiedIsMigrated, Migrating
  <2>4. CASE ~Matches
    BY <1>4, <2>2, <2>4 DEF Conclude, VerifiedIsMigrated, Unverified
  <2> QED
    BY <2>3, <2>4
<1>5. CASE CutMigration
  BY <1>5 DEF CutMigration, VerifiedIsMigrated
<1>6. CASE ChangeSource
  BY <1>6 DEF ChangeSource, VerifiedIsMigrated, Unread
<1>7. CASE ChangeTarget
  <2>1. PICK r \in Records : /\ target' \in {target \cup {r}, target \ {r}}
                            /\ altered' = altered \cup {r}
    BY <1>7 DEF ChangeTarget
  <2> QED
    BY <1>7, <2>1 DEF ChangeTarget, VerifiedIsMigrated, Unread
<1>8. CASE UNCHANGED migrationVars
  BY <1>8 DEF migrationVars, VerifiedIsMigrated, Unread
<1> QED
  BY <1>1, <1>2, <1>3, <1>4, <1>5, <1>6, <1>7, <1>8 DEF MigrationNext

\* A receipt that calls a migration verified (doris_migration.py:680-719) is true
\* of Doris, but for what others changed there.
THEOREM VerifiedMigrated == MigrationSpec => []VerifiedIsMigrated
<1>1. MigrationInv => VerifiedIsMigrated
  BY DEF MigrationInv
<1> QED
  BY MigrationInvInit, MigrationInvNext, <1>1, PTL DEF MigrationSpec

-----------------------------------------------------------------------------
(* The catalog in Doris. *)

InLockAt == {"artifact", "looking", "numbering", "inserting", "aliases"}

CommitJobs == [at : {"waiting"} \cup InLockAt, run : Producers, content : Contents,
               n : Nat \cup {-1}, created : BOOLEAN, todo : Seq(DorisAliases)]
UseJobs == [at : {"linking"}, run : Producers, content : Contents]

Sweeps == [at : {"unlinking", "rows", "links", "aliases", "versions", "artifact", "retained",
                 "blobs"},
           runs : SUBSET Producers, doomed : SUBSET Contents, garbage : SUBSET Digest(Contents)]

DorisTyped ==
    /\ artifactRow \in BOOLEAN
    /\ versionRow \in [Contents -> Nat \cup {-1}]
    /\ aliasRow \in [DorisAliases -> [of : Contents, n : Nat] \cup {NoRow}]
    /\ linkRow \subseteq Producers \X Contents \X {"output", "input"}
    /\ stored \subseteq Digest(Contents)
    /\ holder \in Threads \cup {NoThread}
    /\ job \in [Threads -> CommitJobs \cup UseJobs \cup {NoJob}]
    /\ sweep \in Sweeps \cup {NoSweep}
    /\ unlatest \in BOOLEAN

InLock(j) == j.at \in InLockAt

LockHeld == \A t \in Threads : InLock(job[t]) => holder = t

NumbersDiffer == \A c, d \in Rows : versionRow[c] = versionRow[d] => c = d

\* What the request in a thread may rely on.
JobFits(j) ==
    /\ j \in CommitJobs => j.content \in met \/ BlobsOf[j.content] \subseteq stored
    /\ j.at \in {"looking", "numbering", "inserting"} => artifactRow \/ "artifact" \in met
    /\ j.at \in {"waiting", "artifact", "looking"} => ~j.created
    /\ j.at \in {"numbering", "inserting"} =>
          /\ j.created
          /\ versionRow[j.content] = -1
          /\ \E i \in 1 .. Len(j.todo) : j.todo[i] = "latest"
    /\ j.at = "inserting" => \A c \in Contents : versionRow[c] < j.n
    /\ j.at = "aliases" =>
          /\ j.n >= 0
          /\ j.content \in met \/ versionRow[j.content] = j.n
          /\ j.created /\ aliasRow["latest"] = NoRow =>
                unlatest \/ \E i \in 1 .. Len(j.todo) : j.todo[i] = "latest"
    /\ j.at = "linking" => j.content \in met \/ j.content \in Rows

\* What is in hand beside a purge is met.
HandMet ==
    sweep # NoSweep =>
       \A t \in Threads : job[t] # NoJob =>
          job[t].content \in met /\ (job[t] \in CommitJobs => "artifact" \in met)

\* What the purge has gone past is empty, but for what it met.
SweptBehind ==
    /\ sweep.at \in {"aliases", "versions"} =>
          \A l \in linkRow : l[2] \in sweep.doomed => l[2] \in met
    /\ sweep.at = "versions" =>
          \A a \in DorisAliases : aliasRow[a] # NoRow =>
             (aliasRow[a].of \in sweep.doomed => aliasRow[a].of \in met)
    /\ sweep.at = "blobs" =>
          \A c \in Rows \ met : BlobsOf[c] \cap sweep.garbage = {}

CatalogInv == /\ DorisTyped /\ LockHeld /\ NumbersDiffer
              /\ \A t \in Threads : JobFits(job[t])
              /\ HandMet /\ SweptBehind
              /\ DorisCatalogResolves /\ LatestUnlessCut

-----------------------------------------------------------------------------
Jobs == CommitJobs \cup UseJobs \cup {NoJob}

LEMMA JobKinds ==
  ASSUME NEW j \in Jobs
  PROVE  /\ j \in CommitJobs <=> j.at \in {"waiting"} \cup InLockAt
         /\ j \in UseJobs <=> j.at = "linking"
         /\ j = NoJob <=> j.at = "idle"
         /\ j # NoJob => j.run \in Producers /\ j.content \in Contents
         /\ j \in CommitJobs => /\ j.n \in Nat \cup {-1} /\ j.created \in BOOLEAN
                                /\ j.todo \in Seq(DorisAliases)
BY DEF Jobs, CommitJobs, UseJobs, NoJob, InLockAt

\* A commit goes from one statement to the next.
Moved(t, to) == /\ job \in [Threads -> Jobs] /\ job' \in [Threads -> Jobs]
                /\ job[t] \in CommitJobs /\ job'[t] \in CommitJobs /\ job'[t].at = to
                /\ job'[t].run = job[t].run /\ job'[t].content = job[t].content
                /\ \A u \in Threads \ {t} : job'[u] = job[u]

Same(t) == /\ job'[t].n = job[t].n /\ job'[t].created = job[t].created
           /\ job'[t].todo = job[t].todo

LEMMA MoveAt ==
  ASSUME NEW j \in CommitJobs, NEW to \in {"waiting"} \cup InLockAt
  PROVE  LET k == [j EXCEPT !.at = to]
         IN /\ k \in CommitJobs /\ k.at = to /\ k.run = j.run /\ k.content = j.content
            /\ k.n = j.n /\ k.created = j.created /\ k.todo = j.todo
BY DEF CommitJobs

LEMMA StepMoves ==
  ASSUME DorisTyped, NEW t \in Threads, NEW from \in {"waiting"} \cup InLockAt,
         NEW to \in {"waiting"} \cup InLockAt, Step(t, from, to)
  PROVE  Moved(t, to) /\ Same(t) /\ job[t].at = from
<1>1. job \in [Threads -> Jobs] /\ job[t].at = from /\ job' = [job EXCEPT ![t].at = to]
  BY DEF DorisTyped, Step, Jobs
<1>2. job[t] \in CommitJobs
  BY <1>1, JobKinds
<1>3. job' = [job EXCEPT ![t] = [job[t] EXCEPT !.at = to]]
  BY <1>1
<1> QED
  BY <1>1, <1>2, <1>3, MoveAt DEF Moved, Same, Jobs

LEMMA LookUpMoves ==
  ASSUME DorisTyped, NEW t \in Threads, LookUpVersion(t)
  PROVE  LET n == versionRow[job[t].content]
         IN /\ job[t].at = "looking"
            /\ n >= 0 => /\ Moved(t, "aliases") /\ job'[t].n = n
                         /\ job'[t].created = job[t].created
            /\ ~(n >= 0) => /\ Moved(t, "numbering") /\ n = -1 /\ job'[t].created
                            /\ \E i \in 1 .. Len(job'[t].todo) : job'[t].todo[i] = "latest"
<1> DEFINE j == job[t]
           n == versionRow[j.content]
           a == [j EXCEPT !.n = n, !.at = "aliases"]
           b == [j EXCEPT !.created = TRUE, !.at = "numbering", !.todo = Append(j.todo, "latest")]
<1>0. job' = [job EXCEPT ![t] = IF n >= 0 THEN a ELSE b]
  BY DEF LookUpVersion
<1>1. job \in [Threads -> Jobs] /\ j.at = "looking"
      /\ job' = [job EXCEPT ![t] = IF n >= 0 THEN a ELSE b]
  BY <1>0 DEF DorisTyped, LookUpVersion, Jobs
<1>2. j \in CommitJobs /\ j.todo \in Seq(DorisAliases) /\ j.content \in Contents
  BY <1>1, JobKinds DEF InLockAt
<1>3. n \in Nat \cup {-1}
  BY <1>2 DEF DorisTyped
<1>4. a \in CommitJobs /\ a.at = "aliases" /\ a.run = j.run /\ a.content = j.content
      /\ a.n = n /\ a.created = j.created
  BY <1>2, <1>3 DEF CommitJobs, InLockAt
<1>5. /\ Append(j.todo, "latest") \in Seq(DorisAliases)
      /\ \E i \in 1 .. Len(Append(j.todo, "latest")) : Append(j.todo, "latest")[i] = "latest"
  <2>1. "latest" \in DorisAliases
    BY DEF DorisAliases
  <2>2. Append(j.todo, "latest") \in Seq(DorisAliases)
        /\ Len(Append(j.todo, "latest")) = Len(j.todo) + 1
        /\ Append(j.todo, "latest")[Len(j.todo) + 1] = "latest" /\ Len(j.todo) \in Nat
    BY <1>2, <2>1
  <2> QED
    BY <2>2
<1>6. b \in CommitJobs /\ b.at = "numbering" /\ b.run = j.run /\ b.content = j.content
      /\ b.todo = Append(j.todo, "latest") /\ b.created
  BY <1>2, <1>5 DEF CommitJobs, InLockAt
<1> HIDE DEF a, b, n
<1>7. CASE n >= 0
  BY <1>1, <1>2, <1>4, <1>7 DEF Moved, Jobs, n
<1>8. CASE ~(n >= 0)
  BY <1>1, <1>2, <1>3, <1>5, <1>6, <1>8 DEF Moved, Jobs, n
<1> QED
  BY <1>1, <1>7, <1>8 DEF n

LEMMA NumberMoves ==
  ASSUME DorisTyped, NEW t \in Threads, NumberVersion(t)
  PROVE  /\ job[t].at = "numbering" /\ Moved(t, "inserting")
         /\ job'[t].todo = job[t].todo /\ job'[t].created = job[t].created
         /\ job'[t].n \in Nat /\ \A c \in Contents : versionRow[c] < job'[t].n
<1>1. PICK n \in {-1} \cup {versionRow[c] : c \in Contents} :
         /\ \A c \in Contents : versionRow[c] <= n
         /\ job' = [job EXCEPT ![t].n = n + 1, ![t].at = "inserting"]
  BY DEF NumberVersion
<1>2. n \in Nat \cup {-1} /\ n + 1 \in Nat /\ \A c \in Contents : versionRow[c] < n + 1
  BY <1>1 DEF DorisTyped
<1>3. job \in [Threads -> Jobs] /\ job[t].at = "numbering" /\ job[t] \in CommitJobs
  BY JobKinds DEF DorisTyped, NumberVersion, InLockAt, Jobs
<1> DEFINE j == job[t]
           k == [j EXCEPT !.n = n + 1, !.at = "inserting"]
<1>4. /\ k \in CommitJobs /\ k.at = "inserting" /\ k.run = j.run /\ k.content = j.content
      /\ k.n = n + 1 /\ k.todo = j.todo /\ k.created = j.created
  BY <1>2, <1>3 DEF CommitJobs, InLockAt
<1>5. job' = [job EXCEPT ![t] = k]
  BY <1>1, <1>3
<1> HIDE DEF k
<1> QED
  BY <1>2, <1>3, <1>4, <1>5 DEF Moved, Jobs

LEMMA AliasMoves ==
  ASSUME DorisTyped, NEW t \in Threads, InsertAlias(t)
  PROVE  /\ job[t].at = "aliases" /\ Moved(t, "aliases")
         /\ job'[t].n = job[t].n /\ job'[t].created = job[t].created
         /\ job[t].todo # << >> /\ job[t].todo \in Seq(DorisAliases)
         /\ Head(job[t].todo) = job[t].todo[1] /\ job[t].todo[1] \in DorisAliases
         /\ job'[t].todo = Tail(job[t].todo)
         /\ \A i \in 2 .. Len(job[t].todo) : /\ i - 1 \in 1 .. Len(job'[t].todo)
                                             /\ job'[t].todo[i - 1] = job[t].todo[i]
<1> DEFINE j == job[t]
           k == [j EXCEPT !.todo = Tail(j.todo)]
<1>1. job \in [Threads -> Jobs] /\ j.at = "aliases" /\ j \in CommitJobs
      /\ j.todo \in Seq(DorisAliases) /\ j.todo # << >>
  BY JobKinds DEF DorisTyped, InsertAlias, InLockAt, Jobs
<1>2. /\ Tail(j.todo) \in Seq(DorisAliases) /\ Len(Tail(j.todo)) = Len(j.todo) - 1
      /\ Head(j.todo) = j.todo[1] /\ Head(j.todo) \in DorisAliases /\ Len(j.todo) \in Nat
      /\ \A i \in 1 .. Len(Tail(j.todo)) : Tail(j.todo)[i] = j.todo[i + 1]
  BY <1>1, HeadTailProperties, LenProperties
<1>3. \A i \in 2 .. Len(j.todo) : i - 1 \in 1 .. Len(Tail(j.todo)) /\ Tail(j.todo)[i - 1] = j.todo[i]
  <2> TAKE i \in 2 .. Len(j.todo)
  <2>1. i - 1 \in 1 .. Len(Tail(j.todo)) /\ (i - 1) + 1 = i
    BY <1>2
  <2>2. Tail(j.todo)[i - 1] = j.todo[(i - 1) + 1]
    BY <1>2, <2>1
  <2> QED
    BY <2>1, <2>2
<1>4. /\ k \in CommitJobs /\ k.at = "aliases" /\ k.run = j.run /\ k.content = j.content
      /\ k.n = j.n /\ k.created = j.created /\ k.todo = Tail(j.todo)
  BY <1>1, <1>2 DEF CommitJobs
<1>5. job' = [job EXCEPT ![t] = k]
  BY DEF InsertAlias
<1> HIDE DEF k
<1> QED
  BY <1>1, <1>2, <1>3, <1>4, <1>5 DEF Moved, Jobs

\* A request begins or ends.
Taken(t) == /\ job \in [Threads -> Jobs] /\ job[t] = NoJob /\ job' \in [Threads -> Jobs]
            /\ \A u \in Threads \ {t} : job'[u] = job[u]

LEMMA BeginMoves ==
  ASSUME DorisTyped, NEW t \in Threads, NEW r \in Producers, NEW c \in Contents,
         BeginCommit(t, r, c)
  PROVE  Taken(t) /\ job'[t] \in CommitJobs /\ job'[t].at = "waiting" /\ job'[t].content = c
         /\ job'[t].created = FALSE
<1> DEFINE k == [at |-> "waiting", run |-> r, content |-> c, n |-> -1, created |-> FALSE,
                 todo |-> Requested[c]]
<1>1. k \in CommitJobs
  BY DorisCatalogAssumption DEF CommitJobs
<1>2. job \in [Threads -> Jobs] /\ job[t] = NoJob /\ job' = [job EXCEPT ![t] = k]
  BY DEF BeginCommit, DorisTyped, Jobs
<1>3. k.at = "waiting" /\ k.content = c /\ k.created = FALSE
  OBVIOUS
<1> HIDE DEF k
<1> QED
  BY <1>1, <1>2, <1>3 DEF Taken, Jobs

LEMMA UseMoves ==
  ASSUME DorisTyped, NEW t \in Threads, NEW r \in Producers, NEW c \in Contents,
         BeginUse(t, r, c)
  PROVE  Taken(t) /\ job'[t] \in UseJobs /\ job'[t].at = "linking" /\ job'[t].content = c
<1> DEFINE k == [at |-> "linking", run |-> r, content |-> c]
<1>1. k \in UseJobs
  BY DEF UseJobs
<1>2. job \in [Threads -> Jobs] /\ job[t] = NoJob /\ job' = [job EXCEPT ![t] = k]
  BY DEF BeginUse, DorisTyped, Jobs
<1>3. k.at = "linking" /\ k.content = c
  OBVIOUS
<1> HIDE DEF k
<1> QED
  BY <1>1, <1>2, <1>3 DEF Taken, Jobs

\* The requests that end: by themselves, or because they are cut.
Ended(T) == /\ job \in [Threads -> Jobs] /\ job' \in [Threads -> Jobs]
            /\ \A u \in Threads : job'[u] = IF u \in T THEN NoJob ELSE job[u]

LEMMA EndMoves ==
  ASSUME DorisTyped, NEW t \in Threads, job' = [job EXCEPT ![t] = NoJob]
  PROVE  Ended({t})
BY DEF DorisTyped, Ended, Jobs

LEMMA CutMoves ==
  ASSUME DorisTyped, NEW T \in SUBSET Threads, CutJobs(T)
  PROVE  Ended(T)
BY DEF DorisTyped, CutJobs, Ended, Jobs

LEMMA SweepFields ==
  ASSUME DorisTyped
  PROVE  /\ sweep # NoSweep <=> sweep.at # "idle"
         /\ sweep # NoSweep => sweep \in Sweeps /\ sweep.runs \subseteq Producers
                               /\ sweep.doomed \subseteq Contents
                               /\ sweep.garbage \subseteq Digest(Contents)
BY DEF DorisTyped, Sweeps, NoSweep

LEMMA SweepMoves ==
  ASSUME DorisTyped, NEW from, from # "idle",
         NEW to \in {"links", "aliases", "versions", "artifact", "retained"}, Sweep(from, to)
  PROVE  /\ sweep \in Sweeps /\ sweep # NoSweep /\ sweep.at = from
         /\ sweep' \in Sweeps /\ sweep' # NoSweep /\ sweep'.at = to
         /\ sweep'.doomed = sweep.doomed
<1>1. sweep.at = from /\ sweep' = [sweep EXCEPT !.at = to] /\ sweep \in Sweeps
  BY SweepFields DEF Sweep
<1>2. sweep' \in Sweeps /\ sweep'.at = to /\ sweep'.doomed = sweep.doomed
  BY <1>1 DEF Sweeps
<1> QED
  BY <1>1, <1>2 DEF NoSweep, Sweeps

-----------------------------------------------------------------------------
LEMMA CatalogInvInit == DorisCatalogInit => CatalogInv
<1> SUFFICES ASSUME DorisCatalogInit PROVE CatalogInv
  OBVIOUS
<1>1. DorisTyped
  BY DEF DorisCatalogInit, DorisTyped, Digest
<1>2. \A t \in Threads : job[t].at = "idle" /\ job[t] \notin CommitJobs
  BY DEF DorisCatalogInit, NoJob, CommitJobs, InLockAt
<1>3. LockHeld /\ (\A t \in Threads : JobFits(job[t]))
  BY <1>2 DEF LockHeld, InLock, InLockAt, JobFits
<1>4. Rows = {} /\ sweep.at = "idle" /\ sweep = NoSweep
  BY DEF DorisCatalogInit, Rows, NoSweep
<1>5. NumbersDiffer /\ HandMet /\ SweptBehind
  BY <1>4 DEF NumbersDiffer, HandMet, SweptBehind
<1>6. DorisCatalogResolves /\ LatestUnlessCut
  BY <1>4 DEF DorisCatalogResolves, LatestUnlessCut, DorisCatalogInit
<1> QED
  BY <1>1, <1>3, <1>5, <1>6 DEF CatalogInv

LEMMA VersionRows ==
  ASSUME DorisTyped
  PROVE  /\ \A c \in Contents : versionRow[c] \in Nat \cup {-1}
         /\ \A c : c \in Rows <=> c \in Contents /\ versionRow[c] \in Nat
         /\ \A c \in Contents : c \notin Rows <=> versionRow[c] = -1
BY DEF DorisTyped, Rows

\* The row that InsertVersion adds.
LEMMA InsertedVersion ==
  ASSUME CatalogInv, NEW t \in Threads, InsertVersion(t)
  PROVE  /\ Moved(t, "aliases") /\ Same(t) /\ job[t].at = "inserting" /\ job[t].n \in Nat
         /\ job[t].content \in Contents /\ versionRow[job[t].content] = -1
         /\ versionRow' = [versionRow EXCEPT ![job[t].content] = job[t].n]
         /\ versionRow'[job[t].content] = job[t].n
         /\ \A c \in Contents : versionRow[c] < job[t].n
         /\ \A c \in Contents \ {job[t].content} : versionRow'[c] = versionRow[c]
         /\ Rows' = Rows \cup {job[t].content}
<1>1. DorisTyped /\ JobFits(job[t]) /\ Step(t, "inserting", "aliases")
      /\ versionRow' = [versionRow EXCEPT ![job[t].content] = job[t].n]
  BY DEF CatalogInv, InsertVersion
<1>2. Moved(t, "aliases") /\ Same(t) /\ job[t].at = "inserting"
  BY <1>1, StepMoves DEF InLockAt
<1>3. job[t] \in CommitJobs /\ job[t].content \in Contents /\ job[t].n \in Nat \cup {-1}
  BY <1>2 DEF Moved, CommitJobs
<1>4. versionRow[job[t].content] = -1 /\ \A c \in Contents : versionRow[c] < job[t].n
  BY <1>1, <1>2 DEF JobFits
<1>5. job[t].n \in Nat
  BY <1>3, <1>4
<1>6. /\ versionRow'[job[t].content] = job[t].n
      /\ \A c \in Contents \ {job[t].content} : versionRow'[c] = versionRow[c]
  BY <1>1, <1>3 DEF DorisTyped
<1>7. Rows' = Rows \cup {job[t].content}
  BY <1>3, <1>5, <1>6 DEF Rows
<1> QED
  BY <1>1, <1>2, <1>3, <1>4, <1>5, <1>6, <1>7

\* The alias that InsertAlias sets, or leaves.
LEMMA InsertedAlias ==
  ASSUME CatalogInv, NEW t \in Threads, InsertAlias(t)
  PROVE  LET a == job[t].todo[1]
             row == [of |-> job[t].content, n |-> job[t].n]
         IN /\ a \in DorisAliases /\ row \in [of : Contents, n : Nat] /\ row # NoRow
            /\ job[t].content \in met \/ versionRow[job[t].content] = job[t].n
            /\ aliasRow' \in [DorisAliases -> [of : Contents, n : Nat] \cup {NoRow}]
            /\ aliasRow'[a] = row \/ (aliasRow'[a] = aliasRow[a] /\ aliasRow[a] # NoRow)
            /\ \A b \in DorisAliases \ {a} : aliasRow'[b] = aliasRow[b]
            /\ unlatest' = (unlatest /\ a # "latest")
<1> DEFINE a == job[t].todo[1]
           row == [of |-> job[t].content, n |-> job[t].n]
<1>1. /\ DorisTyped /\ JobFits(job[t]) /\ job[t].at = "aliases" /\ Moved(t, "aliases")
      /\ Head(job[t].todo) = a /\ a \in DorisAliases
  BY AliasMoves DEF CatalogInv
<1>2. job[t] \in CommitJobs /\ job[t].content \in Contents /\ job[t].n \in Nat
      /\ (job[t].content \in met \/ versionRow[job[t].content] = job[t].n)
  BY <1>1 DEF JobFits, Moved, CommitJobs
<1>3. row \in [of : Contents, n : Nat] /\ row # NoRow
  <2>1. row.n = job[t].n /\ NoRow.n = -1
    BY DEF NoRow
  <2> QED
    BY <1>2, <2>1
<1>4. /\ aliasRow' = IF StaysNewer(a, job[t].n) THEN aliasRow ELSE [aliasRow EXCEPT ![a] = row]
      /\ unlatest' = (unlatest /\ a # "latest")
  BY <1>1 DEF InsertAlias
<1>5. StaysNewer(a, job[t].n) => aliasRow[a] # NoRow
  BY <1>2 DEF StaysNewer, NoRow
<1> HIDE DEF row, a
<1> QED
  BY <1>1, <1>2, <1>3, <1>4, <1>5 DEF DorisTyped, row, a

LEMMA MetGrows == [DorisCatalogNext]_dorisCatalogVars => met \subseteq met'
BY DEF DorisCatalogNext, CommitStep, UseStep, SweepStep, dorisCatalogVars, BeginCommit,
       EnterCommit, InsertArtifact, LookUpVersion, NumberVersion, InsertVersion, InsertAlias,
       InsertOutputLink, CutCommit, BeginUse, InsertInputLink, BeginSweep, UnlinkRun,
       ReadDoomed, CheckLinks, DeleteAliases, DeleteVersions, DeleteArtifact, ReadRetained,
       DeleteStored, CutSweep, CutServer, DeleteRunLinks

LEMMA NextTyped == CatalogInv /\ [DorisCatalogNext]_dorisCatalogVars => DorisTyped'
<1> SUFFICES ASSUME CatalogInv, [DorisCatalogNext]_dorisCatalogVars
             PROVE  DorisTyped'
  OBVIOUS
<1>0. DorisTyped /\ (\A t \in Threads : JobFits(job[t]))
  BY DEF CatalogInv
<1>1. CASE UNCHANGED dorisCatalogVars
  BY <1>0, <1>1 DEF DorisTyped, dorisCatalogVars
<1>2. ASSUME NEW t \in Threads, NEW r \in Producers, NEW c \in Contents, BeginCommit(t, r, c)
      PROVE  DorisTyped'
  <2>1. BlobsOf[c] \subseteq Digest(Contents)
    BY DEF Digest
  <2> QED
    BY <1>0, <1>2, <2>1, BeginMoves DEF DorisTyped, BeginCommit, Taken, Jobs, catalogTables
<1>3. ASSUME NEW t \in Threads, EnterCommit(t)
      PROVE  DorisTyped'
  <2>1. Moved(t, "looking") \/ Moved(t, "artifact")
    BY <1>0, <1>3, StepMoves DEF EnterCommit, InLockAt
  <2> QED
    BY <1>0, <1>3, <2>1 DEF DorisTyped, EnterCommit, Moved, Jobs, catalogTables
<1>4. ASSUME NEW t \in Threads, InsertArtifact(t)
      PROVE  DorisTyped'
  BY <1>0, <1>4, StepMoves DEF DorisTyped, InsertArtifact, InLockAt, Moved, Jobs
<1>5. ASSUME NEW t \in Threads, LookUpVersion(t)
      PROVE  DorisTyped'
  <2>1. Moved(t, "aliases") \/ Moved(t, "numbering")
    BY <1>0, <1>5, LookUpMoves
  <2> QED
    BY <1>0, <1>5, <2>1 DEF DorisTyped, LookUpVersion, Moved, Jobs, catalogTables
<1>6. ASSUME NEW t \in Threads, NumberVersion(t)
      PROVE  DorisTyped'
  BY <1>0, <1>6, NumberMoves DEF DorisTyped, NumberVersion, Moved, Jobs, catalogTables
<1>7. ASSUME NEW t \in Threads, InsertVersion(t)
      PROVE  DorisTyped'
  BY <1>0, <1>7, InsertedVersion DEF DorisTyped, InsertVersion, Moved, Jobs
<1>8. ASSUME NEW t \in Threads, InsertAlias(t)
      PROVE  DorisTyped'
  <2>1. UNCHANGED <<artifactRow, versionRow, linkRow, stored, holder, sweep>>
    BY <1>8 DEF InsertAlias
  <2>2. Moved(t, "aliases")
    BY <1>0, <1>8, AliasMoves
  <2>3. unlatest' \in BOOLEAN /\ aliasRow' \in [DorisAliases -> [of : Contents, n : Nat] \cup {NoRow}]
    BY <1>8, InsertedAlias
  <2> QED
    BY <1>0, <2>1, <2>2, <2>3 DEF DorisTyped, Moved, Jobs
<1>9. ASSUME NEW t \in Threads, InsertOutputLink(t) \/ InsertInputLink(t)
      PROVE  DorisTyped'
  <2>1. job[t].at \in {"aliases", "linking"} /\ job[t] \in Jobs /\ job[t] # NoJob
    BY <1>0, <1>9 DEF InsertOutputLink, InsertInputLink, DorisTyped, NoJob, Jobs
  <2>2. job[t].run \in Producers /\ job[t].content \in Contents
    BY <2>1, JobKinds
  <2>3. Ended({t})
    BY <1>0, <1>9, EndMoves DEF InsertOutputLink, InsertInputLink
  <2> QED
    BY <1>0, <1>9, <2>2, <2>3 DEF DorisTyped, InsertOutputLink, InsertInputLink, Ended, Jobs
<1>10. ASSUME NEW T \in SUBSET Threads, CutJobs(T), sweep' \in {sweep, NoSweep},
              UNCHANGED <<catalogTables, stored>>
       PROVE  DorisTyped'
  BY <1>0, <1>10, CutMoves DEF DorisTyped, CutJobs, Ended, Jobs, catalogTables
<1>11. ASSUME NEW t \in Threads, CutCommit(t)
       PROVE  DorisTyped'
  BY <1>10, <1>11 DEF CutCommit
<1>12. CASE CutServer
  BY <1>10, <1>12 DEF CutServer
<1>13. ASSUME NEW t \in Threads, NEW r \in Producers, NEW c \in Contents, BeginUse(t, r, c)
       PROVE  DorisTyped'
  BY <1>0, <1>13, UseMoves DEF DorisTyped, BeginUse, Taken, Jobs, catalogTables
<1>14. ASSUME NEW r \in Producers, DeleteRunLinks(r)
       PROVE  DorisTyped'
  BY <1>0, <1>14 DEF DorisTyped, DeleteRunLinks
<1>15. ASSUME NEW R \in SUBSET Producers, BeginSweep(R)
       PROVE  DorisTyped'
  <2>1. sweep' \in Sweeps
    BY <1>15 DEF BeginSweep, Sweeps, Rows
  <2> QED
    BY <1>0, <1>15, <2>1 DEF DorisTyped, BeginSweep, catalogTables
<1>16. CASE UnlinkRun
  <2>1. sweep \in Sweeps /\ sweep' \in Sweeps
    BY <1>0, <1>16, SweepFields DEF UnlinkRun, Sweeps
  <2> QED
    BY <1>0, <1>16, <2>1 DEF DorisTyped, UnlinkRun
<1>17. CASE ReadDoomed \/ CheckLinks
  <2>1. sweep' \in Sweeps \cup {NoSweep}
    BY <1>0, <1>17, SweepMoves DEF ReadDoomed, CheckLinks
  <2> QED
    BY <1>0, <1>17, <2>1 DEF DorisTyped, ReadDoomed, CheckLinks, catalogTables
<1>18. CASE DeleteAliases
  <2>1. sweep' \in Sweeps
    BY <1>0, <1>18, SweepMoves DEF DeleteAliases
  <2> QED
    BY <1>0, <1>18, <2>1 DEF DorisTyped, DeleteAliases
<1>19. CASE DeleteVersions
  <2>1. sweep' \in Sweeps
    BY <1>0, <1>19, SweepMoves DEF DeleteVersions
  <2> QED
    BY <1>0, <1>19, <2>1 DEF DorisTyped, DeleteVersions
<1>20. CASE DeleteArtifact
  <2>1. sweep' \in Sweeps
    BY <1>0, <1>20, SweepMoves DEF DeleteArtifact
  <2> QED
    BY <1>0, <1>20, <2>1 DEF DorisTyped, DeleteArtifact
<1>21. CASE ReadRetained
  <2>1. sweep \in Sweeps
    BY <1>0, <1>21, SweepFields DEF ReadRetained
  <2>2. Digest(sweep.doomed) \subseteq Digest(Contents)
    BY <2>1 DEF Sweeps, Digest
  <2>3. sweep' \in Sweeps
    BY <1>21, <2>1, <2>2 DEF ReadRetained, Sweeps
  <2> QED
    BY <1>0, <1>21, <2>3 DEF DorisTyped, ReadRetained, catalogTables
<1>22. CASE DeleteStored
  <2>1. sweep \in Sweeps
    BY <1>0, <1>22, SweepFields DEF DeleteStored
  <2>2. sweep' \in Sweeps \cup {NoSweep} /\ stored' \subseteq stored
    BY <1>22, <2>1 DEF DeleteStored, Sweeps
  <2> QED
    BY <1>0, <1>22, <2>2 DEF DorisTyped, DeleteStored, catalogTables
<1>23. CASE CutSweep
  BY <1>0, <1>23 DEF DorisTyped, CutSweep, catalogTables
<1> QED
  BY <1>1, <1>2, <1>3, <1>4, <1>5, <1>6, <1>7, <1>8, <1>9, <1>11, <1>12, <1>13, <1>14, <1>15,
     <1>16, <1>17, <1>18, <1>19, <1>20, <1>21, <1>22, <1>23
     DEF DorisCatalogNext, CommitStep, UseStep, SweepStep

LEMMA EnterMoves ==
  ASSUME DorisTyped, NEW t \in Threads, EnterCommit(t)
  PROVE  /\ Moved(t, IF artifactRow THEN "looking" ELSE "artifact") /\ Same(t)
         /\ job[t].at = "waiting" /\ holder = NoThread /\ holder' = t
<1>1. CASE artifactRow
  BY <1>1, StepMoves DEF EnterCommit, InLockAt
<1>2. CASE ~artifactRow
  BY <1>2, StepMoves DEF EnterCommit, InLockAt
<1> QED
  BY <1>1, <1>2

\* The steps that leave the requests and the lock alone.
LEMMA SweepQuiet ==
  ASSUME \/ UnlinkRun \/ ReadDoomed \/ CheckLinks \/ DeleteAliases \/ DeleteVersions
         \/ DeleteArtifact \/ ReadRetained \/ DeleteStored \/ CutSweep
         \/ \E R \in (SUBSET Producers) \ {{}} : BeginSweep(R)
         \/ \E r \in Producers : DeleteRunLinks(r)
         \/ UNCHANGED dorisCatalogVars
  PROVE  job' = job /\ holder' = holder
BY DEF UnlinkRun, ReadDoomed, CheckLinks, DeleteAliases, DeleteVersions, DeleteArtifact,
       ReadRetained, DeleteStored, CutSweep, BeginSweep, DeleteRunLinks, dorisCatalogVars

\* _artifact_lock: one commit at a time is between its first and last statement.
LEMMA NextLock == CatalogInv /\ [DorisCatalogNext]_dorisCatalogVars => LockHeld'
<1> SUFFICES ASSUME CatalogInv, [DorisCatalogNext]_dorisCatalogVars
             PROVE  LockHeld'
  OBVIOUS
<1>0. DorisTyped /\ LockHeld
  BY DEF CatalogInv
<1>1. CASE job' = job /\ holder' = holder
  BY <1>0, <1>1 DEF LockHeld
<1>2. ASSUME NEW t \in Threads, holder' = holder, InLock(job[t]),
             \A u \in Threads \ {t} : job'[u] = job[u]
      PROVE  LockHeld'
  BY <1>0, <1>2 DEF LockHeld, InLock
<1>3. ASSUME NEW t \in Threads, holder' = holder, ~InLock(job'[t]),
             \A u \in Threads \ {t} : job'[u] = job[u]
      PROVE  LockHeld'
  BY <1>0, <1>3 DEF LockHeld, InLock
<1>4. ASSUME NEW t \in Threads, EnterCommit(t)
      PROVE  LockHeld'
  <2>1. \A u \in Threads : ~InLock(job[u])
    BY <1>0, <1>4, EnterMoves, DorisCatalogAssumption DEF LockHeld
  <2> QED
    BY <1>0, <1>4, <2>1, EnterMoves DEF LockHeld, InLock, Moved
<1>5. ASSUME NEW t \in Threads, InsertArtifact(t) \/ LookUpVersion(t) \/ NumberVersion(t)
                                \/ InsertVersion(t) \/ InsertAlias(t)
      PROVE  LockHeld'
  <2>1. holder' = holder
    BY <1>5 DEF InsertArtifact, LookUpVersion, NumberVersion, InsertVersion, InsertAlias
  <2>2. InLock(job[t])
    BY <1>5 DEF InsertArtifact, LookUpVersion, NumberVersion, InsertVersion, InsertAlias,
                Step, InLock, InLockAt
  <2>3. InsertArtifact(t) => Moved(t, "looking")
    BY <1>0, StepMoves DEF InsertArtifact, InLockAt
  <2>4. \A u \in Threads \ {t} : job'[u] = job[u]
    BY <1>0, <1>5, <2>3, LookUpMoves, NumberMoves, InsertedVersion, AliasMoves DEF Moved
  <2> QED
    BY <1>2, <2>1, <2>2, <2>4
<1>6. ASSUME NEW t \in Threads, InsertOutputLink(t)
      PROVE  LockHeld'
  <2>1. InLock(job[t]) /\ Ended({t})
    BY <1>0, <1>6, EndMoves DEF InsertOutputLink, InLock, InLockAt
  <2>2. \A u \in Threads \ {t} : ~InLock(job[u])
    BY <1>0, <2>1 DEF LockHeld
  <2> QED
    BY <2>1, <2>2 DEF LockHeld, InLock, InLockAt, Ended, NoJob
<1>7. ASSUME NEW t \in Threads, InsertInputLink(t)
      PROVE  LockHeld'
  BY <1>0, <1>3, <1>7, EndMoves DEF InsertInputLink, InLock, InLockAt, Ended, NoJob
<1>8. ASSUME NEW t \in Threads, NEW r \in Producers, NEW c \in Contents,
             BeginCommit(t, r, c) \/ BeginUse(t, r, c)
      PROVE  LockHeld'
  <2>1. Taken(t) /\ job'[t].at \in {"waiting", "linking"}
    BY <1>0, <1>8, BeginMoves, UseMoves
  <2>2. holder' = holder
    BY <1>8 DEF BeginCommit, BeginUse
  <2> QED
    BY <1>3, <2>1, <2>2 DEF Taken, InLock, InLockAt
<1>9. ASSUME NEW T \in SUBSET Threads, CutJobs(T)
      PROVE  LockHeld'
  <2>1. Ended(T) /\ holder' = IF holder \in T THEN NoThread ELSE holder
    BY <1>0, <1>9, CutMoves DEF CutJobs
  <2>2. \A u \in T : ~InLock(job'[u])
    BY <2>1 DEF Ended, InLock, InLockAt, NoJob
  <2> QED
    BY <1>0, <2>1, <2>2 DEF LockHeld, InLock, Ended
<1>10. ASSUME NEW t \in Threads, CutCommit(t)
       PROVE  LockHeld'
  BY <1>9, <1>10 DEF CutCommit
<1>11. CASE CutServer
  BY <1>9, <1>11 DEF CutServer
<1> QED
  BY <1>1, <1>4, <1>5, <1>6, <1>7, <1>8, <1>10, <1>11, SweepQuiet
     DEF DorisCatalogNext, CommitStep, UseStep, SweepStep

LEMMA VersionsChange ==
  ASSUME CatalogInv, [DorisCatalogNext]_dorisCatalogVars
  PROVE  \/ versionRow' = versionRow
         \/ \E t \in Threads : InsertVersion(t)
         \/ DeleteVersions
BY DEF DorisCatalogNext, CommitStep, UseStep, SweepStep, dorisCatalogVars, BeginCommit,
       EnterCommit, InsertArtifact, LookUpVersion, NumberVersion, InsertAlias,
       InsertOutputLink, CutCommit, BeginUse, InsertInputLink, BeginSweep, UnlinkRun,
       ReadDoomed, CheckLinks, DeleteAliases, DeleteArtifact, ReadRetained,
       DeleteStored, CutSweep, CutServer, DeleteRunLinks, catalogTables

LEMMA DeletedVersions ==
  ASSUME CatalogInv, DeleteVersions
  PROVE  /\ sweep \in Sweeps /\ sweep # NoSweep /\ sweep.at = "versions"
         /\ \A c \in Contents : versionRow'[c] = IF c \in sweep.doomed THEN -1 ELSE versionRow[c]
         /\ Rows' = Rows \ sweep.doomed
<1>1. /\ sweep \in Sweeps /\ sweep # NoSweep /\ sweep.at = "versions"
  BY SweepMoves DEF CatalogInv, DeleteVersions
<1>2. \A c \in Contents : versionRow'[c] = IF c \in sweep.doomed THEN -1 ELSE versionRow[c]
  BY DEF DeleteVersions
<1> QED
  BY <1>1, <1>2 DEF Rows

LEMMA NextNumbersDiffer == CatalogInv /\ [DorisCatalogNext]_dorisCatalogVars => NumbersDiffer'
<1> SUFFICES ASSUME CatalogInv, [DorisCatalogNext]_dorisCatalogVars
             PROVE  NumbersDiffer'
  OBVIOUS
<1>0. DorisTyped /\ NumbersDiffer
  BY DEF CatalogInv
<1>1. CASE versionRow' = versionRow
  BY <1>0, <1>1 DEF NumbersDiffer, Rows
<1>2. ASSUME NEW t \in Threads, InsertVersion(t)
      PROVE  NumbersDiffer'
  <2>1. \A c \in Rows : c \in Contents /\ versionRow[c] < job[t].n /\ c # job[t].content
        /\ versionRow'[c] = versionRow[c]
    BY <1>0, <1>2, InsertedVersion, VersionRows
  <2>2. \A c \in Rows : versionRow'[c] # job[t].n
    BY <1>0, <1>2, <2>1, InsertedVersion, VersionRows
  <2> QED
    BY <1>0, <1>2, <2>1, <2>2, InsertedVersion DEF NumbersDiffer
<1>3. CASE DeleteVersions
  BY <1>0, <1>3, DeletedVersions DEF NumbersDiffer, Rows
<1> QED
  BY <1>1, <1>2, <1>3, VersionsChange

\* A request that another step passes by.
LEMMA StayFits ==
  ASSUME DorisTyped, NEW u \in Threads, job[u] \in Jobs, JobFits(job[u]), job'[u] = job[u],
         met \subseteq met',
         job[u] \in CommitJobs => job[u].content \in met' \/ stored \subseteq stored',
         job[u] \in CommitJobs => "artifact" \in met' \/ (artifactRow => artifactRow'),
         job[u].at = "linking" =>
            \/ job[u].content \in met'
            \/ job[u].content \in Rows => job[u].content \in Rows',
         InLock(job[u]) =>
            /\ \A c \in Contents : /\ versionRow'[c] = versionRow[c] \/ versionRow'[c] = -1
                                   /\ c = job[u].content =>
                                         versionRow'[c] = versionRow[c] \/ c \in met'
            /\ aliasRow'["latest"] = NoRow =>
                  unlatest' \/ (aliasRow["latest"] = NoRow /\ ~unlatest)
  PROVE  JobFits(job[u])'
<1> DEFINE j == job[u]
<1>1. /\ j \in CommitJobs <=> j.at \in {"waiting"} \cup InLockAt
      /\ j.at # "idle" => j.content \in Contents
      /\ j \in CommitJobs => j.n \in Nat \cup {-1}
  BY JobKinds
<1>2. j \in CommitJobs => j.content \in met' \/ BlobsOf[j.content] \subseteq stored'
  BY DEF JobFits
<1>3. j.at \in {"looking", "numbering", "inserting"} => artifactRow' \/ "artifact" \in met'
  BY <1>1 DEF JobFits, InLockAt
<1>4. j.at \in {"waiting", "artifact", "looking"} => ~j.created
  BY DEF JobFits
<1>5. j.at \in {"numbering", "inserting"} =>
          /\ j.created
          /\ versionRow'[j.content] = -1
          /\ \E i \in 1 .. Len(j.todo) : j.todo[i] = "latest"
  BY <1>1 DEF JobFits, InLock, InLockAt
<1>6. j.at = "inserting" => \A c \in Contents : versionRow'[c] < j.n
  <2> SUFFICES ASSUME j.at = "inserting", NEW c \in Contents PROVE versionRow'[c] < j.n
    OBVIOUS
  <2>1. versionRow[c] \in Nat \cup {-1} /\ j.n \in Nat \cup {-1} /\ versionRow[c] < j.n
    BY <1>1, VersionRows DEF JobFits, InLockAt
  <2> QED
    BY <2>1 DEF InLock, InLockAt
<1>7. j.at = "aliases" =>
          /\ j.n >= 0
          /\ j.content \in met' \/ versionRow'[j.content] = j.n
  BY <1>1 DEF JobFits, InLock, InLockAt
<1>8. j.at = "aliases" /\ j.created /\ aliasRow'["latest"] = NoRow =>
                unlatest' \/ \E i \in 1 .. Len(j.todo) : j.todo[i] = "latest"
  BY DEF JobFits, InLock, InLockAt
<1>9. j.at = "linking" => j.content \in met' \/ j.content \in Rows'
  BY DEF JobFits
<1> HIDE DEF j
<1>10. job'[u] = j
  BY DEF j
<1> QED
  BY <1>2, <1>3, <1>4, <1>5, <1>6, <1>7, <1>8, <1>9, <1>10 DEF JobFits

\* Steps that change none of what a request relies on.
LEMMA QuietFits ==
  ASSUME CatalogInv, NEW u \in Threads, job'[u] = job[u], met \subseteq met',
         UNCHANGED <<artifactRow, versionRow, aliasRow>>, stored \subseteq stored',
         unlatest => unlatest'
  PROVE  JobFits(job[u])'
<1>1. DorisTyped /\ JobFits(job[u]) /\ job[u] \in Jobs
  BY DEF CatalogInv, DorisTyped, Jobs
<1>2. Rows' = Rows
  BY DEF Rows
<1> QED
  BY <1>1, <1>2, StayFits DEF DorisTyped

LEMMA NextJobsFit ==
  ASSUME CatalogInv, [DorisCatalogNext]_dorisCatalogVars, NEW u \in Threads
  PROVE  JobFits(job[u])'
<1> DEFINE Fits == JobFits(job[u])'
<1>0. /\ DorisTyped /\ LockHeld /\ JobFits(job[u]) /\ job[u] \in Jobs
      /\ (\A t \in Threads : JobFits(job[t]) /\ job[t] \in Jobs)
      /\ met \subseteq met'
  BY MetGrows DEF CatalogInv, DorisTyped, Jobs
<1>i. ASSUME job'[u] = NoJob
      PROVE  Fits
  BY <1>i DEF JobFits, NoJob, CommitJobs, InLockAt
<1>o. ASSUME NEW t \in Threads \ {u}, InLock(job[t])
      PROVE  ~InLock(job[u])
  BY <1>0, <1>o DEF LockHeld
<1>1. CASE UNCHANGED dorisCatalogVars
  BY <1>1, QuietFits DEF dorisCatalogVars
<1>2. ASSUME NEW t \in Threads, NEW r \in Producers, NEW c \in Contents, BeginCommit(t, r, c)
      PROVE  Fits
  <2>1. CASE u # t
    BY <1>0, <1>2, <2>1, BeginMoves, QuietFits DEF BeginCommit, catalogTables, Taken
  <2>2. CASE u = t
    <3>1. BlobsOf[c] \subseteq stored'
      BY <1>2 DEF BeginCommit
    <3>2. job'[u].at = "waiting" /\ job'[u].content = c /\ ~job'[u].created
      BY <1>0, <1>2, <2>2, BeginMoves
    <3> QED
      BY <3>1, <3>2 DEF JobFits
  <2> QED
    BY <2>1, <2>2
<1>3. ASSUME NEW t \in Threads, EnterCommit(t)
      PROVE  Fits
  <2>0. /\ UNCHANGED <<artifactRow, versionRow, aliasRow, stored, met, unlatest>>
        /\ Moved(t, IF artifactRow THEN "looking" ELSE "artifact") /\ Same(t)
        /\ job[t].at = "waiting"
    BY <1>0, <1>3, EnterMoves DEF EnterCommit, catalogTables
  <2>1. CASE u # t
    BY <2>0, <2>1, QuietFits DEF Moved
  <2>2. CASE u = t
    BY <1>0, <2>0, <2>2 DEF JobFits, Moved, Same
  <2> QED
    BY <2>1, <2>2
<1>4. ASSUME NEW t \in Threads, InsertArtifact(t)
      PROVE  Fits
  <2>0. /\ UNCHANGED <<versionRow, aliasRow, stored, met, unlatest>> /\ artifactRow' = TRUE
        /\ Moved(t, "looking") /\ Same(t) /\ job[t].at = "artifact"
    BY <1>0, <1>4, StepMoves DEF InsertArtifact, InLockAt
  <2>1. CASE u # t
    <3>1. Rows' = Rows
      BY <2>0 DEF Rows
    <3> QED
      BY <1>0, <2>0, <2>1, <3>1, StayFits DEF Moved, DorisTyped
  <2>2. CASE u = t
    BY <1>0, <2>0, <2>2 DEF JobFits, Moved, Same
  <2> QED
    BY <2>1, <2>2
<1>5. ASSUME NEW t \in Threads, LookUpVersion(t)
      PROVE  Fits
  <2>0. /\ UNCHANGED <<artifactRow, versionRow, aliasRow, stored, met, unlatest>>
        /\ job[t].at = "looking"
        /\ job[t] \in CommitJobs /\ job[t].content \in Contents
        /\ job'[t].content = job[t].content
        /\ \A v \in Threads \ {t} : job'[v] = job[v]
    BY <1>0, <1>5, LookUpMoves, VersionRows, JobKinds DEF LookUpVersion, catalogTables, Moved, NoJob
  <2>1. CASE u # t
    BY <2>0, <2>1, QuietFits
  <2>2. CASE u = t /\ versionRow[job[t].content] >= 0
    <3>1. /\ job'[u].at = "aliases" /\ job'[u].n = versionRow[job[u].content]
          /\ job'[u].created = job[u].created
      BY <1>0, <1>5, <2>2, LookUpMoves DEF Moved
    <3>2. ~job'[u].created /\ (job[u].content \in met \/ BlobsOf[job[u].content] \subseteq stored)
      BY <1>0, <2>0, <2>2, <3>1 DEF JobFits
    <3> QED
      BY <2>0, <2>2, <3>1, <3>2 DEF JobFits
  <2>3. CASE u = t /\ ~(versionRow[job[t].content] >= 0)
    <3>1. /\ job'[u].at = "numbering" /\ job'[u].created /\ versionRow[job[u].content] = -1
          /\ \E i \in 1 .. Len(job'[u].todo) : job'[u].todo[i] = "latest"
      BY <1>0, <1>5, <2>3, LookUpMoves DEF Moved
    <3> QED
      BY <1>0, <2>0, <2>3, <3>1 DEF JobFits
  <2> QED
    BY <2>1, <2>2, <2>3
<1>6. ASSUME NEW t \in Threads, NumberVersion(t)
      PROVE  Fits
  <2>0. /\ UNCHANGED <<artifactRow, versionRow, aliasRow, stored, met, unlatest>>
        /\ job[t].at = "numbering" /\ Moved(t, "inserting") /\ job'[t].todo = job[t].todo
        /\ job'[t].created = job[t].created
        /\ \A c \in Contents : versionRow[c] < job'[t].n
    BY <1>0, <1>6, NumberMoves DEF NumberVersion, catalogTables
  <2>1. CASE u # t
    BY <2>0, <2>1, QuietFits DEF Moved
  <2>2. CASE u = t
    BY <1>0, <2>0, <2>2 DEF JobFits, Moved
  <2> QED
    BY <2>1, <2>2
<1>7. ASSUME NEW t \in Threads, InsertVersion(t)
      PROVE  Fits
  <2>0. /\ UNCHANGED <<artifactRow, aliasRow, stored, met, unlatest>>
        /\ Moved(t, "aliases") /\ Same(t) /\ job[t].at = "inserting"
        /\ versionRow'[job[t].content] = job[t].n /\ job[t].n \in Nat
        /\ Rows' = Rows \cup {job[t].content}
    BY <1>7, InsertedVersion DEF InsertVersion
  <2>1. CASE u # t
    <3>1. ~InLock(job[u])
      BY <1>o, <2>0, <2>1 DEF InLock, InLockAt
    <3> QED
      BY <1>0, <2>0, <2>1, <3>1, StayFits DEF Moved
  <2>2. CASE u = t
    BY <1>0, <2>0, <2>2 DEF JobFits, Moved, Same
  <2> QED
    BY <2>1, <2>2
<1>8. ASSUME NEW t \in Threads, InsertAlias(t)
      PROVE  Fits
  <2>0. /\ UNCHANGED <<artifactRow, versionRow, stored, met>>
        /\ Moved(t, "aliases") /\ job[t].at = "aliases"
        /\ job'[t].n = job[t].n /\ job'[t].created = job[t].created
    BY <1>0, <1>8, AliasMoves DEF InsertAlias
  <2>1. CASE u # t
    <3>1. ~InLock(job[u]) /\ Rows' = Rows
      BY <1>o, <2>0, <2>1 DEF InLock, InLockAt, Rows
    <3> QED
      BY <1>0, <2>0, <2>1, <3>1, StayFits DEF Moved
  <2>2. CASE u = t
    <3>1. ASSUME job[u].created, aliasRow'["latest"] = NoRow
          PROVE  unlatest' \/ \E i \in 1 .. Len(job'[u].todo) : job'[u].todo[i] = "latest"
      <4> DEFINE a == job[u].todo[1]
      <4>1. "latest" \in DorisAliases
        BY DEF DorisAliases
      <4>2. a # "latest" /\ aliasRow["latest"] = NoRow /\ unlatest' = unlatest
        <5>1. /\ aliasRow'[a] # NoRow
              /\ \A b \in DorisAliases \ {a} : aliasRow'[b] = aliasRow[b]
              /\ unlatest' = (unlatest /\ a # "latest")
          BY <1>8, <2>2, InsertedAlias
        <5>2. unlatest \in BOOLEAN
          BY <1>0 DEF DorisTyped
        <5> QED
          BY <3>1, <4>1, <5>1, <5>2
      <4>3. CASE unlatest
        BY <4>2, <4>3
      <4>4. CASE ~unlatest
        <5>1. PICK i \in 1 .. Len(job[u].todo) : job[u].todo[i] = "latest"
          BY <1>0, <2>0, <2>2, <3>1, <4>2, <4>4 DEF JobFits
        <5>2. i \in 2 .. Len(job[u].todo)
          BY <4>2, <5>1
        <5>3. i - 1 \in 1 .. Len(job'[u].todo) /\ job'[u].todo[i - 1] = "latest"
          BY <1>0, <1>8, <2>2, <5>1, <5>2, AliasMoves
        <5> QED
          BY <5>3
      <4> QED
        BY <4>3, <4>4
    <3> QED
      BY <1>0, <2>0, <2>2, <3>1 DEF JobFits, Moved
  <2> QED
    BY <2>1, <2>2
<1>9. ASSUME NEW t \in Threads, InsertOutputLink(t) \/ InsertInputLink(t)
      PROVE  Fits
  <2>1. Ended({t}) /\ UNCHANGED <<artifactRow, versionRow, aliasRow, stored, met, unlatest>>
    BY <1>0, <1>9, EndMoves DEF InsertOutputLink, InsertInputLink
  <2> QED
    BY <1>i, <2>1, QuietFits DEF Ended
<1>10. ASSUME NEW T \in SUBSET Threads, CutJobs(T), UNCHANGED <<catalogTables, stored, met>>
       PROVE  Fits
  <2>1. Ended(T) /\ UNCHANGED <<artifactRow, versionRow, aliasRow, stored>>
        /\ (unlatest => unlatest')
    BY <1>0, <1>10, CutMoves DEF CutJobs, catalogTables
  <2> QED
    BY <1>0, <1>i, <2>1, QuietFits DEF Ended
<1>11. ASSUME NEW t \in Threads, CutCommit(t)
       PROVE  Fits
  BY <1>10, <1>11 DEF CutCommit
<1>12. CASE CutServer
  BY <1>10, <1>12 DEF CutServer
<1>13. ASSUME NEW t \in Threads, NEW r \in Producers, NEW c \in Contents, BeginUse(t, r, c)
       PROVE  Fits
  <2>0. /\ UNCHANGED <<artifactRow, versionRow, aliasRow, stored, unlatest>> /\ c \in Rows
        /\ Taken(t) /\ job'[t] \in UseJobs /\ job'[t].at = "linking" /\ job'[t].content = c
    BY <1>0, <1>13, UseMoves DEF BeginUse, catalogTables
  <2>1. CASE u # t
    BY <1>0, <2>0, <2>1, QuietFits DEF Taken
  <2>2. CASE u = t
    BY <2>0, <2>2 DEF JobFits, UseJobs, CommitJobs, InLockAt, Rows
  <2> QED
    BY <2>1, <2>2
<1>14. CASE \/ UnlinkRun \/ ReadDoomed \/ CheckLinks \/ ReadRetained \/ CutSweep
            \/ \E R \in (SUBSET Producers) \ {{}} : BeginSweep(R)
            \/ \E r \in Producers : DeleteRunLinks(r)
  <2>1. job' = job /\ UNCHANGED <<artifactRow, versionRow, aliasRow, stored, unlatest>>
    BY <1>14 DEF UnlinkRun, ReadDoomed, CheckLinks, ReadRetained, CutSweep, BeginSweep,
                 DeleteRunLinks, catalogTables
  <2> QED
    BY <1>0, <2>1, QuietFits
<1>15. CASE DeleteAliases
  <2>1. /\ UNCHANGED <<artifactRow, versionRow, stored, job, met>> /\ Rows' = Rows
        /\ aliasRow'["latest"] = NoRow => unlatest' \/ (aliasRow["latest"] = NoRow /\ ~unlatest)
    <3>1. "latest" \in DorisAliases
      BY DEF DorisAliases
    <3> QED
      BY <1>0, <1>15, <3>1 DEF DeleteAliases, Rows, DorisTyped
  <2> QED
    BY <1>0, <2>1, StayFits
<1>16. CASE DeleteVersions
  <2>0. UNCHANGED <<artifactRow, aliasRow, stored, job, met, unlatest>>
    BY <1>16 DEF DeleteVersions
  <2>1. \A c \in Contents : /\ versionRow'[c] = IF c \in sweep.doomed THEN -1 ELSE versionRow[c]
                            /\ versionRow'[c] = versionRow[c] \/ versionRow'[c] = -1
    BY <1>16, DeletedVersions
  <2>2. job[u] # NoJob => job[u].content \in met'
    BY <1>16, <2>0, DeletedVersions DEF CatalogInv, HandMet
  <2>3. job[u].at = "linking" => job[u] # NoJob
    BY DEF NoJob
  <2>4. InLock(job[u]) => job[u] # NoJob
    BY DEF NoJob, InLock, InLockAt
  <2> QED
    BY <1>0, <2>0, <2>1, <2>2, <2>3, <2>4, StayFits DEF DorisTyped
<1>17. CASE DeleteArtifact
  <2>0. UNCHANGED <<versionRow, aliasRow, stored, job, met, unlatest>> /\ Rows' = Rows
    BY <1>17 DEF DeleteArtifact, Rows
  <2>1. job[u] \in CommitJobs => "artifact" \in met'
    BY <1>0, <1>17, <2>0, SweepMoves, JobKinds DEF DeleteArtifact, CatalogInv, HandMet, NoJob, InLockAt
  <2> QED
    BY <1>0, <2>0, <2>1, StayFits DEF DorisTyped
<1>18. CASE DeleteStored
  <2>0. UNCHANGED <<artifactRow, versionRow, aliasRow, job, met, unlatest>> /\ Rows' = Rows
    BY <1>18 DEF DeleteStored, Rows, catalogTables
  <2>1. job[u] \in CommitJobs => job[u].content \in met'
    BY <1>0, <1>18, <2>0, SweepFields, JobKinds DEF DeleteStored, CatalogInv, HandMet, NoJob, InLockAt
  <2> QED
    BY <1>0, <2>0, <2>1, StayFits DEF DorisTyped
<1> QED
  BY <1>1, <1>2, <1>3, <1>4, <1>5, <1>6, <1>7, <1>8, <1>9, <1>11, <1>12, <1>13, <1>14, <1>15,
     <1>16, <1>17, <1>18 DEF DorisCatalogNext, CommitStep, UseStep, SweepStep

\* What the other requests do is met by a purge in progress.
LEMMA NextHandMet == CatalogInv /\ [DorisCatalogNext]_dorisCatalogVars => HandMet'
<1> SUFFICES ASSUME CatalogInv, [DorisCatalogNext]_dorisCatalogVars
             PROVE  HandMet'
  OBVIOUS
<1>0. /\ DorisTyped /\ HandMet /\ met \subseteq met'
      /\ \A u \in Threads : job[u] \in Jobs
  BY MetGrows DEF CatalogInv, DorisTyped, Jobs
<1>1. ASSUME sweep' = sweep \/ sweep' = NoSweep \/ sweep # NoSweep,
             \A u \in Threads : job'[u] = job[u] \/ job'[u] = NoJob
      PROVE  HandMet'
  BY <1>0, <1>1 DEF HandMet
<1>2. ASSUME NEW t \in Threads, NEW to, sweep' = sweep, Moved(t, to)
      PROVE  HandMet'
  BY <1>0, <1>2, JobKinds DEF HandMet, Moved, NoJob, InLockAt
<1>3. ASSUME NEW t \in Threads, NEW r \in Producers, NEW c \in Contents, BeginCommit(t, r, c)
      PROVE  HandMet'
  <2>1. /\ sweep' = sweep /\ Taken(t) /\ job'[t].content = c
        /\ sweep # NoSweep => c \in met' /\ "artifact" \in met'
    BY <1>0, <1>3, BeginMoves DEF BeginCommit
  <2> QED
    BY <1>0, <2>1 DEF HandMet, Taken
<1>4. ASSUME NEW t \in Threads, NEW r \in Producers, NEW c \in Contents, BeginUse(t, r, c)
      PROVE  HandMet'
  <2>1. /\ sweep' = sweep /\ Taken(t) /\ job'[t].content = c /\ job'[t] \notin CommitJobs
        /\ sweep # NoSweep => c \in met'
    BY <1>0, <1>4, UseMoves DEF BeginUse, UseJobs, CommitJobs, InLockAt
  <2> QED
    BY <1>0, <2>1 DEF HandMet, Taken
<1>5. ASSUME NEW R \in SUBSET Producers, BeginSweep(R)
      PROVE  HandMet'
  <2>1. job' = job /\ met' = met \cup InHand \cup (IF InHand = {} THEN {} ELSE {"artifact"})
    BY <1>5 DEF BeginSweep
  <2>2. \A u \in Threads : job[u] # NoJob => job[u].content \in InHand
    BY DEF InHand
  <2> QED
    BY <2>1, <2>2 DEF HandMet
<1>6. ASSUME NEW t \in Threads, EnterCommit(t) \/ InsertArtifact(t) \/ LookUpVersion(t)
                                \/ NumberVersion(t) \/ InsertVersion(t) \/ InsertAlias(t)
      PROVE  HandMet'
  <2>1. sweep' = sweep
    BY <1>6 DEF EnterCommit, InsertArtifact, LookUpVersion, NumberVersion, InsertVersion, InsertAlias
  <2>2. InsertArtifact(t) => Moved(t, "looking")
    BY <1>0, StepMoves DEF InsertArtifact, InLockAt
  <2>3. \E to : Moved(t, to)
    BY <1>0, <1>6, <2>2, EnterMoves, LookUpMoves, NumberMoves, InsertedVersion, AliasMoves
  <2> QED
    BY <1>2, <2>1, <2>3
<1>7. ASSUME NEW t \in Threads, InsertOutputLink(t) \/ InsertInputLink(t)
      PROVE  HandMet'
  <2>1. Ended({t}) /\ sweep' = sweep
    BY <1>0, <1>7, EndMoves DEF InsertOutputLink, InsertInputLink
  <2> QED
    BY <1>1, <2>1 DEF Ended
<1>8. ASSUME NEW T \in SUBSET Threads, CutJobs(T), sweep' = sweep \/ sweep' = NoSweep
      PROVE  HandMet'
  BY <1>0, <1>1, <1>8, CutMoves DEF Ended
<1>9. ASSUME NEW t \in Threads, CutCommit(t)
      PROVE  HandMet'
  BY <1>8, <1>9 DEF CutCommit
<1>10. CASE CutServer
  BY <1>8, <1>10 DEF CutServer
<1>11. CASE \/ UnlinkRun \/ ReadDoomed \/ CheckLinks \/ DeleteAliases \/ DeleteVersions
            \/ DeleteArtifact \/ ReadRetained \/ DeleteStored \/ CutSweep
  <2>1. job' = job
    BY <1>11, SweepQuiet
  <2>2. sweep # NoSweep
    BY <1>0, <1>11, SweepFields DEF UnlinkRun, ReadDoomed, CheckLinks, DeleteAliases,
       DeleteVersions, DeleteArtifact, ReadRetained, DeleteStored, CutSweep, Sweep
  <2> QED
    BY <1>1, <2>1, <2>2
<1>12. CASE UNCHANGED dorisCatalogVars \/ \E r \in Producers : DeleteRunLinks(r)
  BY <1>1, <1>12 DEF dorisCatalogVars, DeleteRunLinks
<1> QED
  BY <1>3, <1>4, <1>5, <1>6, <1>7, <1>9, <1>10, <1>11, <1>12
     DEF DorisCatalogNext, CommitStep, UseStep, SweepStep

\* Which steps change what.
LEMMA LinksChange ==
  ASSUME CatalogInv, [DorisCatalogNext]_dorisCatalogVars
  PROVE  \/ linkRow' \subseteq linkRow
         \/ \E t \in Threads : /\ InsertOutputLink(t) \/ InsertInputLink(t)
                               /\ job[t] # NoJob
                               /\ job[t].content \in met \/ job[t].content \in Rows
                               /\ \A l \in linkRow' \ linkRow : l[2] = job[t].content
<1>1. \/ linkRow' \subseteq linkRow
      \/ \E t \in Threads : InsertOutputLink(t) \/ InsertInputLink(t)
  BY DEF DorisCatalogNext, CommitStep, UseStep, SweepStep, dorisCatalogVars, BeginCommit,
       EnterCommit, InsertArtifact, LookUpVersion, NumberVersion, InsertVersion, InsertAlias,
       CutCommit, BeginUse, BeginSweep, UnlinkRun,
       ReadDoomed, CheckLinks, DeleteAliases, DeleteVersions, DeleteArtifact, ReadRetained,
       DeleteStored, CutSweep, CutServer, DeleteRunLinks, catalogTables
<1>2. ASSUME NEW t \in Threads, InsertOutputLink(t) \/ InsertInputLink(t)
      PROVE  /\ job[t] # NoJob
             /\ job[t].content \in met \/ job[t].content \in Rows
             /\ \A l \in linkRow' \ linkRow : l[2] = job[t].content
  <2>1. job[t].at \in {"aliases", "linking"} /\ job[t] \in Jobs /\ JobFits(job[t])
        /\ job[t] # NoJob
    BY <1>2 DEF InsertOutputLink, InsertInputLink, CatalogInv, DorisTyped, Jobs, NoJob
  <2>2. job[t].content \in met \/ job[t].content \in Rows
    BY <2>1, JobKinds DEF JobFits, Rows
  <2> QED
    BY <1>2, <2>1, <2>2 DEF InsertOutputLink, InsertInputLink
<1> QED
  BY <1>1, <1>2

LEMMA AliasesChange ==
  ASSUME CatalogInv, [DorisCatalogNext]_dorisCatalogVars
  PROVE  \/ aliasRow' = aliasRow
         \/ \E t \in Threads : InsertAlias(t)
         \/ DeleteAliases
BY DEF DorisCatalogNext, CommitStep, UseStep, SweepStep, dorisCatalogVars, BeginCommit,
       EnterCommit, InsertArtifact, LookUpVersion, NumberVersion, InsertVersion,
       InsertOutputLink, CutCommit, BeginUse, InsertInputLink, BeginSweep, UnlinkRun,
       ReadDoomed, CheckLinks, DeleteVersions, DeleteArtifact, ReadRetained,
       DeleteStored, CutSweep, CutServer, DeleteRunLinks, catalogTables

LEMMA SweepChanges ==
  ASSUME CatalogInv, [DorisCatalogNext]_dorisCatalogVars
  PROVE  \/ sweep' = sweep \/ sweep' = NoSweep
         \/ sweep'.at \in {"unlinking", "rows", "links", "artifact", "retained"}
         \/ CheckLinks \/ DeleteAliases \/ ReadRetained \/ DeleteStored
<1>0. DorisTyped
  BY DEF CatalogInv
<1>1. ASSUME NEW R, BeginSweep(R)
      PROVE  sweep'.at = "unlinking"
  BY <1>1 DEF BeginSweep
<1>2. UnlinkRun => sweep'.at \in {"unlinking", "rows", "retained"}
  <2>1. UnlinkRun => sweep \in Sweeps
    BY <1>0, SweepFields DEF UnlinkRun
  <2> QED
    BY <2>1 DEF UnlinkRun, Sweeps
<1>3. ReadDoomed => sweep'.at = "links" \/ sweep' = NoSweep
  BY <1>0, SweepMoves DEF ReadDoomed
<1>4. DeleteVersions => sweep'.at = "artifact"
  BY <1>0, SweepMoves DEF DeleteVersions
<1>5. DeleteArtifact => sweep'.at = "retained"
  BY <1>0, SweepMoves DEF DeleteArtifact
<1> HIDE DEF BeginSweep, UnlinkRun, ReadDoomed, DeleteVersions, DeleteArtifact
<1> QED
  BY <1>1, <1>2, <1>3, <1>4, <1>5
     DEF DorisCatalogNext, CommitStep, UseStep, SweepStep, dorisCatalogVars, BeginCommit,
       EnterCommit, InsertArtifact, LookUpVersion, NumberVersion, InsertVersion, InsertAlias,
       InsertOutputLink, CutCommit, BeginUse, InsertInputLink, CutSweep, CutServer, DeleteRunLinks

LEMMA NextSweptBehind == CatalogInv /\ [DorisCatalogNext]_dorisCatalogVars => SweptBehind'
<1> SUFFICES ASSUME CatalogInv, [DorisCatalogNext]_dorisCatalogVars
             PROVE  SweptBehind'
  OBVIOUS
<1>0. DorisTyped /\ SweptBehind /\ HandMet /\ met \subseteq met'
      /\ \A u \in Threads : job[u] \in Jobs
  BY MetGrows DEF CatalogInv, DorisTyped, Jobs
<1>1. ASSUME sweep'.at \in {"aliases", "versions"}
      PROVE  \A l \in linkRow' : l[2] \in sweep'.doomed => l[2] \in met'
  <2> SUFFICES ASSUME NEW l \in linkRow', l[2] \in sweep'.doomed PROVE l[2] \in met'
    OBVIOUS
  <2>1. CASE sweep' = sweep
    <3>1. CASE l \in linkRow
      BY <1>0, <1>1, <2>1, <3>1 DEF SweptBehind
    <3>2. CASE l \notin linkRow
      BY <1>0, <1>1, <2>1, <3>2, LinksChange, SweepFields DEF HandMet
    <3> QED
      BY <3>1, <3>2
  <2>2. CASE CheckLinks
    <3>1. sweep'.doomed = sweep.doomed /\ (\A k \in linkRow : k[2] \notin sweep.doomed)
      BY <1>0, <1>1, <2>2, SweepMoves DEF CheckLinks, NoSweep
    <3> QED
      BY <2>2, <3>1 DEF CheckLinks, catalogTables
  <2>3. CASE DeleteAliases
    <3>1. sweep.at = "aliases" /\ sweep'.doomed = sweep.doomed /\ linkRow' = linkRow
      BY <1>0, <2>3, SweepMoves DEF DeleteAliases
    <3> QED
      BY <1>0, <3>1 DEF SweptBehind
  <2>4. CASE ReadRetained
    <3>1. sweep'.at = "blobs"
      BY <1>0, <2>4, SweepFields DEF ReadRetained, Sweeps
    <3> QED
      BY <1>1, <3>1
  <2>5. CASE DeleteStored
    <3>1. sweep'.at = "blobs" \/ sweep' = NoSweep
      BY <1>0, <2>5, SweepFields DEF DeleteStored, Sweeps
    <3> QED
      BY <1>1, <3>1 DEF NoSweep
  <2>6. CASE sweep' = NoSweep
    BY <1>1, <2>6 DEF NoSweep
  <2> QED
    BY <1>1, <2>1, <2>2, <2>3, <2>4, <2>5, <2>6, SweepChanges
<1>2. ASSUME sweep'.at = "versions"
      PROVE  \A a \in DorisAliases : aliasRow'[a] # NoRow =>
                (aliasRow'[a].of \in sweep'.doomed => aliasRow'[a].of \in met')
  <2> SUFFICES ASSUME NEW a \in DorisAliases, aliasRow'[a] # NoRow,
                      aliasRow'[a].of \in sweep'.doomed
               PROVE  aliasRow'[a].of \in met'
    OBVIOUS
  <2>1. CASE sweep' = sweep
    <3>1. CASE aliasRow'[a] = aliasRow[a]
      BY <1>0, <1>2, <2>1, <3>1 DEF SweptBehind
    <3>2. CASE DeleteAliases
      <4>1. sweep.at = "aliases"
        BY <3>2 DEF DeleteAliases, Sweep
      <4> QED
        BY <1>2, <2>1, <4>1
    <3>3. ASSUME NEW t \in Threads, InsertAlias(t), aliasRow'[a] # aliasRow[a]
          PROVE  aliasRow'[a].of \in met'
      <4>0. aliasRow'[a] = [of |-> job[t].content, n |-> job[t].n]
        BY <3>3, InsertedAlias
      <4>1. aliasRow'[a].of = job[t].content
        BY <4>0
      <4>2. job[t] # NoJob
        BY <3>3 DEF InsertAlias, NoJob
      <4>3. sweep # NoSweep
        BY <1>2, <2>1 DEF NoSweep
      <4> QED
        BY <1>0, <4>1, <4>2, <4>3 DEF HandMet
    <3> QED
      BY <3>1, <3>2, <3>3, AliasesChange
  <2>2. CASE CheckLinks
    <3>1. sweep'.at = "aliases" \/ sweep' = NoSweep
      BY <1>0, <2>2, SweepMoves DEF CheckLinks
    <3> QED
      BY <1>2, <3>1 DEF NoSweep
  <2>3. CASE DeleteAliases
    <3>1. sweep'.doomed = sweep.doomed
      BY <1>0, <2>3, SweepMoves DEF DeleteAliases
    <3>2. aliasRow'[a] = IF aliasRow[a].of \in sweep.doomed THEN NoRow ELSE aliasRow[a]
      BY <2>3 DEF DeleteAliases
    <3> QED
      BY <3>1, <3>2
  <2>4. CASE ReadRetained
    <3>1. sweep'.at = "blobs"
      BY <1>0, <2>4, SweepFields DEF ReadRetained, Sweeps
    <3> QED
      BY <1>2, <3>1
  <2>5. CASE DeleteStored
    <3>1. sweep'.at = "blobs" \/ sweep' = NoSweep
      BY <1>0, <2>5, SweepFields DEF DeleteStored, Sweeps
    <3> QED
      BY <1>2, <3>1 DEF NoSweep
  <2>6. CASE sweep' = NoSweep
    BY <1>2, <2>6 DEF NoSweep
  <2> QED
    BY <1>2, <2>1, <2>2, <2>3, <2>4, <2>5, <2>6, SweepChanges
<1>3. ASSUME sweep'.at = "blobs"
      PROVE  \A c \in Rows' \ met' : BlobsOf[c] \cap sweep'.garbage = {}
  <2> SUFFICES ASSUME NEW c \in Rows', c \notin met' PROVE BlobsOf[c] \cap sweep'.garbage = {}
    OBVIOUS
  <2>1. CASE c \in Rows /\ sweep' = sweep
    BY <1>0, <1>3, <2>1 DEF SweptBehind
  <2>2. CASE c \notin Rows /\ sweep' = sweep
    <3>1. PICK t \in Threads : InsertVersion(t)
      BY <1>0, <2>2, VersionsChange, DeletedVersions DEF Rows
    <3>2. c = job[t].content /\ job[t] # NoJob
      BY <2>2, <3>1, InsertedVersion DEF NoJob
    <3> QED
      BY <1>0, <1>3, <2>2, <3>2, SweepFields DEF HandMet
  <2>3. CASE ReadRetained
    <3>1. sweep'.garbage = Digest(sweep.doomed) \ Digest(Rows) /\ Rows' = Rows
      BY <1>0, <2>3, SweepFields DEF ReadRetained, Sweeps, Rows, catalogTables
    <3> QED
      BY <3>1 DEF Digest
  <2>4. CASE DeleteStored
    <3>1. sweep \in Sweeps /\ sweep.at = "blobs" /\ Rows' = Rows
      BY <1>0, <2>4, SweepFields DEF DeleteStored, Rows, catalogTables
    <3>2. sweep'.garbage \subseteq sweep.garbage
      BY <1>3, <2>4, <3>1 DEF DeleteStored, Sweeps, NoSweep
    <3> QED
      BY <1>0, <3>1, <3>2 DEF SweptBehind
  <2>5. CASE CheckLinks \/ DeleteAliases
    <3>1. sweep'.at \in {"aliases", "versions"} \/ sweep' = NoSweep
      BY <1>0, <2>5, SweepMoves DEF CheckLinks, DeleteAliases
    <3> QED
      BY <1>3, <3>1 DEF NoSweep
  <2>6. CASE sweep' = NoSweep
    BY <1>3, <2>6 DEF NoSweep
  <2> QED
    BY <1>3, <2>1, <2>2, <2>3, <2>4, <2>5, <2>6, SweepChanges
<1> QED
  BY <1>1, <1>2, <1>3 DEF SweptBehind

LEMMA ArtifactChanges ==
  ASSUME CatalogInv, [DorisCatalogNext]_dorisCatalogVars, artifactRow, ~artifactRow'
  PROVE  Rows' = {}
<1>1. artifactRow' = artifactRow \/ artifactRow' = TRUE \/ DeleteArtifact
  BY DEF DorisCatalogNext, CommitStep, UseStep, SweepStep, dorisCatalogVars, BeginCommit,
       EnterCommit, InsertArtifact, LookUpVersion, NumberVersion, InsertVersion, InsertAlias,
       InsertOutputLink, CutCommit, BeginUse, InsertInputLink, BeginSweep, UnlinkRun,
       ReadDoomed, CheckLinks, DeleteAliases, DeleteVersions, ReadRetained,
       DeleteStored, CutSweep, CutServer, DeleteRunLinks, catalogTables
<1>2. DeleteArtifact => Rows' = Rows /\ artifactRow' = (artifactRow /\ Rows # {})
  BY DEF DeleteArtifact, Rows
<1> QED
  BY <1>1, <1>2

LEMMA StoredChanges ==
  ASSUME CatalogInv, [DorisCatalogNext]_dorisCatalogVars, NEW d \in stored, d \notin stored'
  PROVE  d \in sweep.garbage /\ sweep.at = "blobs" /\ sweep # NoSweep /\ Rows' = Rows
<1>1. stored \subseteq stored' \/ DeleteStored
  BY DEF DorisCatalogNext, CommitStep, UseStep, SweepStep, dorisCatalogVars, BeginCommit,
       EnterCommit, InsertArtifact, LookUpVersion, NumberVersion, InsertVersion, InsertAlias,
       InsertOutputLink, CutCommit, BeginUse, InsertInputLink, BeginSweep, UnlinkRun,
       ReadDoomed, CheckLinks, DeleteAliases, DeleteVersions, DeleteArtifact, ReadRetained,
       CutSweep, CutServer, DeleteRunLinks
<1>2. DeleteStored
  BY <1>1
<1>3. sweep # NoSweep /\ sweep.at = "blobs"
  BY <1>2 DEF DeleteStored, NoSweep
<1>4. Rows' = Rows
  BY <1>2 DEF DeleteStored, catalogTables, Rows
<1>5. d \in sweep.garbage
  BY <1>2 DEF DeleteStored
<1> QED
  BY <1>3, <1>4, <1>5

LEMMA NextResolves == CatalogInv /\ [DorisCatalogNext]_dorisCatalogVars => DorisCatalogResolves'
<1> SUFFICES ASSUME CatalogInv, [DorisCatalogNext]_dorisCatalogVars
             PROVE  DorisCatalogResolves'
  OBVIOUS
<1>0. /\ DorisTyped /\ SweptBehind /\ DorisCatalogResolves /\ met \subseteq met'
      /\ \A u \in Threads : JobFits(job[u])
  BY MetGrows DEF CatalogInv
<1>1. ASSUME NEW a \in DorisAliases, aliasRow'[a] # NoRow
      PROVE  aliasRow'[a].of \in met' \/ versionRow'[aliasRow'[a].of] = aliasRow'[a].n
  <2>1. CASE aliasRow'[a] = aliasRow[a]
    <3> DEFINE row == aliasRow[a]
    <3>0. row \in [of : Contents, n : Nat] /\ row.of \in Contents /\ row.n \in Nat
      BY <1>0, <1>1, <2>1 DEF DorisTyped
    <3>1. row.of \in met \/ versionRow[row.of] = row.n
      BY <1>0, <1>1, <2>1 DEF DorisCatalogResolves
    <3>2. CASE versionRow' = versionRow
      BY <1>0, <2>1, <3>1, <3>2
    <3>3. ASSUME NEW t \in Threads, InsertVersion(t)
          PROVE  row.of \in met' \/ versionRow'[row.of] = row.n
      BY <1>0, <3>0, <3>1, <3>3, InsertedVersion
    <3>4. CASE DeleteVersions
      <4>1. row.of \in sweep.doomed => row.of \in met
        BY <1>0, <1>1, <2>1, <3>4, DeletedVersions DEF SweptBehind
      <4> QED
        BY <1>0, <2>1, <3>0, <3>1, <3>4, <4>1, DeletedVersions
    <3> QED
      BY <2>1, <3>2, <3>3, <3>4, VersionsChange
  <2>2. ASSUME NEW t \in Threads, InsertAlias(t), aliasRow'[a] # aliasRow[a]
        PROVE  aliasRow'[a].of \in met' \/ versionRow'[aliasRow'[a].of] = aliasRow'[a].n
    <3>1. /\ aliasRow'[a] = [of |-> job[t].content, n |-> job[t].n]
          /\ job[t].content \in met \/ versionRow[job[t].content] = job[t].n
      BY <2>2, InsertedAlias
    <3>2. versionRow' = versionRow
      BY <2>2 DEF InsertAlias
    <3> QED
      BY <1>0, <3>1, <3>2
  <2>3. CASE DeleteAliases
    <3>1. aliasRow'[a] = aliasRow[a]
      BY <1>1, <2>3 DEF DeleteAliases
    <3> QED
      BY <2>1, <3>1
  <2> QED
    BY <2>1, <2>2, <2>3, AliasesChange
<1>2. ASSUME NEW c \in Rows, c \notin Rows'
      PROVE  DeleteVersions /\ c \in sweep.doomed
  BY <1>0, <1>2, VersionsChange, InsertedVersion, DeletedVersions DEF Rows
<1>3. ASSUME NEW l \in linkRow'
      PROVE  l[2] \in met' \/ l[2] \in Rows'
  <2>1. CASE l \in linkRow
    <3>1. l[2] \in met \/ l[2] \in Rows
      BY <1>0, <2>1 DEF DorisCatalogResolves
    <3>2. CASE l[2] \in Rows /\ l[2] \notin Rows'
      <4>1. DeleteVersions /\ l[2] \in sweep.doomed
        BY <1>2, <3>2
      <4> QED
        BY <1>0, <2>1, <4>1, DeletedVersions DEF SweptBehind
    <3> QED
      BY <1>0, <3>1, <3>2
  <2>2. CASE l \notin linkRow
    <3>1. PICK t \in Threads : /\ InsertOutputLink(t) \/ InsertInputLink(t)
                               /\ job[t].content \in met \/ job[t].content \in Rows
                               /\ l[2] = job[t].content
      BY <2>2, LinksChange
    <3>2. Rows' = Rows
      BY <3>1 DEF InsertOutputLink, InsertInputLink, Rows
    <3> QED
      BY <1>0, <3>1, <3>2
  <2> QED
    BY <2>1, <2>2
<1>4. ASSUME Rows' # {}
      PROVE  artifactRow' \/ "artifact" \in met'
  <2>1. artifactRow \/ "artifact" \in met
    <3>1. CASE Rows # {}
      BY <1>0, <3>1 DEF DorisCatalogResolves
    <3>2. CASE Rows = {}
      <4>1. PICK t \in Threads : InsertVersion(t)
        BY <1>0, <1>4, <3>2, VersionsChange, DeletedVersions DEF Rows
      <4> QED
        BY <1>0, <4>1, InsertedVersion DEF JobFits
    <3> QED
      BY <3>1, <3>2
  <2> QED
    BY <1>0, <1>4, <2>1, ArtifactChanges
<1>5. ASSUME NEW c \in Rows' \ met'
      PROVE  BlobsOf[c] \subseteq stored'
  <2>1. BlobsOf[c] \subseteq stored
    <3>1. CASE c \in Rows
      BY <1>0, <1>5, <3>1 DEF DorisCatalogResolves
    <3>2. CASE c \notin Rows
      <4>1. PICK t \in Threads : InsertVersion(t)
        BY <1>0, <1>5, <3>2, VersionsChange, DeletedVersions DEF Rows
      <4>2. c = job[t].content /\ job[t] \in CommitJobs
        BY <1>5, <3>2, <4>1, InsertedVersion DEF Moved
      <4> QED
        BY <1>0, <1>5, <4>2 DEF JobFits
    <3> QED
      BY <3>1, <3>2
  <2>2. ASSUME NEW d \in BlobsOf[c], d \notin stored'
        PROVE  FALSE
    <3>1. d \in sweep.garbage /\ sweep.at = "blobs" /\ Rows' = Rows
      BY <2>1, <2>2, StoredChanges
    <3> QED
      BY <1>0, <1>5, <2>2, <3>1 DEF SweptBehind
  <2> QED
    BY <2>2
<1> QED
  BY <1>1, <1>3, <1>4, <1>5 DEF DorisCatalogResolves

LEMMA NextDorisLatest == CatalogInv /\ [DorisCatalogNext]_dorisCatalogVars => LatestUnlessCut'
<1> SUFFICES ASSUME CatalogInv, [DorisCatalogNext]_dorisCatalogVars,
                    Rows' # {}, aliasRow'["latest"] = NoRow, unlatest' = FALSE
             PROVE  \E t \in Threads : job'[t].at = "aliases" /\ job'[t].created
  <2>1. CatalogInv /\ [DorisCatalogNext]_dorisCatalogVars => unlatest' \in BOOLEAN
    BY NextTyped DEF DorisTyped
  <2> QED
    BY <2>1 DEF LatestUnlessCut
<1> DEFINE Hands == \E t \in Threads : job'[t].at = "aliases" /\ job'[t].created
<1>0. /\ DorisTyped /\ LatestUnlessCut /\ "latest" \in DorisAliases
      /\ \A u \in Threads : JobFits(job[u])
  BY DEF CatalogInv, DorisAliases
<1>1. ASSUME NEW t \in Threads, InsertVersion(t)
      PROVE  Hands
  BY <1>0, <1>1, InsertedVersion DEF JobFits, Moved, Same
<1>2. CASE Rows = {}
  BY <1>0, <1>1, <1>2, VersionsChange, DeletedVersions DEF Rows
<1>3. DeleteAliases => aliasRow["latest"] = NoRow /\ ~unlatest
  BY <1>0 DEF DeleteAliases, DorisTyped
<1>4. CASE aliasRow["latest"] # NoRow
  <2>1. ASSUME NEW t \in Threads, InsertAlias(t)
        PROVE  FALSE
    BY <1>0, <1>4, <2>1, InsertedAlias
  <2> QED
    BY <1>3, <1>4, <2>1, AliasesChange
<1>5. CASE Rows # {} /\ aliasRow["latest"] = NoRow
  <2>1. ASSUME unlatest
        PROVE  FALSE
    <3>1. ASSUME NEW t \in Threads, InsertAlias(t)
          PROVE  FALSE
      BY <1>0, <2>1, <3>1, InsertedAlias
    <3> QED
      BY <1>3, <2>1, <3>1
         DEF DorisCatalogNext, CommitStep, UseStep, SweepStep, dorisCatalogVars, BeginCommit,
             EnterCommit, InsertArtifact, LookUpVersion, NumberVersion, InsertVersion,
             InsertOutputLink, CutCommit, CutJobs, BeginUse, InsertInputLink, BeginSweep, UnlinkRun,
             ReadDoomed, CheckLinks, DeleteVersions, DeleteArtifact, ReadRetained,
             DeleteStored, CutSweep, CutServer, DeleteRunLinks, catalogTables
  <2>2. PICK u \in Threads : job[u].at = "aliases" /\ job[u].created
    BY <1>0, <1>5, <2>1 DEF LatestUnlessCut
  <2>3. InLock(job[u]) /\ job[u] # NoJob
    BY <2>2 DEF InLock, InLockAt, NoJob
  <2>4. CASE job'[u] = job[u]
    BY <2>2, <2>4
  <2>5. CASE InsertAlias(u)
    BY <1>0, <2>2, <2>5, AliasMoves DEF Moved
  <2>6. CASE InsertOutputLink(u)
    <3>1. job[u].todo = << >> /\ aliasRow' = aliasRow /\ unlatest' = unlatest
      BY <2>6 DEF InsertOutputLink
    <3> QED
      BY <1>0, <2>1, <2>2, <3>1 DEF JobFits
  <2>7. ASSUME NEW T \in SUBSET Threads, CutJobs(T), u \in T
        PROVE  FALSE
    BY <2>2, <2>7 DEF CutJobs
  <2>8. ASSUME NEW T \in SUBSET Threads, CutJobs(T)
        PROVE  job'[u] = job[u]
    BY <1>0, <2>7, <2>8, CutMoves DEF Ended
  <2>9. CASE \E t \in Threads : CutCommit(t)
    BY <2>4, <2>8, <2>9 DEF CutCommit
  <2>10. CASE CutServer
    BY <2>4, <2>8, <2>10 DEF CutServer
  <2>11. ASSUME NEW t \in Threads,
                \/ InsertArtifact(t) \/ LookUpVersion(t) \/ NumberVersion(t)
                \/ InsertVersion(t)
         PROVE  Hands
    <3>1. job[t].at # "aliases"
      BY <2>11 DEF InsertArtifact, LookUpVersion, NumberVersion, InsertVersion, Step
    <3>2. InLock(job[t])
      BY <2>11 DEF InsertArtifact, LookUpVersion, NumberVersion, InsertVersion, Step, InLock, InLockAt
    <3> QED
      BY <2>2, <2>3, <3>1, <3>2 DEF CatalogInv, LockHeld
  <2>12. ASSUME NEW t \in Threads, EnterCommit(t)
         PROVE  Hands
    BY <1>0, <2>2, <2>4, <2>12, EnterMoves DEF Moved
  <2>13. ASSUME NEW t \in Threads, InsertAlias(t) \/ InsertOutputLink(t) \/ InsertInputLink(t), t # u
         PROVE  Hands
    BY <1>0, <2>4, <2>13 DEF InsertAlias, InsertOutputLink, InsertInputLink, DorisTyped
  <2>14. ~InsertInputLink(u)
    BY <2>2 DEF InsertInputLink
  <2>15. ASSUME NEW t \in Threads, NEW r \in Producers, NEW c \in Contents,
                BeginCommit(t, r, c) \/ BeginUse(t, r, c)
         PROVE  Hands
    BY <1>0, <2>3, <2>4, <2>15, BeginMoves, UseMoves DEF Taken
  <2> QED
    BY <2>4, <2>5, <2>6, <2>9, <2>10, <2>11, <2>12, <2>13, <2>14, <2>15, SweepQuiet
       DEF DorisCatalogNext, CommitStep, UseStep, SweepStep
<1> QED
  BY <1>2, <1>4, <1>5

LEMMA CatalogInvNext == CatalogInv /\ [DorisCatalogNext]_dorisCatalogVars => CatalogInv'
<1> SUFFICES ASSUME CatalogInv, [DorisCatalogNext]_dorisCatalogVars
             PROVE  CatalogInv'
  OBVIOUS
<1>1. \A t \in Threads : JobFits(job[t])'
  BY NextJobsFit
<1> QED
  BY <1>1, NextTyped, NextLock, NextNumbersDiffer, NextHandMet, NextSweptBehind, NextResolves, NextDorisLatest
     DEF CatalogInv

LEMMA CatalogInvGives == CatalogInv => /\ DorisCatalogTypeOK /\ DorisCatalogResolves
                                       /\ LatestUnlessCut
<1> SUFFICES ASSUME CatalogInv PROVE DorisCatalogTypeOK
  BY DEF CatalogInv
<1> QED
  BY DEF CatalogInv, DorisTyped, NumbersDiffer, DorisCatalogTypeOK

\* Statement by statement, beside uses, deletions, a purge and cuts, the
\* catalog in Doris numbers the versions of the artifact apart, and what points
\* at a version finds it with its blobs unless a purge met it.
THEOREM DorisCatalogSound ==
  DorisCatalogSpec => [](DorisCatalogTypeOK /\ DorisCatalogResolves /\ LatestUnlessCut)
BY CatalogInvInit, CatalogInvNext, CatalogInvGives, PTL DEF DorisCatalogSpec

-----------------------------------------------------------------------------
(* The instance that has them all beside the catalog in SQLite. *)

LEMMA Separate ==
  [MCNext]_catalogsVars => /\ [MigrationNext]_migrationVars /\ [CopyNext]_copyVars
                           /\ [DorisRunsNext]_dorisRunsVars
                           /\ [DorisCatalogNext]_dorisCatalogVars
BY DEF MCNext, DorisCommits, catalogsVars, migrationsVars

\* What a migration reports as copied is at its destination, for any records,
\* blobs and bounds.
THEOREM MigrationsTrue == MCSpec => []MigratedIsThere
<1>1. MCInit => MigrationInv /\ CopyInv
  BY MigrationInvInit, CopyInvInit DEF MCInit
<1>2. MigrationInv /\ CopyInv /\ [MCNext]_catalogsVars => MigrationInv' /\ CopyInv'
  BY Separate, MigrationInvNext, CopyInvNext
<1>3. MigrationInv /\ CopyInv => MigratedIsThere
  BY DEF MigrationInv, CopyInv, MigratedIsThere, CopyTypeOK
<1> QED
  BY <1>1, <1>2, <1>3, PTL DEF MCSpec

\* The storage in Doris (doris_storage.py), whose operations are no
\* transactions, keeps what a cut, or an operation on the same run or version,
\* did not meet: runs are listed, versions have their rows and blobs, and
\* `latest' is somewhere; for any runs, contents, threads and bounds.
THEOREM DorisKeepsSound == MCSpec => []DorisSound
<1>1. MCInit => RunsInv /\ CatalogInv
  BY RunsInvInit, CatalogInvInit DEF MCInit
<1>2. RunsInv /\ CatalogInv /\ [MCNext]_catalogsVars => RunsInv' /\ CatalogInv'
  BY Separate, RunsInvNext, CatalogInvNext
<1>3. RunsInv /\ CatalogInv => DorisSound
  BY RunsInvGives, CatalogInvGives DEF DorisSound
<1> QED
  BY <1>1, <1>2, <1>3, PTL DEF MCSpec
=============================================================================
