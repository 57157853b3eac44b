---------------------------- MODULE ArtifactCatalog ----------------------------
(***************************************************************************)
(* The version catalog of one artifact and the content-addressed blobs its *)
(* manifests name (trackio/sqlite_storage.py, server.py, purge.py, run.py): *)
(*                                                                         *)
(*   runs      log_artifact: ask which blobs are present, upload the rest, *)
(*             call artifact_log, again after a transient error;           *)
(*             use_artifact: resolve an alias, then record the use         *)
(*   handlers  artifact_log on the server: check the blobs without a lock, *)
(*             then commit_artifact_version in one locked transaction      *)
(*   a purge   preview, apply bound to the preview, one locked transaction *)
(*             and then the deletion of blobs, one by one and unlocked     *)
(*                                                                         *)
(* A version id is the position of its row in the AUTOINCREMENT order, so  *)
(* the rows ever inserted are sequences and `live' says which still exist. *)
(***************************************************************************)
EXTENDS Naturals, Sequences, FiniteSets

CONSTANTS
  Runs,           \* runs that log and use the artifact
  Manifests,      \* contents that are logged
  Digests,        \* blobs
  Blobs,          \* [Manifests -> SUBSET Digests]
  Passed,         \* [Manifests -> sets of names]: the aliases passed with it
  MaxAttempts,    \* len(ARTIFACT_LOG_RETRY_BACKOFFS) + 1
  MaxLogs, MaxUses, MaxDeletes, MaxPurges, MaxCrashes   \* bounds on the operations

Aliases == {"latest"} \cup UNION {Passed[m] : m \in Manifests}

ASSUME CatalogAssumption ==
  /\ Blobs \in [Manifests -> SUBSET Digests]
  /\ DOMAIN Passed = Manifests
  /\ MaxAttempts \in Nat \ {0}
  /\ MaxLogs \in Nat /\ MaxUses \in Nat /\ MaxDeletes \in Nat
  /\ MaxPurges \in Nat /\ MaxCrashes \in Nat

VARIABLES
  content, number,  \* manifest and version number of every row ever inserted
  live,             \* rows of artifact_versions
  alias,            \* artifact_aliases: a row id, or 0 for no row
  links,            \* run_artifact_links: <<run, row id, direction>>
  metrics,          \* runs with rows in metrics
  blobs,            \* digests in the artifact store
  client,           \* per run: the log_artifact or use_artifact it is in
  handlers,         \* artifact_log calls past the blob check
  purge,            \* the purge in progress
  garbage,          \* blobs the committed purge has still to delete
  exposed,          \* history: rows whose commit overlapped a blob deletion
  count             \* operations so far

catalog == <<content, number, live, alias, links, metrics>>
vars    == <<catalog, blobs, client, handlers, purge, garbage, exposed, count>>

Ids == 1..Len(content)

Idle    == [at |-> "idle"]
NoPurge == [at |-> "none"]
------------------------------------------------------------------------------
DigestsOf(rows) == UNION {Blobs[content[i]] : i \in rows}

\* A run exists while the metrics table or a link row names it.
Known(r) == r \in metrics \/ \E l \in links : l[1] = r

Linked(i, dir) == {r \in Runs : <<r, i, dir>> \in links}

\* COALESCE(MAX(version) + 1, 0), as the set of its only value.
NextNumbers ==
  IF live = {} THEN {0}
  ELSE {number[i] + 1 : i \in {j \in live : \A k \in live : number[k] <= number[j]}}

\* Faulty variant: an alias rotates onto whatever was logged last.
MovesAlways(a, n) == TRUE

\* _reassign_alias_forward_cursor: may alias a move to a version numbered n?
Moves(a, n) == alias[a] = 0 \/ number[alias[a]] <= n

\* What run_purge_summary reports, and what its digest covers.
Summary(R) ==
  [runs    |-> R,
   missing |-> {r \in R : ~Known(r)},
   entries |-> {[id |-> i, number |-> number[i],
                 producers |-> Linked(i, "output") \cap R,
                 consumers |-> Linked(i, "input")]
                : i \in {j \in live : Linked(j, "output") \cap R # {}}}]

Blocked(s) == s.missing # {} \/ \E e \in s.entries : ~(e.consumers \subseteq s.runs)

\* The links that remain once the rows of the selected runs are deleted.
LinksWithout(R) == {l \in links : l[1] \notin R}

\* Faulty variant: the transaction relies on the preview.
PurgeableByPlan(doomed, R) == doomed \subseteq live

\* The checks of Storage.purge_runs inside its transaction.
Purgeable(doomed, R) ==
  /\ doomed \subseteq live
  /\ \A l \in LinksWithout(R) : l[2] \notin doomed

\* Faulty variant: no scan of the retained manifests.
UnreferencedUnscanned(doomed) == DigestsOf(doomed)

\* deleted_digests - retained_digests
Unreferenced(doomed) == DigestsOf(doomed) \ DigestsOf(live \ doomed)

\* Faulty variant: aliases of deleted versions stay.
AliasesKept(doomed) == alias

AliasesWithout(doomed) ==
  [a \in Aliases |-> IF alias[a] \in doomed THEN 0 ELSE alias[a]]
------------------------------------------------------------------------------
Init ==
  /\ content = << >> /\ number = << >> /\ live = {}
  /\ alias = [a \in Aliases |-> 0]
  /\ links = {} /\ metrics = Runs
  /\ blobs = {}
  /\ client = [r \in Runs |-> Idle]
  /\ handlers = {}
  /\ purge = NoPurge /\ garbage = {}
  /\ exposed = {}
  /\ count = [log |-> 0, use |-> 0, delete |-> 0, purge |-> 0, crash |-> 0]

\* log_artifact: check_artifact_blobs says what has to be uploaded.
CheckBlobs(r, m) ==
  /\ client[r] = Idle /\ count.log < MaxLogs
  /\ count' = [count EXCEPT !.log = @ + 1]
  /\ client' = [client EXCEPT ![r] =
       [at |-> "logging", manifest |-> m, missing |-> Blobs[m] \ blobs, attempt |-> 0]]
  /\ UNCHANGED <<catalog, blobs, handlers, purge, garbage, exposed>>

\* _drain_pending_uploads: put_file publishes one blob.
UploadBlob(r) ==
  /\ client[r].at = "logging"
  /\ \E d \in client[r].missing :
       /\ blobs' = blobs \cup {d}
       /\ client' = [client EXCEPT ![r].missing = @ \ {d}]
  /\ UNCHANGED <<catalog, handlers, purge, garbage, exposed, count>>

\* The uploads are done: _artifact_log_with_retry may send a request.
Calling(r) == client[r].at = "logging" /\ client[r].missing = {}

\* A request reaches artifact_log and passes the blob check.  A retry may run
\* beside an earlier attempt that only seemed lost.
ArtifactLogChecks(r) ==
  /\ Calling(r) /\ client[r].attempt < MaxAttempts
  /\ Blobs[client[r].manifest] \subseteq blobs
  /\ client' = [client EXCEPT ![r].attempt = @ + 1]
  /\ handlers' = handlers \cup
       {[run |-> r, manifest |-> client[r].manifest,
         attempt |-> client[r].attempt, raced |-> garbage # {}]}
  /\ UNCHANGED <<catalog, blobs, purge, garbage, exposed, count>>

\* "Manifest references blobs not on server", or the last attempt is lost: the
\* exception leaves log_artifact.
ArtifactLogFails(r) ==
  /\ Calling(r)
  /\ \/ ~(Blobs[client[r].manifest] \subseteq blobs)
     \/ client[r].attempt = MaxAttempts
  /\ client' = [client EXCEPT ![r] = Idle]
  /\ UNCHANGED <<catalog, blobs, handlers, purge, garbage, exposed, count>>

\* Faulty variant: every call inserts a version.
NoSameContent(m) == {}

\* The rows with the content of the call: at most one.
SameContent(m) == {i \in live : content[i] = m}

\* Aliases after a commit of manifest m as row i with number n.
AliasesAfter(m, i, n, created) ==
  [a \in Aliases |->
     IF (created /\ a = "latest") \/ (a \in Passed[m] /\ Moves(a, n))
       THEN i ELSE alias[a]]

\* _insert_artifact_version_cursor found identical content.
CommitExisting(h) ==
  /\ \E i \in SameContent(h.manifest) :
       /\ alias' = AliasesAfter(h.manifest, i, number[i], FALSE)
       /\ links' = links \cup {<<h.run, i, "output">>}
  /\ UNCHANGED <<content, number, live, exposed>>

CommitNew(h) ==
  /\ SameContent(h.manifest) = {}
  /\ LET i == Len(content) + 1 IN
       \E n \in NextNumbers :
         /\ content' = Append(content, h.manifest)
         /\ number' = Append(number, n)
         /\ live' = live \cup {i}
         /\ alias' = AliasesAfter(h.manifest, i, n, TRUE)
         /\ links' = links \cup {<<h.run, i, "output">>}
         /\ exposed' = IF h.raced THEN exposed \cup {i} ELSE exposed

\* commit_artifact_version; the answer reaches the client or is lost.
CommitArtifactVersion(h) ==
  /\ h \in handlers
  /\ CommitExisting(h) \/ CommitNew(h)
  /\ handlers' = handlers \ {h}
  /\ \/ /\ client[h.run].at = "logging" /\ client[h.run].attempt > 0
        /\ client' = [client EXCEPT ![h.run] = Idle]
     \/ UNCHANGED client
  /\ UNCHANGED <<metrics, blobs, purge, garbage, count>>

\* use_artifact reads the manifest of an alias ...
ResolveArtifact(r, a) ==
  /\ client[r] = Idle /\ count.use < MaxUses
  /\ alias[a] # 0
  /\ count' = [count EXCEPT !.use = @ + 1]
  /\ client' = [client EXCEPT ![r] = [at |-> "using", id |-> alias[a]]]
  /\ UNCHANGED <<catalog, blobs, handlers, purge, garbage, exposed>>

\* ... and calls log_artifact_use, which does not look the version up.
LogArtifactUse(r) ==
  /\ client[r].at = "using"
  /\ links' = links \cup {<<r, client[r].id, "input">>}
  /\ client' = [client EXCEPT ![r] = Idle]
  /\ UNCHANGED <<content, number, live, alias, metrics, blobs, handlers, purge,
                 garbage, exposed, count>>

\* delete_run keeps the versions the run produced.
DeleteRun(r) ==
  /\ Known(r) /\ count.delete < MaxDeletes
  /\ count' = [count EXCEPT !.delete = @ + 1]
  /\ metrics' = metrics \ {r}
  /\ links' = LinksWithout({r})
  /\ UNCHANGED <<content, number, live, alias, blobs, client, handlers, purge,
                 garbage, exposed>>

\* get_run_purge_plan
PreviewPurge(R) ==
  /\ purge = NoPurge /\ count.purge < MaxPurges
  /\ count' = [count EXCEPT !.purge = @ + 1]
  /\ purge' = [at |-> "previewed", plan |-> Summary(R)]
  /\ UNCHANGED <<catalog, blobs, client, handlers, garbage, exposed>>

\* purge_runs: the summary is computed again and compared by digest.
RecheckPurge ==
  /\ purge.at = "previewed"
  /\ purge' = IF Summary(purge.plan.runs) = purge.plan /\ ~Blocked(purge.plan)
                THEN [purge EXCEPT !.at = "applying"] ELSE NoPurge
  /\ UNCHANGED <<catalog, blobs, client, handlers, garbage, exposed, count>>

Doomed == {e.id : e \in purge.plan.entries}

\* The transaction of Storage.purge_runs; a failed check rolls it back.
ApplyPurge ==
  /\ purge.at = "applying"
  /\ Purgeable(Doomed, purge.plan.runs)
  /\ metrics' = metrics \ purge.plan.runs
  /\ links' = LinksWithout(purge.plan.runs)
  /\ live' = live \ Doomed
  /\ alias' = AliasesWithout(Doomed)
  /\ garbage' = Unreferenced(Doomed)
  /\ handlers' = IF garbage' = {} THEN handlers
                 ELSE {[h EXCEPT !.raced = TRUE] : h \in handlers}
  /\ purge' = [at |-> "deleting"]
  /\ UNCHANGED <<content, number, blobs, client, exposed, count>>

RollBackPurge ==
  /\ purge.at = "applying"
  /\ ~Purgeable(Doomed, purge.plan.runs)
  /\ purge' = NoPurge
  /\ UNCHANGED <<catalog, blobs, client, handlers, garbage, exposed, count>>

\* get_artifact_store().delete, after the lock was released.
DeleteBlob ==
  /\ \E d \in garbage :
       /\ blobs' = blobs \ {d}
       /\ garbage' = garbage \ {d}
  /\ UNCHANGED <<catalog, client, handlers, purge, exposed, count>>

PurgeDone ==
  /\ purge.at = "deleting" /\ garbage = {}
  /\ purge' = NoPurge
  /\ UNCHANGED <<catalog, blobs, client, handlers, garbage, exposed, count>>

\* The server dies: calls in progress are lost, blobs to delete stay.
Crash ==
  /\ count.crash < MaxCrashes
  /\ count' = [count EXCEPT !.crash = @ + 1]
  /\ handlers' = {}
  /\ garbage' = {}
  /\ purge' = NoPurge
  /\ UNCHANGED <<catalog, blobs, client, exposed>>

RunStep(r) ==
  \/ \E m \in Manifests : CheckBlobs(r, m)
  \/ UploadBlob(r)
  \/ ArtifactLogChecks(r) \/ ArtifactLogFails(r)
  \/ \E a \in Aliases : ResolveArtifact(r, a)
  \/ LogArtifactUse(r)
  \/ DeleteRun(r)

PurgeStep ==
  \/ \E R \in (SUBSET Runs) \ {{}} : PreviewPurge(R)
  \/ RecheckPurge \/ ApplyPurge \/ RollBackPurge \/ DeleteBlob \/ PurgeDone

Next ==
  \/ \E r \in Runs : RunStep(r)
  \/ \E h \in handlers : CommitArtifactVersion(h)
  \/ PurgeStep
  \/ Crash

Spec == Init /\ [][Next]_vars
------------------------------------------------------------------------------
Calls == [run : Runs, manifest : Manifests, attempt : Nat, raced : BOOLEAN]

ClientStates ==
  {Idle}
  \cup [at : {"logging"}, manifest : Manifests, missing : SUBSET Digests,
        attempt : 0..MaxAttempts]
  \cup [at : {"using"}, id : Ids]

RowsTyped ==
  /\ content \in Seq(Manifests)
  /\ number \in Seq(Nat)
  /\ Len(number) = Len(content)
  /\ live \subseteq Ids
  /\ \A i, j \in live : number[i] = number[j] => i = j
  /\ \A i, j \in live : content[i] = content[j] => i = j

LinksTyped ==
  /\ alias \in [Aliases -> Ids \cup {0}]
  /\ links \subseteq Runs \X Ids \X {"input", "output"}
  /\ metrics \subseteq Runs

StoreTyped ==
  /\ blobs \subseteq Digests
  /\ garbage \subseteq Digests
  /\ exposed \subseteq Ids

CallsTyped ==
  /\ client \in [Runs -> ClientStates]
  /\ handlers \subseteq Calls
  /\ count \in [log : Nat, use : Nat, delete : Nat, purge : Nat, crash : Nat]

\* The schema: rows refer to rows that were inserted, and the UNIQUE constraints
\* on (artifact_id, version) and (artifact_id, manifest_digest) hold.
TypeOK == RowsTyped /\ LinksTyped /\ StoreTyped /\ CallsTyped

\* Every alias and every output link resolves, whatever is deleted or purged.
PointersResolve ==
  /\ \A a \in Aliases : alias[a] \in live \cup {0}
  /\ \A r \in Runs, i \in Ids : <<r, i, "output">> \in links => i \in live

\* While no version has been purged, `latest' is the newest one, although calls
\* are repeated, overtaken by other runs, or name `latest' themselves.
LatestIsNewest ==
  live = Ids /\ live # {} =>
    \A i \in live : number[i] <= number[alias["latest"]]

\* No alias goes from a version to an older one (the docstring of
\* commit_artifact_version: "never drags an existing alias backward").
AliasesMoveForward ==
  [][\A a \in Aliases :
       alias[a] # 0 /\ alias'[a] # 0 => number[alias[a]] <= number'[alias'[a]]]_vars

\* A purge takes a version only if every run recorded as its consumer goes with
\* it, also if the use was recorded after the preview was compared.
PurgeSparesConsumers ==
  [][\A i \in live \ live' : \A r \in Linked(i, "input") : r \in purge.plan.runs]_vars

\* The blobs of a version are in the store, unless artifact_log checked or
\* committed the version while a purge was deleting blobs.
BlobsUnlessExposed ==
  \A i \in live \ exposed : Blobs[content[i]] \subseteq blobs

\* "removes only CAS blobs no longer present in a retained manifest"
ManifestsComplete ==
  \A i \in live : Blobs[content[i]] \subseteq blobs
=============================================================================
