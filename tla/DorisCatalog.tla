---------------------------- MODULE DorisCatalog ----------------------------
(***************************************************************************)
(* The version catalog of one artifact in the Doris engine                 *)
(* (doris_storage.py): what ArtifactCatalog describes for SQLite as one    *)
(* transaction each is here a sequence of statements.  Commits exclude     *)
(* each other by _artifact_lock; uses, run deletions and purges take no    *)
(* lock.  Requests run in the executor's threads.                          *)
(*                                                                         *)
(* The id of a version is computed from its content, so that a content     *)
(* stands for its version; the number of a version that has no row is -1.  *)
(***************************************************************************)
EXTENDS Integers, Sequences

CONSTANTS Producers,       \* runs that log and use the artifact
          Contents,        \* manifests
          BlobsOf,         \* [Contents -> SUBSET digests]
          Requested,       \* [Contents -> sequences of aliases passed with it]
          Threads,         \* of the executor
          MaxCommits, MaxLinkUses, MaxRunPurges, MaxLinkDeletes, MaxCatalogCuts

VARIABLES artifactRow,   \* whether the artifact has its row
          versionRow,    \* per content, the number of its version, or -1
          aliasRow,      \* per alias, [of, n], or NoRow
          linkRow,       \* triples of run, content and direction
          stored,        \* digests in the artifact store
          holder,        \* the thread that has _artifact_lock, or none
          job,           \* per thread, the request in it
          sweep,         \* the purge in progress
          met,           \* history: contents, or the artifact, that a purge and
                         \*   a commit or a use handled at the same time
          unlatest,      \* history: `latest' was cut off or purged
          catalogCount

dorisCatalogVars == <<artifactRow, versionRow, aliasRow, linkRow, stored, holder, job,
                      sweep, met, unlatest, catalogCount>>

catalogTables == <<artifactRow, versionRow, aliasRow, linkRow>>

DorisAliases == {"latest"} \cup UNION {{Requested[c][i] : i \in DOMAIN Requested[c]} : c \in Contents}

NoThread == "none"

ASSUME DorisCatalogAssumption == /\ DOMAIN BlobsOf = Contents
                                 /\ Requested \in [Contents -> Seq(DorisAliases)]
                                 /\ NoThread \notin Threads

NoRow == [of |-> "none", n |-> -1]

NoJob == [at |-> "idle"]

NoSweep == [at |-> "idle"]

Rows == {c \in Contents : versionRow[c] >= 0}

Digest(C) == UNION {BlobsOf[c] : c \in C}

\* The contents whose commit or use is in hand.
InHand == {job[t].content : t \in {u \in Threads : job[u] # NoJob}}

SweepDoomed == IF sweep = NoSweep THEN {} ELSE sweep.doomed

Spend(what, bound) == /\ catalogCount[what] < bound
                      /\ catalogCount' = [catalogCount EXCEPT ![what] = @ + 1]

DorisCatalogInit ==
    /\ artifactRow = FALSE
    /\ versionRow = [c \in Contents |-> -1]
    /\ aliasRow = [a \in DorisAliases |-> NoRow]
    /\ linkRow = {}
    /\ stored = {}
    /\ holder = NoThread
    /\ job = [t \in Threads |-> NoJob]
    /\ sweep = NoSweep
    /\ met = {}
    /\ unlatest = FALSE
    /\ catalogCount = [commit |-> 0, use |-> 0, purge |-> 0, delete |-> 0, cut |-> 0]

(***************************************************************************)
(* artifact_log and commit_artifact_version.                               *)
(***************************************************************************)
\* The blobs are uploaded, and present when artifact_log checks them.
BeginCommit(t, r, c) ==
    /\ job[t] = NoJob
    /\ Spend("commit", MaxCommits)
    /\ stored' = stored \cup BlobsOf[c]
    /\ job' = [job EXCEPT ![t] = [at |-> "waiting", run |-> r, content |-> c, n |-> -1,
                                  created |-> FALSE, todo |-> Requested[c]]]
    /\ met' = IF sweep # NoSweep THEN met \cup {c, "artifact"} ELSE met
    /\ UNCHANGED <<catalogTables, holder, sweep, unlatest>>

Step(t, from, to) == /\ job[t].at = from
                     /\ job' = [job EXCEPT ![t].at = to]

\* Faulty variant: no lock.
EnterUnlocked(t) ==
    /\ Step(t, "waiting", IF artifactRow THEN "looking" ELSE "artifact")
    /\ UNCHANGED <<catalogTables, stored, holder, sweep, met, unlatest, catalogCount>>

\* _artifact_lock, and the SELECT of the artifact.
EnterCommit(t) ==
    /\ holder = NoThread
    /\ holder' = t
    /\ Step(t, "waiting", IF artifactRow THEN "looking" ELSE "artifact")
    /\ UNCHANGED <<catalogTables, stored, sweep, met, unlatest, catalogCount>>

InsertArtifact(t) ==
    /\ Step(t, "artifact", "looking")
    /\ artifactRow' = TRUE
    /\ UNCHANGED <<versionRow, aliasRow, linkRow, stored, holder, sweep, met, unlatest,
                   catalogCount>>

\* Faulty variant: `latest' is left to the caller.
LookUpWithoutLatest(t) ==
    /\ job[t].at = "looking"
    /\ LET n == versionRow[job[t].content] IN
       job' = [job EXCEPT ![t] = IF n >= 0 THEN [@ EXCEPT !.n = n, !.at = "aliases"]
                                 ELSE [@ EXCEPT !.created = TRUE, !.at = "numbering"]]
    /\ UNCHANGED <<catalogTables, stored, holder, sweep, met, unlatest, catalogCount>>

\* SELECT by manifest digest: identical content keeps its version.
LookUpVersion(t) ==
    /\ job[t].at = "looking"
    /\ LET n == versionRow[job[t].content] IN
       job' = [job EXCEPT ![t] = IF n >= 0 THEN [@ EXCEPT !.n = n, !.at = "aliases"]
                                 ELSE [@ EXCEPT !.created = TRUE, !.at = "numbering",
                                                !.todo = Append(job[t].todo, "latest")]]
    /\ UNCHANGED <<catalogTables, stored, holder, sweep, met, unlatest, catalogCount>>

\* SELECT MAX(version_number).
NumberVersion(t) ==
    /\ job[t].at = "numbering"
    /\ \E n \in {-1} \cup {versionRow[c] : c \in Contents} :
          /\ \A c \in Contents : versionRow[c] <= n
          /\ job' = [job EXCEPT ![t].n = n + 1, ![t].at = "inserting"]
    /\ UNCHANGED <<catalogTables, stored, holder, sweep, met, unlatest, catalogCount>>

InsertVersion(t) ==
    /\ Step(t, "inserting", "aliases")
    /\ versionRow' = [versionRow EXCEPT ![job[t].content] = job[t].n]
    /\ UNCHANGED <<artifactRow, aliasRow, linkRow, stored, holder, sweep, met, unlatest,
                   catalogCount>>

\* An alias of a newer version stays where it is.
StaysNewer(a, n) == aliasRow[a].n > n

\* The SELECT of an alias and its INSERT: between them only a purge could take
\* the row away, and with it either way.
InsertAlias(t) ==
    /\ job[t].at = "aliases"
    /\ job[t].todo # << >>
    /\ LET a == Head(job[t].todo) IN
       /\ aliasRow' = IF StaysNewer(a, job[t].n) THEN aliasRow
                      ELSE [aliasRow EXCEPT ![a] = [of |-> job[t].content, n |-> job[t].n]]
       /\ unlatest' = (unlatest /\ a # "latest")
    /\ job' = [job EXCEPT ![t].todo = Tail(@)]
    /\ UNCHANGED <<artifactRow, versionRow, linkRow, stored, holder, sweep, met, catalogCount>>

\* The output link, and the end of the lock.  What follows only reads.
InsertOutputLink(t) ==
    /\ job[t].at = "aliases"
    /\ job[t].todo = << >>
    /\ job' = [job EXCEPT ![t] = NoJob]
    /\ linkRow' = linkRow \cup {<<job[t].run, job[t].content, "output">>}
    /\ holder' = NoThread
    /\ UNCHANGED <<artifactRow, versionRow, aliasRow, stored, sweep, met, unlatest, catalogCount>>

(***************************************************************************)
(* log_artifact_use and delete_run.                                        *)
(***************************************************************************)
\* The version was resolved; insert_run_artifact_link will not look it up.
BeginUse(t, r, c) ==
    /\ job[t] = NoJob
    /\ artifactRow
    /\ c \in Rows
    /\ Spend("use", MaxLinkUses)
    /\ job' = [job EXCEPT ![t] = [at |-> "linking", run |-> r, content |-> c]]
    /\ met' = IF sweep # NoSweep THEN met \cup {c} ELSE met
    /\ UNCHANGED <<catalogTables, stored, holder, sweep, unlatest>>

InsertInputLink(t) ==
    /\ job[t].at = "linking"
    /\ linkRow' = linkRow \cup {<<job[t].run, job[t].content, "input">>}
    /\ job' = [job EXCEPT ![t] = NoJob]
    /\ UNCHANGED <<artifactRow, versionRow, aliasRow, stored, holder, sweep, met, unlatest,
                   catalogCount>>

LinksOf(R) == {l \in linkRow : l[1] \in R}

\* delete_run: of its statements, the one that the catalog sees.
DeleteRunLinks(r) ==
    /\ LinksOf({r}) # {}
    /\ Spend("delete", MaxLinkDeletes)
    /\ linkRow' = linkRow \ LinksOf({r})
    /\ UNCHANGED <<artifactRow, versionRow, aliasRow, stored, holder, job, sweep, met, unlatest>>

(***************************************************************************)
(* purge_runs.                                                             *)
(***************************************************************************)
Consumers(c) == {l[1] : l \in {k \in linkRow : k[2] = c /\ k[3] = "input"}}

\* The summary, still that of the preview, has no blocker.
BeginSweep(R) ==
    /\ sweep = NoSweep
    /\ Spend("purge", MaxRunPurges)
    /\ LET doomed == {c \in Rows : artifactRow /\ \E r \in R : <<r, c, "output">> \in linkRow} IN
       /\ \A c \in doomed : Consumers(c) \subseteq R
       /\ sweep' = [at |-> "unlinking", runs |-> R, doomed |-> doomed, garbage |-> {}]
    /\ met' = met \cup InHand \cup (IF InHand = {} THEN {} ELSE {"artifact"})
    /\ UNCHANGED <<catalogTables, stored, holder, job, unlatest>>

Sweep(from, to) == /\ sweep.at = from
                   /\ sweep' = [sweep EXCEPT !.at = to]

\* DELETE FROM run_artifact_links, per run.
UnlinkRun ==
    /\ sweep.at = "unlinking"
    /\ \E r \in sweep.runs :
          /\ linkRow' = linkRow \ LinksOf({r})
          /\ sweep' = [sweep EXCEPT !.runs = @ \ {r},
                                    !.at = IF sweep.runs # {r} THEN "unlinking"
                                           ELSE IF sweep.doomed = {} THEN "retained" ELSE "rows"]
    /\ UNCHANGED <<artifactRow, versionRow, aliasRow, stored, holder, job, met, unlatest,
                   catalogCount>>

\* The versions must all be there.
ReadDoomed ==
    /\ IF sweep.at = "rows" /\ sweep.doomed \subseteq Rows
       THEN Sweep("rows", "links")
       ELSE sweep.at = "rows" /\ sweep' = NoSweep
    /\ UNCHANGED <<catalogTables, stored, holder, job, met, unlatest, catalogCount>>

\* Faulty variant: the preview is taken for granted.
CheckNothing == /\ Sweep("links", "aliases")
                /\ UNCHANGED <<catalogTables, stored, holder, job, met, unlatest, catalogCount>>

\* No link may be left to them.
CheckLinks ==
    /\ IF sweep.at = "links" /\ \A l \in linkRow : l[2] \notin sweep.doomed
       THEN Sweep("links", "aliases")
       ELSE sweep.at = "links" /\ sweep' = NoSweep
    /\ UNCHANGED <<catalogTables, stored, holder, job, met, unlatest, catalogCount>>

DeleteAliases ==
    /\ Sweep("aliases", "versions")
    /\ aliasRow' = [a \in DorisAliases |-> IF aliasRow[a].of \in sweep.doomed THEN NoRow
                                           ELSE aliasRow[a]]
    /\ unlatest' = (unlatest \/ aliasRow["latest"].of \in sweep.doomed)
    /\ UNCHANGED <<artifactRow, versionRow, linkRow, stored, holder, job, met, catalogCount>>

DeleteVersions ==
    /\ Sweep("versions", "artifact")
    /\ versionRow' = [c \in Contents |-> IF c \in sweep.doomed THEN -1 ELSE versionRow[c]]
    /\ UNCHANGED <<artifactRow, aliasRow, linkRow, stored, holder, job, met, unlatest,
                   catalogCount>>

\* DELETE FROM artifacts WHERE NOT EXISTS a version.
DeleteArtifact ==
    /\ Sweep("artifact", "retained")
    /\ artifactRow' = (artifactRow /\ Rows # {})
    /\ UNCHANGED <<versionRow, aliasRow, linkRow, stored, holder, job, met, unlatest,
                   catalogCount>>

\* deleted_digests - retained_digests.
ReadRetained ==
    /\ sweep.at = "retained"
    /\ sweep' = [sweep EXCEPT !.at = "blobs", !.garbage = Digest(sweep.doomed) \ Digest(Rows)]
    /\ UNCHANGED <<catalogTables, stored, holder, job, met, unlatest, catalogCount>>

DeleteStored ==
    /\ sweep.at = "blobs"
    /\ \/ \E d \in sweep.garbage : /\ stored' = stored \ {d}
                                   /\ sweep' = [sweep EXCEPT !.garbage = @ \ {d}]
       \/ /\ sweep.garbage = {}
          /\ sweep' = NoSweep
          /\ UNCHANGED stored
    /\ UNCHANGED <<catalogTables, holder, job, met, unlatest, catalogCount>>

(***************************************************************************)
(* A statement fails, or the server ends.                                  *)
(***************************************************************************)
\* The `with' releases the lock; what was written stays.
CutJobs(T) ==
    /\ T # {}
    /\ \A t \in T : job[t] # NoJob
    /\ job' = [t \in Threads |-> IF t \in T THEN NoJob ELSE job[t]]
    /\ holder' = IF holder \in T THEN NoThread ELSE holder
    /\ unlatest' = (unlatest \/ \E t \in T : job[t].at = "aliases" /\ job[t].created)

CutCommit(t) ==
    /\ Spend("cut", MaxCatalogCuts)
    /\ CutJobs({t})
    /\ UNCHANGED <<catalogTables, stored, sweep, met>>

CutSweep ==
    /\ sweep # NoSweep
    /\ Spend("cut", MaxCatalogCuts)
    /\ sweep' = NoSweep
    /\ UNCHANGED <<catalogTables, stored, holder, job, met, unlatest>>

\* The server ends with everything in it; one thread alone is CutCommit.
CutServer ==
    /\ Spend("cut", MaxCatalogCuts)
    /\ CutJobs({t \in Threads : job[t] # NoJob})
    /\ sweep' = NoSweep
    /\ UNCHANGED <<catalogTables, stored, met>>

CommitStep(t) ==
    \/ \E r \in Producers, c \in Contents : BeginCommit(t, r, c)
    \/ EnterCommit(t) \/ InsertArtifact(t) \/ LookUpVersion(t) \/ NumberVersion(t)
    \/ InsertVersion(t) \/ InsertAlias(t) \/ InsertOutputLink(t)
    \/ CutCommit(t)

UseStep(t) == (\E r \in Producers, c \in Contents : BeginUse(t, r, c)) \/ InsertInputLink(t)

SweepStep == \/ \E R \in (SUBSET Producers) \ {{}} : BeginSweep(R)
             \/ UnlinkRun \/ ReadDoomed \/ CheckLinks \/ DeleteAliases \/ DeleteVersions
             \/ DeleteArtifact \/ ReadRetained \/ DeleteStored \/ CutSweep \/ CutServer

DorisCatalogNext == \/ \E t \in Threads : CommitStep(t) \/ UseStep(t)
                    \/ \E r \in Producers : DeleteRunLinks(r)
                    \/ SweepStep

DorisCatalogSpec == DorisCatalogInit /\ [][DorisCatalogNext]_dorisCatalogVars

----------------------------------------------------------------------------
(***************************************************************************)
(* What must hold.                                                         *)
(***************************************************************************)

\* The type invariant, with the one promise of _artifact_lock: no two versions
\* have one number.
DorisCatalogTypeOK ==
    /\ artifactRow \in BOOLEAN
    /\ versionRow \in [Contents -> Nat \cup {-1}]
    /\ \A a \in DorisAliases : aliasRow[a] = NoRow \/ aliasRow[a].of \in Contents
    /\ linkRow \subseteq Producers \X Contents \X {"output", "input"}
    /\ stored \subseteq Digest(Contents)
    /\ holder \in Threads \cup {NoThread}
    /\ \A c, d \in Rows : versionRow[c] = versionRow[d] => c = d

\* Statement by statement, and wherever an error cuts them, no alias or link
\* points at a version without a row, no version lacks its artifact's row and no
\* version lacks a blob, unless a purge and a commit or a use of it were under
\* way together.
DorisCatalogResolves ==
    /\ \A a \in DorisAliases : aliasRow[a] # NoRow =>
          aliasRow[a].of \in met \/ versionRow[aliasRow[a].of] = aliasRow[a].n
    /\ \A l \in linkRow : l[2] \in met \/ l[2] \in Rows
    /\ Rows # {} => artifactRow \/ "artifact" \in met
    /\ \A c \in Rows \ met : BlobsOf[c] \subseteq stored

\* use_artifact without an alias finds `latest' whenever there is a version: a
\* commit that was cut behind its version's row, whose repetition takes the
\* version for an old one, or a purge of the version it named takes it away.
LatestUnlessCut ==
    Rows # {} /\ aliasRow["latest"] = NoRow =>
       unlatest \/ \E t \in Threads : job[t].at = "aliases" /\ job[t].created

=============================================================================
