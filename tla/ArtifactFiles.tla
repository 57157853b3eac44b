---------------------------- MODULE ArtifactFiles -----------------------------
(***************************************************************************)
(* The bytes of artifacts on the machines that log and download them       *)
(* (cas.py, artifact.py, references.py): staging files into the            *)
(* content-addressed store, and materializing a version's files and        *)
(* references into a directory, beside users that rewrite the sources and  *)
(* edit the directory, a second download into it, and a purge.             *)
(*                                                                         *)
(* A file is two halves, so that what is read while it changes can be      *)
(* torn; its digest is the content itself.  All files have the same size.  *)
(***************************************************************************)
EXTENDS Naturals, FiniteSets, Sequences

CONSTANTS Paths,       \* logical paths, numbers in the order they sort
          ParentOf,    \* per path the path that is its directory, or NoPath
          NoPath,
          Texts,       \* what half a file may hold
          Downloads,   \* calls of download() with one root
          MaxVersions, \* logged versions
          MaxTime,     \* ticks of the clock that stamps files
          MaxEvents    \* rewritten sources, changed objects, edits in the root, purges,
                       \* wrong bytes in answers of the server and killed downloads

ASSUME FilesAssumption ==
    /\ Paths \subseteq Nat /\ NoPath \notin Paths
    /\ ParentOf \in [Paths -> Paths \cup {NoPath}]
    /\ Texts \subseteq Nat /\ Texts # {}
    /\ MaxVersions \in Nat /\ MaxTime \in Nat

VARIABLES far,      \* downloads run on another machine than the server's
          sourceFile, \* the producer's file for each path
          object,   \* the external object behind references
          store,    \* per machine and digest, the blob
          build,    \* the log_artifact call of the producer
          versions, \* manifests in the catalog
          root,     \* the directory downloads write
          partial,  \* per partial name, what has been written to it
          get,      \* per download, where it is
          now,
          tied,     \* two files were ever written in one tick
          events    \* how many there were

filesVars == <<far, sourceFile, object, store, build, versions, root, partial, get, now, tied,
               events>>

Machines == {"server", "client"}

Here == IF far THEN "client" ELSE "server"

Bytes == Texts \X Texts

NoBlob == [bytes |-> <<>>, time |-> 0]

NoFile == [kind |-> "none", bytes |-> <<>>, time |-> 0]

Dir == [NoFile EXCEPT !.kind = "dir"]

File(b, t) == [kind |-> "file", bytes |-> b, time |-> t]

FileEntry(g) == [ref |-> FALSE, digest |-> g]

\* A reference is recorded with the checksum of the source, or with its URI.
RefEntry(t) == [ref |-> TRUE, digest |-> t]

Uri == <<>>

NoBuild == [pc |-> "idle", todo |-> {}, got |-> <<>>, manifest |-> <<>>]

NoGet == [pc |-> "idle", manifest |-> <<>>, todo |-> {}, stamp |-> 0, alone |-> TRUE,
          empty |-> FALSE, warned |-> FALSE, fetched |-> {}, moved |-> FALSE]

Names == Downloads \X Paths

FilesInit ==
    /\ far \in BOOLEAN
    /\ sourceFile = [p \in Paths |-> CHOOSE t \in Texts : \A o \in Texts : t <= o]
    /\ object = [text |-> CHOOSE t \in Texts : \A o \in Texts : t <= o, up |-> TRUE]
    /\ store = [m \in Machines |-> [g \in Bytes |-> NoBlob]]
    /\ build = NoBuild
    /\ versions = <<>>
    /\ root = [p \in Paths |-> NoFile]
    /\ partial = [n \in Names |-> <<>>]
    /\ get = [d \in Downloads |-> NoGet]
    /\ now = 0
    /\ tied = FALSE
    /\ events = 0

-----------------------------------------------------------------------------
(* What the users do to the files. *)

Event == events < MaxEvents /\ events' = events + 1

\* A file gets its time from a clock that may not have moved since the last one.
Stamping == /\ now' \in {now, now + 1}
            /\ now' \in 1..MaxTime
            /\ tied' = (tied \/ now' = now)

\* The downloads that go on are told that the root or the object changed.
Disturbed(G) == [d \in Downloads |-> IF G[d].pc = "idle" THEN G[d]
                                     ELSE [G[d] EXCEPT !.alone = FALSE]]

RewriteSource(p, t) ==
    /\ Event /\ t # sourceFile[p]
    /\ sourceFile' = [sourceFile EXCEPT ![p] = t]
    /\ UNCHANGED <<far, object, store, build, versions, root, partial, get, now, tied>>

ChangeObject ==
    /\ Event
    /\ \E t \in Texts, u \in BOOLEAN : object' = [object EXCEPT !.text = t, !.up = u]
    /\ object' # object
    /\ get' = [d \in Downloads |-> [get[d] EXCEPT !.moved = get[d].pc = "fetchref"]]
    /\ UNCHANGED <<far, sourceFile, store, build, versions, root, partial, now, tied>>

EditFile(p, t) ==
    /\ Event /\ root[p].kind = "file"
    /\ Stamping
    /\ root' = [root EXCEPT ![p] = File(<<t, t>>, now')]
    /\ get' = Disturbed(get)
    /\ UNCHANGED <<far, sourceFile, object, store, build, versions, partial>>

-----------------------------------------------------------------------------
(* log_artifact. *)

\* A faulty variant: only what is there twice is refused.
PathsCompatibleOnce(F, R) == F \cap R = {}

\* A path is not both a file and a directory, nor there twice.
PathsCompatible(F, R) == /\ F \cap R = {}
                         /\ \A p \in F \cup R : ParentOf[p] \notin F \cup R

\* The checksum of the object, when its source can be probed and tells one.
Probed == IF object.up THEN <<object.text>> ELSE Uri

\* An artifact with files F and references R, whose checksums may be left out.
BuildManifest(F, R, checksum) ==
    /\ build.pc = "idle"
    /\ F \cup R # {} /\ Cardinality(R) <= 1
    /\ PathsCompatible(F, R)
    /\ Len(versions) < MaxVersions
    /\ build' = [NoBuild EXCEPT !.pc = "stage", !.todo = F,
                                !.manifest = [p \in R |-> RefEntry(IF checksum THEN Probed ELSE Uri)]]
    /\ UNCHANGED <<far, sourceFile, object, store, versions, root, partial, get, now, tied,
                   events>>

Foremost(P) == CHOOSE p \in P : \A o \in P : p <= o

\* stage_blob_into_project copies and hashes the file in one pass.
ReadHalf ==
    /\ build.pc = "stage" /\ build.todo # {} /\ Len(build.got) < 2
    /\ build' = [build EXCEPT !.got = Append(@, sourceFile[Foremost(build.todo)])]
    /\ UNCHANGED <<far, sourceFile, object, store, versions, root, partial, get, now, tied,
                   events>>

\* A faulty variant: the source is hashed on its own, after it was copied.
StagedDigestAfter(p) == <<sourceFile[p], sourceFile[p]>>

\* What the blob is stored under.
StagedDigest(p) == build.got

StageBlob ==
    /\ build.pc = "stage" /\ Len(build.got) = 2
    /\ LET p == Foremost(build.todo)
           g == StagedDigest(p)
           known == store["server"][g] # NoBlob IN
       /\ IF known THEN UNCHANGED <<now, tied>> ELSE Stamping
       /\ store' = IF known THEN store
                   ELSE [store EXCEPT !["server"][g] = [bytes |-> build.got, time |-> now']]
       /\ build' = [build EXCEPT !.got = <<>>, !.todo = @ \ {p},
                                 !.manifest = [q \in DOMAIN @ \cup {p} |->
                                                  IF q = p THEN FileEntry(g) ELSE @[q]]]
    /\ UNCHANGED <<far, sourceFile, object, versions, root, partial, get, events>>

\* The catalog keeps one version per manifest.
CommitVersion ==
    /\ build.pc = "stage" /\ build.todo = {}
    /\ versions' = IF \E v \in 1..Len(versions) : versions[v] = build.manifest THEN versions
                   ELSE Append(versions, build.manifest)
    /\ build' = NoBuild
    /\ UNCHANGED <<far, sourceFile, object, store, root, partial, get, now, tied, events>>

DigestsOfManifest(m) == {m[p].digest : p \in {q \in DOMAIN m : ~m[q].ref}}

\* A purge, seen from here: the version goes, and the blobs only it used.
PurgeVersion(v) ==
    /\ Event /\ versions[v] # <<>> /\ build.pc = "idle"
    /\ versions' = [versions EXCEPT ![v] = <<>>]
    /\ LET kept == UNION {DigestsOfManifest(versions'[w]) : w \in 1..Len(versions)} IN
       store' = [store EXCEPT !["server"] =
                   [g \in Bytes |-> IF g \in DigestsOfManifest(versions[v]) \ kept THEN NoBlob
                                    ELSE @[g]]]
    /\ UNCHANGED <<far, sourceFile, object, build, root, partial, get, now, tied>>

-----------------------------------------------------------------------------
(* download. *)

Downloading(d) == get[d].pc \notin {"idle", "done", "failed", "shape"}

\* The manifest a download works from was read when the artifact was fetched.
StartDownload(d, v) ==
    /\ get[d].pc = "idle" /\ versions[v] # <<>>
    /\ LET others == \E e \in Downloads : Downloading(e) IN
       get' = [Disturbed(get) EXCEPT
                 ![d] = [NoGet EXCEPT !.pc = "look", !.manifest = versions[v],
                                      !.todo = DOMAIN versions[v],
                                      !.alone = ~others,
                                      !.empty = \A p \in Paths : root[p].kind = "none"]]
    /\ UNCHANGED <<far, sourceFile, object, store, build, versions, root, partial, now, tied,
                   events>>

PathOf(d) == Foremost(get[d].todo)

EntryOf(d) == get[d].manifest[PathOf(d)]

At(d, pc) == get[d].pc = pc

\* The entry of path p is done.
Without(g, p) == [g EXCEPT !.todo = @ \ {p}, !.stamp = 0,
                           !.pc = IF g.todo = {p} THEN "done" ELSE "look"]

Goes(d, pc) == get' = [get EXCEPT ![d].pc = pc]

\* The directory of a path, unless a file is in its place.
Obstructed(p) == ParentOf[p] # NoPath /\ root[ParentOf[p]].kind = "file"

WithParent(R, p) == IF ParentOf[p] = NoPath THEN R ELSE [R EXCEPT ![ParentOf[p]] = Dir]

\* The blob is on this machine, can be fetched, or is nowhere.
LookForBlob(d) ==
    /\ At(d, "look") /\ ~EntryOf(d).ref
    /\ Goes(d, IF store[Here][EntryOf(d).digest] # NoBlob THEN "check"
               ELSE IF far /\ store["server"][EntryOf(d).digest] # NoBlob THEN "fetch"
               ELSE "failed")
    /\ UNCHANGED <<far, sourceFile, object, store, build, versions, root, partial, now, tied,
                   events>>

\* A faulty variant: what the server sent is stored as it came.
VerifiedNever(b, g) == TRUE

\* stage_blob_from_chunks refuses bytes with another digest than the claimed one.
Verified(b, g) == b = g

\* The answer, in which halves may be wrong, replaces what came meanwhile or is refused; it is
\* not read when the blob was there before.
FetchBlob(d) ==
    /\ At(d, "fetch")
    /\ LET g == EntryOf(d).digest IN
       \/ /\ store["client"][g] # NoBlob
          /\ Goes(d, "check")
          /\ UNCHANGED <<store, now, tied, events>>
       \/ \E b \in Bytes :
            /\ b = g \/ events < MaxEvents
            /\ events' = IF b = g THEN events ELSE events + 1
            /\ IF Verified(b, g)
               THEN /\ Stamping
                    /\ store' = [store EXCEPT !["client"][g] = [bytes |-> b, time |-> now']]
                    /\ Goes(d, "check")
               ELSE Goes(d, "failed") /\ UNCHANGED <<store, now, tied>>
    /\ UNCHANGED <<far, sourceFile, object, build, versions, root, partial>>

\* A faulty variant: the size alone is compared.
SameFileBySize(f, b) == f.kind = "file"

\* What is in the directory already is taken for the blob.
SameFile(f, b) == f.kind = "file" /\ f.time = b.time

CheckFile(d) ==
    /\ At(d, "check")
    /\ LET p == PathOf(d)
           b == store[Here][EntryOf(d).digest] IN
       IF Obstructed(p) THEN Goes(d, "shape") /\ UNCHANGED root
       ELSE /\ root' = WithParent(root, p)
            /\ get' = [get EXCEPT ![d] =
                         IF b = NoBlob THEN [@ EXCEPT !.pc = "failed"]
                         ELSE IF SameFile(root[p], b) THEN Without(@, p)
                         ELSE [@ EXCEPT !.pc = "copy", !.stamp = b.time]]
    /\ UNCHANGED <<far, sourceFile, object, store, build, versions, partial, now, tied, events>>

\* A faulty variant: the partial file is named after the file alone.
PartialNameOf(d, p) == <<CHOOSE e \in Downloads : TRUE, p>>

\* Every write of a file has a partial file of its own.
PartialName(d, p) == <<d, p>>

\* The first half truncates the partial file, the second goes behind it.
CopyHalf(d) ==
    /\ At(d, "copy") \/ At(d, "copying")
    /\ LET n == PartialName(d, PathOf(d))
           b == store[Here][EntryOf(d).digest] IN
       IF get[d].pc = "copy" /\ b = NoBlob
       THEN Goes(d, "failed") /\ UNCHANGED partial
       ELSE /\ partial' = [partial EXCEPT ![n] =
                             IF get[d].pc = "copy" THEN <<EntryOf(d).digest[1]>>
                             ELSE IF @ = <<>> THEN @
                             ELSE <<@[1], EntryOf(d).digest[2]>>]
            /\ Goes(d, IF get[d].pc = "copy" THEN "copying" ELSE "replace")
    /\ UNCHANGED <<far, sourceFile, object, store, build, versions, root, now, tied, events>>

\* The time of the blob is given to the copy, which then takes the file's place.
ReplaceFile(d) ==
    /\ At(d, "replace")
    /\ LET p == PathOf(d)
           n == PartialName(d, p) IN
       /\ IF root[p].kind = "dir" THEN Goes(d, "shape") /\ UNCHANGED root
          ELSE IF partial[n] = <<>> THEN Goes(d, "failed") /\ UNCHANGED root
          ELSE /\ root' = [root EXCEPT ![p] = File(partial[n], get[d].stamp)]
               /\ get' = [get EXCEPT ![d] = Without(@, p)]
       /\ partial' = [partial EXCEPT ![n] = <<>>]
    /\ UNCHANGED <<far, sourceFile, object, store, build, versions, now, tied, events>>

\* A faulty variant: nothing is compared.
ChangedNever(g) == FALSE

\* The recorded checksum is not the one that the source tells now.
Changed(g) == g # Uri /\ Probed \notin {Uri, g}

\* A reference that is there is left alone; its source is probed otherwise.
ProbeReference(d) ==
    /\ At(d, "look") /\ EntryOf(d).ref
    /\ LET p == PathOf(d) IN
       get' = [get EXCEPT ![d] =
                 IF root[p].kind = "file" THEN Without(@, p)
                 ELSE [@ EXCEPT !.pc = "fetchref", !.moved = FALSE,
                                !.warned = get[d].warned \/ Changed(EntryOf(d).digest)]]
    /\ UNCHANGED <<far, sourceFile, object, store, build, versions, root, partial, now, tied,
                   events>>

FetchReference(d) ==
    /\ At(d, "fetchref")
    /\ LET p == PathOf(d) IN
       IF Obstructed(p) \/ (object.up /\ root[p].kind = "dir")
       THEN Goes(d, "shape") /\ UNCHANGED <<root, now, tied>>
       ELSE IF ~object.up
       THEN /\ Goes(d, "failed")
            /\ root' = WithParent(root, p)
            /\ UNCHANGED <<now, tied>>
       ELSE /\ Stamping
            /\ root' = [WithParent(root, p) EXCEPT
                          ![p] = File(<<object.text, object.text>>, now')]
            /\ get' = [get EXCEPT ![d] =
                         [Without(get[d], p) EXCEPT
                            !.fetched = IF get[d].moved THEN @ ELSE @ \cup {p}]]
    /\ UNCHANGED <<far, sourceFile, object, store, build, versions, partial, events>>

\* The process ends; its partial file stays, under a name nobody asks for.
KillDownload(d) ==
    /\ Downloading(d) /\ Event
    /\ Goes(d, "failed")
    /\ UNCHANGED <<far, sourceFile, object, store, build, versions, root, partial, now, tied>>

FilesNext ==
    \/ \E p \in Paths, t \in Texts : RewriteSource(p, t) \/ EditFile(p, t)
    \/ ChangeObject
    \/ \E F, R \in SUBSET Paths, c \in BOOLEAN : BuildManifest(F, R, c)
    \/ ReadHalf \/ StageBlob \/ CommitVersion
    \/ \E v \in 1..Len(versions) : PurgeVersion(v)
    \/ \E d \in Downloads :
         \/ \E v \in 1..Len(versions) : StartDownload(d, v)
         \/ LookForBlob(d) \/ FetchBlob(d) \/ CheckFile(d) \/ CopyHalf(d) \/ ReplaceFile(d)
         \/ ProbeReference(d) \/ FetchReference(d) \/ KillDownload(d)

FilesSpec == FilesInit /\ [][FilesNext]_filesVars

-----------------------------------------------------------------------------
(* Properties. *)

FilesTypeOK ==
    /\ far \in BOOLEAN /\ tied \in BOOLEAN /\ now \in 0..MaxTime
    /\ sourceFile \in [Paths -> Texts]
    /\ \A m \in Machines, g \in Bytes : store[m][g].bytes \in Bytes \cup {<<>>}
    /\ Len(versions) <= MaxVersions
    /\ \A p \in Paths : root[p].kind \in {"none", "dir", "file"}
    /\ \A d \in Downloads : get[d].todo \subseteq DOMAIN get[d].manifest

\* Whatever changes while it is read, and whatever a server sends, a blob is stored under the
\* digest of its own bytes (stage_blob_into_project hashes what it copies,
\* stage_blob_from_chunks compares before it replaces).
BlobsMatchDigest ==
    \A m \in Machines, g \in Bytes : store[m][g] # NoBlob => store[m][g].bytes = g

\* Two downloads into one directory never leave a mix of two files in it (_materialize copies
\* to a partial file of its own and replaces).
WholeFiles ==
    \A p \in Paths :
      root[p].kind = "file" =>
        \/ \E t \in Texts : root[p].bytes = <<t, t>>
        \/ \E d \in Downloads : root[p].bytes \in DigestsOfManifest(get[d].manifest)

\* What download() returns is the logged version, whatever an earlier download or an edit
\* left in the directory, provided no other download or edit goes on beside it and no two
\* files were written in one tick of the clock: a file that is there is only taken for the
\* blob when it has its time.
RootShowsVersion ==
    ~tied => \A d \in Downloads :
               get[d].pc = "done" /\ get[d].alone =>
                 \A p \in DOMAIN get[d].manifest :
                   ~get[d].manifest[p].ref => root[p].bytes = get[d].manifest[p].digest

\* A reference with a checksum that download() fetches has the recorded content, or the user
\* was warned; what changes between the probe and the fetch goes unnoticed.
ReferencesChecked ==
    \A d \in Downloads :
      get[d].pc = "done" /\ get[d].alone =>
        \A p \in get[d].fetched :
          LET g == get[d].manifest[p].digest IN
          g # Uri => root[p].bytes = <<g[1], g[1]>> \/ get[d].warned

\* A manifest that log_artifact accepts can be written to an empty directory: no path of it
\* is both a file and a directory (assert_manifest_paths_compatible).
NoShapeClash == \A d \in Downloads : get[d].pc = "shape" => ~(get[d].empty /\ get[d].alone)

\* The bytes of artifacts, on the machines that log and download them.
FilesAsLogged == BlobsMatchDigest /\ WholeFiles /\ RootShowsVersion /\ ReferencesChecked
                 /\ NoShapeClash

=============================================================================
