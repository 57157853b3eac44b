--------------------------- MODULE Ingest_proofs ----------------------------
(***************************************************************************)
(* Proofs about what runs leave on disk: the files of the artifacts        *)
(* (ArtifactFiles) and the two ways of a run beside the inbox, the resumed *)
(* run (RunSession) and the spill to a bucket (BucketSpill), for any       *)
(* paths, manifests, downloads, sessions, entries and bounds; then         *)
(* RunsSound and FilesSound of the composition MCIngest, whose steps are   *)
(* steps of one component and stutters of the others.                      *)
(***************************************************************************)
EXTENDS MCIngest, FiniteSetsExt, SequenceTheorems, WellFoundedInduction, TLAPS

-----------------------------------------------------------------------------
\* The files of the artifacts.

Checksums == {<<t>> : t \in Texts} \cup {Uri}

Entries == [ref : {FALSE}, digest : Bytes] \cup [ref : {TRUE}, digest : Checksums]

\* Manifests whose paths fit together.
Compatible == {m \in UNION {[P -> Entries] : P \in SUBSET Paths} :
                 \A p \in DOMAIN m : ParentOf[p] \notin DOMAIN m}

Blobs == [bytes : Bytes \cup {<<>>}, time : Nat]

FileStates == [kind : {"none", "dir", "file"}, bytes : Bytes \cup {<<>>}, time : Nat]

Written == Bytes \cup Checksums

BuildStates == [pc : {"idle", "stage"}, todo : SUBSET Paths, got : Written, manifest : Compatible]

Copying == {"copy", "copying", "replace"}

OfFile == Copying \cup {"check", "fetch"}

GetStates == [pc : OfFile \cup {"idle", "look", "fetchref", "done", "failed", "shape"},
              manifest : Compatible, todo : SUBSET Paths, stamp : Nat,
              alone : BOOLEAN, empty : BOOLEAN, warned : BOOLEAN, fetched : SUBSET Paths,
              moved : BOOLEAN]

DataTyped ==
  /\ far \in BOOLEAN /\ tied \in BOOLEAN /\ now \in 0 .. MaxTime
  /\ sourceFile \in [Paths -> Texts]
  /\ object \in [text : Texts, up : BOOLEAN]
  /\ store \in [Machines -> [Bytes -> Blobs]]
  /\ root \in [Paths -> FileStates]
  /\ \A p \in Paths : root[p].kind = "file" => root[p].bytes \in Bytes
  /\ partial \in [Names -> Written]

StateTyped == DataTyped /\ get \in [Downloads -> GetStates]

\* What is logged fits together while it is built.
VersionsTyped ==
  /\ build \in BuildStates
  /\ build.pc = "stage" =>
       LET P == build.todo \cup DOMAIN build.manifest IN
       /\ P # {} /\ \A p \in P : ParentOf[p] \notin P
       /\ build.got # <<>> => build.todo # {}
       /\ Len(versions) < MaxVersions
  /\ versions \in Seq(Compatible)
  /\ Len(versions) <= MaxVersions
  /\ \A v \in 1 .. Len(versions) : versions[v] = <<>> \/ DOMAIN versions[v] # {}

\* A time that a blob, a file or a copy in progress has, and what has it.
Carries(b, t) ==
  \/ \E m \in Machines : store[m][b] # NoBlob /\ store[m][b].time = t
  \/ \E p \in Paths : root[p].kind = "file" /\ root[p].bytes = b /\ root[p].time = t
  \/ \E d \in Downloads : /\ get[d].pc \in Copying
                          /\ EntryOf(d).digest = b /\ get[d].stamp = t

\* Unless the clock stood still, the time tells the bytes.
TimesTell ==
  \A b \in Bytes, t \in Nat :
    Carries(b, t) => /\ t <= now
                     /\ ~tied => \A c \in Bytes : Carries(c, t) => b = c

\* Where a download is and what of it is left.
Progress(d) ==
  /\ get[d].todo \subseteq DOMAIN get[d].manifest
  /\ \A p \in get[d].fetched : p \in DOMAIN get[d].manifest \ get[d].todo
                               /\ get[d].manifest[p].ref
  /\ get[d].pc = "idle" => get[d].manifest = <<>>
  /\ get[d].pc = "done" => get[d].todo = {}
  /\ Downloading(d) => get[d].todo # {}
  /\ get[d].pc \in OfFile => ~EntryOf(d).ref
  /\ get[d].pc = "fetchref" => EntryOf(d).ref

\* What its partial file holds.
PartialHolds(d) ==
  /\ get[d].pc = "copying" => partial[PartialName(d, PathOf(d))] = <<EntryOf(d).digest[1]>>
  /\ get[d].pc = "replace" => partial[PartialName(d, PathOf(d))] = EntryOf(d).digest

\* What the probe of a reference told.
ProbeHolds(d) ==
  get[d].pc = "fetchref" /\ ~get[d].moved /\ ~get[d].warned /\ EntryOf(d).digest # Uri
    => ~object.up \/ EntryOf(d).digest = <<object.text>>

\* Where it is alone, the paths that it has been through hold what they should, and a root
\* that was empty has files and directories where they should be.
RootFollows(d) ==
  get[d].alone /\ get[d].pc # "idle" =>
    LET m == get[d].manifest IN
    /\ ~tied => \A p \in DOMAIN m \ get[d].todo :
                  ~m[p].ref => root[p].kind = "file" /\ root[p].bytes = m[p].digest
    /\ ~get[d].warned => \A p \in get[d].fetched :
                           m[p].digest # Uri => root[p].bytes = <<m[p].digest[1], m[p].digest[1]>>
    /\ get[d].empty => /\ get[d].pc # "shape"
                       /\ \A p \in Paths : /\ root[p].kind = "file" => p \in DOMAIN m
                                           /\ root[p].kind = "dir" => p \notin DOMAIN m

Follows(d) == Progress(d) /\ PartialHolds(d) /\ ProbeHolds(d) /\ RootFollows(d)

\* A download that nobody told of another is the only one that goes on.
Lone == \A d, e \in Downloads :
          d # e /\ get[d].alone /\ get[d].pc # "idle" => ~Downloading(e)

FilesInv == /\ StateTyped /\ VersionsTyped /\ BlobsMatchDigest /\ TimesTell /\ WholeFiles /\ Lone
            /\ \A d \in Downloads : Follows(d)
------------------------------------------------------------------------------
\* The least of a set of numbers.
LEMMA NatMin ==
  ASSUME NEW T \in SUBSET Nat, T # {}
  PROVE  Min(T) \in T /\ \A y \in T : Min(T) <= y
<1> DEFINE R == OpToRel(<, Nat)
<1>1. PICK x \in T : \A y \in T : ~(<<y, x>> \in R)
  <2>1. IsWellFoundedOn(R, Nat)
    BY NatLessThanWellFounded
  <2> HIDE DEF R
  <2> QED
    BY <2>1, WFMin
<1>2. \A y \in T : ~(y < x)
  <2> SUFFICES ASSUME NEW y \in T, y < x PROVE FALSE
    OBVIOUS
  <2>1. <<y, x>> \in R
    BY DEF OpToRel
  <2> QED
    BY <1>1, <2>1
<1>3. \A y \in T : x <= y
  BY <1>2
<1> QED
  BY <1>3 DEF Min

LEMMA ForemostIn ==
  ASSUME NEW P \in SUBSET Paths, P # {}
  PROVE  Foremost(P) \in P
<1>1. P \in SUBSET Nat
  BY FilesAssumption
<1>2. Min(P) \in P /\ \A o \in P : Min(P) <= o
  BY <1>1, NatMin
<1> QED
  BY <1>2 DEF Foremost

LEMMA CompatibleIs ==
  ASSUME NEW m \in Compatible
  PROVE  /\ DOMAIN m \in SUBSET Paths
         /\ m \in [DOMAIN m -> Entries]
         /\ \A p \in DOMAIN m : /\ ParentOf[p] \notin DOMAIN m
                                /\ m[p].ref \in BOOLEAN
                                /\ ~m[p].ref => m[p].digest \in Bytes
                                /\ m[p].ref => m[p].digest \in Checksums
<1>1. PICK P \in SUBSET Paths : m \in [P -> Entries]
  BY DEF Compatible
<1>2. DOMAIN m = P
  BY <1>1
<1>3. \A p \in P : m[p] \in Entries /\ ParentOf[p] \notin P
  BY <1>1, <1>2 DEF Compatible
<1>4. \A x \in Entries : /\ x.ref \in BOOLEAN
                         /\ ~x.ref => x.digest \in Bytes
                         /\ x.ref => x.digest \in Checksums
  BY DEF Entries
<1> QED
  BY <1>1, <1>2, <1>3, <1>4

LEMMA MadeCompatible ==
  ASSUME NEW P \in SUBSET Paths, NEW m \in [P -> Entries], \A p \in P : ParentOf[p] \notin P
  PROVE  m \in Compatible
<1>1. m \in UNION {[Q -> Entries] : Q \in SUBSET Paths}
  OBVIOUS
<1>2. DOMAIN m = P
  OBVIOUS
<1> QED
  BY <1>1, <1>2 DEF Compatible

LEMMA EmptyCompatible == <<>> \in Compatible /\ DOMAIN <<>> = {}
<1>1. <<>> \in [{} -> Entries] /\ DOMAIN <<>> = {}
  OBVIOUS
<1> QED
  BY <1>1, MadeCompatible

LEMMA BytesAre ==
  /\ \A b \in Bytes : b[1] \in Texts /\ b[2] \in Texts /\ b = <<b[1], b[2]>>
  /\ \A t, u \in Texts : /\ <<t, u>> \in Bytes /\ <<t, u>>[1] = t /\ <<t, u>>[2] = u
                         /\ Append(<<t>>, u) = <<t, u>> /\ Append(<<>>, t) = <<t>>
                         /\ <<t>> # <<>> /\ <<t>>[1] = t /\ Len(<<t>>) = 1
                         /\ <<t>> = <<u>> => t = u
  /\ \A b \in Bytes : Len(b) = 2 /\ b # <<>>
  /\ Len(<<>>) = 0
<1>1. \A t, u \in Texts : Append(<<t>>, u) = <<t, u>> /\ Append(<<>>, t) = <<t>>
  <2> SUFFICES ASSUME NEW t \in Texts, NEW u \in Texts
               PROVE  Append(<<t>>, u) = <<t, u>> /\ Append(<<>>, t) = <<t>>
    OBVIOUS
  <2>1. Append(<<t>>, u) = <<t, u>>
    <3> DEFINE a == Append(<<t>>, u)
    <3>1. <<t>> \in Seq(Texts) /\ Len(<<t>>) = 1 /\ <<t>>[1] = t
      OBVIOUS
    <3>2. a \in Seq(Texts) /\ Len(a) = 2 /\ a[1] = t /\ a[2] = u
      BY <3>1, AppendProperties
    <3>3. <<t, u>> \in Seq(Texts) /\ Len(<<t, u>>) = 2 /\ <<t, u>>[1] = t /\ <<t, u>>[2] = u
      OBVIOUS
    <3> HIDE DEF a
    <3>4. \A i \in 1 .. 2 : a[i] = <<t, u>>[i]
      BY <3>2, <3>3
    <3> QED
      BY <3>2, <3>3, <3>4, SeqEqual DEF a
  <2>2. Append(<<>>, t) = <<t>>
    BY <<>> \in Seq(Texts)
  <2> QED
    BY <2>1, <2>2
<1> QED
  BY <1>1 DEF Bytes

\* The second half completes the bytes.
LEMMA PairsAre == \A t, x \in Texts : Append(<<t>>, x) \in Bytes
<1> SUFFICES ASSUME NEW t \in Texts, NEW x \in Texts
             PROVE  Append(<<t>>, x) \in Bytes
  OBVIOUS
<1>1. Append(<<t>>, x) = <<t, x>> /\ <<t, x>> \in Bytes
  BY BytesAre
<1> QED
  BY <1>1

LEMMA TimesKept ==
  ASSUME TimesTell, now' = now, tied' = tied,
         \A b \in Bytes, t \in Nat : Carries(b, t)' => Carries(b, t)
  PROVE  TimesTell'
<1> QED
  BY DEF TimesTell

LEMMA StampingIs ==
  ASSUME Stamping, now \in Nat
  PROVE  /\ now' \in 1 .. MaxTime /\ now' \in Nat /\ now' \in 0 .. MaxTime /\ now <= now'
         /\ tied' \in BOOLEAN /\ (tied => tied') /\ (~tied' => ~tied /\ now < now')
<1>1. tied' \in BOOLEAN /\ (tied => tied') /\ (~tied' => ~tied /\ now' # now)
  BY Zenon DEF Stamping
<1>2. now' \in {now, now + 1} /\ now' \in 1 .. MaxTime
  BY DEF Stamping
<1>3. now' \in Nat /\ now' \in 0 .. MaxTime /\ now <= now' /\ (now' # now => now < now')
  BY <1>2, FilesAssumption
<1> QED
  BY <1>1, <1>2, <1>3

LEMMA TimesStamped ==
  ASSUME TimesTell, now \in Nat, Stamping, NEW n,
         \A b \in Bytes, t \in Nat : Carries(b, t)' => Carries(b, t) \/ (b = n /\ t = now')
  PROVE  TimesTell'
<1>1. now' \in Nat /\ now <= now' /\ (~tied' => ~tied /\ now < now')
  BY StampingIs
<1> SUFFICES ASSUME NEW b \in Bytes, NEW t \in Nat, Carries(b, t)'
             PROVE  t <= now' /\ (~tied' => \A c \in Bytes : Carries(c, t)' => b = c)
  BY DEF TimesTell
<1>2. t <= now'
  BY <1>1 DEF TimesTell
<1>3. ASSUME ~tied', NEW c \in Bytes, Carries(c, t)' PROVE b = c
  <2>1. CASE t = now'
    <3>1. ~Carries(b, t) /\ ~Carries(c, t)
      BY <1>1, <1>3, <2>1 DEF TimesTell
    <3> QED
      BY <1>3, <3>1
  <2>2. CASE t # now'
    BY <1>1, <1>3, <2>2 DEF TimesTell
  <2> QED
    BY <2>1, <2>2
<1> QED
  BY <1>2, <1>3

LEMMA FilesInvInit == FilesInit => FilesInv
<1> SUFFICES ASSUME FilesInit PROVE FilesInv
  OBVIOUS
<1> USE FilesAssumption DEF FilesInit
<1>1. PICK t \in Texts : \A o \in Texts : t <= o
  <2>1. Min(Texts) \in Texts /\ \A o \in Texts : Min(Texts) <= o
    BY NatMin
  <2> QED
    BY <2>1
<1>2. (CHOOSE x \in Texts : \A o \in Texts : x <= o) \in Texts
  BY <1>1
<1>3. StateTyped
  <2>1. NoGet \in GetStates
    BY EmptyCompatible DEF NoGet, GetStates
  <2>2. NoBlob \in Blobs /\ NoFile \in FileStates /\ NoFile.kind = "none" /\ <<>> \in Written
    BY DEF NoBlob, Blobs, NoFile, FileStates, Written, Checksums, Uri
  <2>3. now \in 0 .. MaxTime
    OBVIOUS
  <2>8. far \in BOOLEAN /\ tied \in BOOLEAN
    BY Zenon
  <2>4. sourceFile \in [Paths -> Texts] /\ object \in [text : Texts, up : BOOLEAN]
    BY <1>2
  <2>5. store \in [Machines -> [Bytes -> Blobs]] /\ root \in [Paths -> FileStates]
    BY <2>2
  <2>6. partial \in [Names -> Written] /\ get \in [Downloads -> GetStates]
    BY <2>1, <2>2
  <2>7. \A p \in Paths : root[p].kind # "file"
    BY <2>2
  <2> QED
    BY <2>3, <2>4, <2>5, <2>6, <2>7, <2>8 DEF StateTyped, DataTyped
<1>4. VersionsTyped
  BY EmptyCompatible DEF VersionsTyped, BuildStates, NoBuild, Written, Checksums, Uri
<1>5. BlobsMatchDigest
  BY DEF BlobsMatchDigest
<1>6. TimesTell
  BY DEF TimesTell, Carries, NoFile, NoGet, Copying
<1>7. WholeFiles /\ Lone
  BY DEF WholeFiles, Lone, NoFile, NoGet
<1>8. \A d \in Downloads : Follows(d)
  BY EmptyCompatible DEF Follows, Progress, PartialHolds, ProbeHolds, RootFollows, NoGet, OfFile, Copying,
     Downloading
<1> QED
  BY <1>3, <1>4, <1>5, <1>6, <1>7, <1>8 DEF FilesInv

\* What a download is about.
LEMMA AboutPath ==
  ASSUME FilesInv, NEW d \in Downloads, Downloading(d)
  PROVE  LET m == get[d].manifest
             p == PathOf(d) IN
         /\ get[d] \in GetStates /\ m \in Compatible
         /\ p \in get[d].todo /\ p \in DOMAIN m /\ p \in Paths /\ ParentOf[p] \notin DOMAIN m
         /\ ParentOf[p] \in Paths \/ ParentOf[p] = NoPath
         /\ EntryOf(d) = m[p]
         /\ m[p].ref \in BOOLEAN
         /\ ~m[p].ref => m[p].digest \in Bytes
         /\ m[p].ref => m[p].digest \in Checksums
<1> DEFINE m == get[d].manifest
           p == PathOf(d)
<1>1. get[d] \in GetStates
  BY DEF FilesInv, StateTyped, DataTyped
<1>2. m \in Compatible /\ get[d].todo \in SUBSET Paths
  BY <1>1 DEF GetStates
<1>3. get[d].todo # {} /\ get[d].todo \subseteq DOMAIN m
  BY DEF FilesInv, Follows, Progress
<1>4. p \in get[d].todo
  BY <1>2, <1>3, ForemostIn DEF PathOf
<1>5. EntryOf(d) = m[p]
  BY DEF EntryOf
<1> HIDE DEF m, p
<1>6. p \in DOMAIN m /\ p \in Paths
  BY <1>2, <1>3, <1>4 DEF m
<1>7. /\ ParentOf[p] \notin DOMAIN m /\ m[p].ref \in BOOLEAN
      /\ ~m[p].ref => m[p].digest \in Bytes
      /\ m[p].ref => m[p].digest \in Checksums
  BY <1>2, <1>6, CompatibleIs
<1>8. ParentOf[p] \in Paths \/ ParentOf[p] = NoPath
  BY <1>6, FilesAssumption
<1> QED
  BY <1>1, <1>2, <1>4, <1>5, <1>6, <1>7, <1>8 DEF m, p

\* A step that is not of a download and leaves its files alone.
LEMMA StillFollows ==
  ASSUME FilesInv, UNCHANGED <<root, partial, get, object>>, tied => tied'
  PROVE  WholeFiles' /\ Lone' /\ \A d \in Downloads : Follows(d)'
<1>1. WholeFiles'
  BY DEF FilesInv, WholeFiles, DigestsOfManifest
<1>2. Lone'
  BY DEF FilesInv, Lone, Downloading
<1>3. ASSUME NEW d \in Downloads PROVE Follows(d)'
  <2>0. Follows(d)
    BY DEF FilesInv
  <2>1. Progress(d)'
    BY <2>0 DEF Follows, Progress, Downloading, EntryOf, PathOf
  <2>2. PartialHolds(d)' /\ ProbeHolds(d)'
    BY <2>0 DEF Follows, PartialHolds, ProbeHolds, EntryOf, PathOf, PartialName
  <2>3. RootFollows(d)'
    BY <2>0 DEF Follows, RootFollows
  <2> QED
    BY <2>1, <2>2, <2>3 DEF Follows
<1> QED
  BY <1>1, <1>2, <1>3

\* A step of a download.
LEMMA DownloadStep ==
  ASSUME FilesInv, NEW d \in Downloads, Downloading(d),
         NEW g \in GetStates, get' = [get EXCEPT ![d] = g],
         g.manifest = get[d].manifest, g.alone = get[d].alone, g.pc # "idle",
         UNCHANGED <<far, sourceFile, object, build, versions>>,
         DataTyped', BlobsMatchDigest', TimesTell', tied => tied',
         \A n \in Names : n[1] # d => partial'[n] = partial[n],
         \A p \in Paths : root'[p].kind = "file" =>
            \/ root'[p] = root[p]
            \/ \E t \in Texts : root'[p].bytes = <<t, t>>
            \/ root'[p].bytes \in DigestsOfManifest(get[d].manifest),
         Follows(d)'
  PROVE  FilesInv'
<1>1. VersionsTyped'
  BY DEF FilesInv, VersionsTyped
<1>2. get \in [Downloads -> GetStates]
  BY DEF FilesInv, StateTyped, DataTyped
<1>3. get'[d] = g /\ \A e \in Downloads \ {d} : get'[e] = get[e]
  BY <1>2
<1>4. \A e \in Downloads : get'[e].manifest = get[e].manifest
  BY <1>3
<1>5. WholeFiles'
  <2> SUFFICES ASSUME NEW p \in Paths, root'[p].kind = "file"
               PROVE  \/ \E t \in Texts : root'[p].bytes = <<t, t>>
                      \/ \E e \in Downloads : root'[p].bytes \in DigestsOfManifest(get[e].manifest)
    BY <1>4 DEF WholeFiles, DigestsOfManifest
  <2> QED
    BY DEF FilesInv, WholeFiles
<1>6. Lone'
  <2> SUFFICES ASSUME NEW e \in Downloads, NEW f \in Downloads, e # f, get'[e].alone,
                      get'[e].pc # "idle", Downloading(f)'
               PROVE  FALSE
    BY DEF Lone
  <2>1. Lone
    BY DEF FilesInv
  <2>2. CASE e = d
    <3>1. get[d].alone /\ get[d].pc # "idle" /\ Downloading(f)
      BY <1>3, <2>2 DEF Downloading
    <3> QED
      BY <2>1, <2>2, <3>1 DEF Lone
  <2>3. CASE e # d
    <3>1. get[e].alone /\ get[e].pc # "idle"
      BY <1>3, <2>3
    <3> QED
      BY <2>1, <2>3, <3>1 DEF Lone
  <2> QED
    BY <2>2, <2>3
<1>7. ASSUME NEW e \in Downloads PROVE Follows(e)'
  <2>1. CASE e = d
    BY <2>1
  <2>2. CASE e # d
    <3>1. get'[e] = get[e] /\ Follows(e) /\ (get[e].alone => get[e].pc = "idle")
      BY <1>3, <2>2 DEF FilesInv, Lone
    <3>2. Progress(e)'
      BY <3>1 DEF Follows, Progress, Downloading, EntryOf, PathOf
    <3>3. ProbeHolds(e)' /\ RootFollows(e)'
      BY <3>1 DEF Follows, ProbeHolds, RootFollows, EntryOf, PathOf
    <3>4. PathOf(e)' = PathOf(e) /\ EntryOf(e)' = EntryOf(e)
      BY <3>1 DEF PathOf, EntryOf
    <3>5. CASE Downloading(e)
      <4>1. PathOf(e) \in Paths
        BY <3>5, AboutPath
      <4>2. PartialName(e, PathOf(e)) \in Names /\ PartialName(e, PathOf(e))[1] # d
        BY <4>1, <2>2 DEF PartialName, Names
      <4>3. PartialHolds(e)'
        BY <3>1, <3>4, <4>2 DEF Follows, PartialHolds, PartialName
      <4> QED
        BY <3>2, <3>3, <4>3 DEF Follows
    <3>6. CASE ~Downloading(e)
      BY <3>1, <3>2, <3>3, <3>6 DEF Follows, PartialHolds, Downloading
    <3> QED
      BY <3>5, <3>6
  <2> QED
    BY <2>1, <2>2
<1>8. StateTyped'
  BY <1>2 DEF StateTyped
<1> QED
  BY <1>1, <1>5, <1>6, <1>7, <1>8 DEF FilesInv

LEMMA RewriteSourceKeeps ==
  ASSUME FilesInv, NEW p \in Paths, NEW t \in Texts, RewriteSource(p, t)
  PROVE  FilesInv'
<1> USE DEF RewriteSource
<1>1. StateTyped'
  BY DEF FilesInv, StateTyped, DataTyped
<1>2. VersionsTyped' /\ BlobsMatchDigest'
  BY DEF FilesInv, VersionsTyped, BlobsMatchDigest
<1>3. TimesTell'
  <2>1. \A b \in Bytes, u \in Nat : Carries(b, u)' => Carries(b, u)
    BY DEF Carries, EntryOf, PathOf
  <2> QED
    BY <2>1, TimesKept DEF FilesInv
<1> QED
  BY <1>1, <1>2, <1>3, StillFollows DEF FilesInv

LEMMA ChangeObjectKeeps ==
  ASSUME FilesInv, ChangeObject
  PROVE  FilesInv'
<1>0. /\ UNCHANGED <<far, sourceFile, store, build, versions, root, partial, now, tied>>
      /\ object' \in [text : Texts, up : BOOLEAN]
  BY DEF ChangeObject, FilesInv, StateTyped, DataTyped
<1>1. get \in [Downloads -> GetStates]
  BY DEF FilesInv, StateTyped, DataTyped
<1>2. \A d \in Downloads :
         /\ get'[d] \in GetStates
         /\ get'[d].pc = get[d].pc /\ get'[d].manifest = get[d].manifest
         /\ get'[d].todo = get[d].todo /\ get'[d].alone = get[d].alone
         /\ get'[d].stamp = get[d].stamp
         /\ get'[d].empty = get[d].empty /\ get'[d].warned = get[d].warned
         /\ get'[d].fetched = get[d].fetched /\ (get[d].pc = "fetchref" => get'[d].moved)
  <2> SUFFICES ASSUME NEW d \in Downloads
               PROVE  /\ get'[d] \in GetStates
                      /\ get'[d].pc = get[d].pc /\ get'[d].manifest = get[d].manifest
                      /\ get'[d].todo = get[d].todo /\ get'[d].alone = get[d].alone
                      /\ get'[d].stamp = get[d].stamp
                      /\ get'[d].empty = get[d].empty /\ get'[d].warned = get[d].warned
                      /\ get'[d].fetched = get[d].fetched
                      /\ (get[d].pc = "fetchref" => get'[d].moved)
    OBVIOUS
  <2>1. PICK b \in BOOLEAN : /\ get'[d] = [get[d] EXCEPT !.moved = b]
                             /\ get[d].pc = "fetchref" => b
    BY Zenon DEF ChangeObject
  <2>2. get[d] \in GetStates
    BY <1>1
  <2> QED
    BY <2>1, <2>2 DEF GetStates
<1>3. \A d \in Downloads : PathOf(d)' = PathOf(d) /\ EntryOf(d)' = EntryOf(d)
                           /\ (Downloading(d)' <=> Downloading(d))
  BY <1>2 DEF PathOf, EntryOf, Downloading
<1>4. StateTyped'
  <2>1. get' \in [Downloads -> GetStates]
    BY <1>2 DEF ChangeObject
  <2> QED
    BY <1>0, <2>1 DEF FilesInv, StateTyped, DataTyped
<1>5. VersionsTyped' /\ BlobsMatchDigest'
  BY <1>0 DEF FilesInv, VersionsTyped, BlobsMatchDigest
<1>6. TimesTell'
  <2>1. \A b \in Bytes, u \in Nat : Carries(b, u)' => Carries(b, u)
    BY <1>0, <1>2 DEF Carries, EntryOf, PathOf
  <2> QED
    BY <1>0, <2>1, TimesKept DEF FilesInv
<1>7. WholeFiles'
  <2> SUFFICES ASSUME NEW p \in Paths, root[p].kind = "file"
               PROVE  \/ \E t \in Texts : root[p].bytes = <<t, t>>
                      \/ \E e \in Downloads : root[p].bytes \in DigestsOfManifest(get[e].manifest)
    BY <1>0, <1>2 DEF WholeFiles, DigestsOfManifest
  <2> QED
    BY DEF FilesInv, WholeFiles
<1>8. Lone'
  BY <1>2, <1>3 DEF FilesInv, Lone
<1>9. ASSUME NEW d \in Downloads PROVE Follows(d)'
  <2>0. Follows(d)
    BY DEF FilesInv
  <2>1. Progress(d)'
    BY <1>2, <1>3, <2>0 DEF Follows, Progress
  <2>2. PartialHolds(d)'
    BY <1>0, <1>2, <1>3, <2>0 DEF Follows, PartialHolds, PartialName
  <2>3. ProbeHolds(d)'
    BY <1>2 DEF ProbeHolds
  <2>4. RootFollows(d)'
    BY <1>0, <1>2, <2>0 DEF Follows, RootFollows
  <2> QED
    BY <2>1, <2>2, <2>3, <2>4 DEF Follows
<1> QED
  BY <1>4, <1>5, <1>6, <1>7, <1>8, <1>9 DEF FilesInv

LEMMA DisturbedIs ==
  ASSUME get \in [Downloads -> GetStates], NEW d \in Downloads
  PROVE  LET s == Disturbed(get)[d] IN
         /\ s \in GetStates
         /\ s.pc = get[d].pc /\ s.manifest = get[d].manifest /\ s.todo = get[d].todo
         /\ s.stamp = get[d].stamp /\ s.empty = get[d].empty /\ s.warned = get[d].warned
         /\ s.fetched = get[d].fetched /\ s.moved = get[d].moved
         /\ s.pc # "idle" => ~s.alone
         /\ s.pc = "idle" => s = get[d]
<1>1. get[d] \in GetStates
  OBVIOUS
<1>2. Disturbed(get)[d] = IF get[d].pc = "idle" THEN get[d] ELSE [get[d] EXCEPT !.alone = FALSE]
  BY DEF Disturbed
<1> QED
  BY <1>1, <1>2 DEF GetStates

LEMMA EntriesAre ==
  /\ \A g \in Bytes : FileEntry(g) \in Entries
  /\ \A c \in Checksums : RefEntry(c) \in Entries
BY DEF FileEntry, RefEntry, Entries

LEMMA EditFileKeeps ==
  ASSUME FilesInv, NEW q \in Paths, NEW t \in Texts, EditFile(q, t)
  PROVE  FilesInv'
<1>0. /\ UNCHANGED <<far, sourceFile, object, store, build, versions, partial>>
      /\ root' = [root EXCEPT ![q] = File(<<t, t>>, now')] /\ Stamping
      /\ get' = Disturbed(get)
  BY DEF EditFile
<1>1. /\ get \in [Downloads -> GetStates] /\ root \in [Paths -> FileStates] /\ now \in Nat
      /\ \A p \in Paths : root[p].kind = "file" => root[p].bytes \in Bytes
  BY FilesAssumption DEF FilesInv, StateTyped, DataTyped
<1>2. now' \in 0 .. MaxTime /\ tied' \in BOOLEAN /\ now' \in Nat /\ (tied => tied')
  BY <1>0, <1>1, StampingIs
<1>3. File(<<t, t>>, now') \in FileStates /\ <<t, t>> \in Bytes
  BY <1>2 DEF File, FileStates, Bytes
<1>4. \A d \in Downloads :
         /\ get'[d] \in GetStates
         /\ get'[d].pc = get[d].pc /\ get'[d].manifest = get[d].manifest
         /\ get'[d].todo = get[d].todo /\ get'[d].stamp = get[d].stamp
         /\ get'[d].warned = get[d].warned
         /\ get'[d].fetched = get[d].fetched /\ get'[d].moved = get[d].moved
         /\ get'[d].pc # "idle" => ~get'[d].alone
  BY <1>0, <1>1, DisturbedIs
<1>5. get' \in [Downloads -> GetStates]
  BY <1>0, <1>4 DEF Disturbed
<1>6. /\ root' \in [Paths -> FileStates]
      /\ \A p \in Paths : p # q => root'[p] = root[p]
      /\ root'[q].bytes = <<t, t>> /\ root'[q].time = now'
  <2>1. root'[q] = File(<<t, t>>, now')
    BY <1>0, <1>1
  <2>2. root'[q].bytes = <<t, t>> /\ root'[q].time = now'
    BY <2>1 DEF File
  <2> QED
    BY <1>0, <1>1, <1>3, <2>2
<1>7. StateTyped'
  <2>1. \A p \in Paths : root'[p].kind = "file" => root'[p].bytes \in Bytes
    BY <1>1, <1>3, <1>6
  <2> QED
    BY <1>0, <1>2, <1>5, <1>6, <2>1 DEF FilesInv, StateTyped, DataTyped
<1>8. VersionsTyped' /\ BlobsMatchDigest'
  BY <1>0 DEF FilesInv, VersionsTyped, BlobsMatchDigest
<1>9. TimesTell'
  <2>1. \A b \in Bytes, u \in Nat : Carries(b, u)' => Carries(b, u) \/ (b = <<t, t>> /\ u = now')
    <3> SUFFICES ASSUME NEW b \in Bytes, NEW u \in Nat, Carries(b, u)', ~(b = <<t, t>> /\ u = now')
                 PROVE  Carries(b, u)
      OBVIOUS
    <3>1. CASE \E m \in Machines : store[m][b] # NoBlob /\ store[m][b].time = u
      BY <3>1 DEF Carries
    <3>2. CASE \E p \in Paths : root'[p].kind = "file" /\ root'[p].bytes = b /\ root'[p].time = u
      <4>1. PICK p \in Paths : root'[p].kind = "file" /\ root'[p].bytes = b /\ root'[p].time = u
        BY <3>2
      <4>2. p # q
        BY <1>3, <1>6, <4>1
      <4> QED
        BY <1>6, <4>1, <4>2 DEF Carries
    <3>3. CASE (\E d \in Downloads : /\ get[d].pc \in Copying
                                     /\ EntryOf(d).digest = b /\ get[d].stamp = u)'
      BY <1>4, <3>3 DEF Carries, EntryOf, PathOf
    <3> QED
      BY <1>0, <3>1, <3>2, <3>3 DEF Carries
  <2> QED
    BY <1>0, <1>1, <2>1, TimesStamped DEF FilesInv
<1>10. WholeFiles'
  <2> SUFFICES ASSUME NEW p \in Paths, root'[p].kind = "file"
               PROVE  \/ \E x \in Texts : root'[p].bytes = <<x, x>>
                      \/ \E e \in Downloads : root'[p].bytes \in DigestsOfManifest(get[e].manifest)
    BY <1>4 DEF WholeFiles, DigestsOfManifest
  <2> QED
    <3>1. CASE p = q
      BY <1>3, <1>6, <3>1
    <3>2. CASE p # q
      BY <1>6, <3>2 DEF FilesInv, WholeFiles
    <3> QED
      BY <3>1, <3>2
<1>11. Lone'
  BY <1>4 DEF Lone
<1>12. ASSUME NEW d \in Downloads PROVE Follows(d)'
  <2>0. Follows(d)
    BY DEF FilesInv
  <2>1. Progress(d)'
    BY <1>4, <2>0 DEF Follows, Progress, PathOf, EntryOf, Downloading
  <2>2. PartialHolds(d)'
    BY <1>0, <1>4, <2>0 DEF Follows, PartialHolds, PartialName, PathOf, EntryOf
  <2>3. ProbeHolds(d)'
    BY <1>0, <1>4, <2>0 DEF Follows, ProbeHolds, PathOf, EntryOf
  <2>4. RootFollows(d)'
    BY <1>4 DEF RootFollows
  <2> QED
    BY <2>1, <2>2, <2>3, <2>4 DEF Follows
<1> QED
  BY <1>7, <1>8, <1>9, <1>10, <1>11, <1>12 DEF FilesInv

LEMMA BuildManifestKeeps ==
  ASSUME FilesInv, NEW F \in SUBSET Paths, NEW R \in SUBSET Paths, NEW c \in BOOLEAN,
         BuildManifest(F, R, c)
  PROVE  FilesInv'
<1>0. /\ UNCHANGED <<far, sourceFile, object, store, versions, root, partial, get, now, tied>>
      /\ F \cup R # {} /\ PathsCompatible(F, R) /\ Len(versions) < MaxVersions
  BY DEF BuildManifest
<1> DEFINE m == [p \in R |-> RefEntry(IF c THEN Probed ELSE Uri)]
<1>1. build' = [pc |-> "stage", todo |-> F, got |-> <<>>, manifest |-> m]
  BY DEF BuildManifest, NoBuild
<1>2. m \in [R -> Entries]
  <2>1. (IF c THEN Probed ELSE Uri) \in Checksums
    BY DEF Probed, Checksums, FilesInv, StateTyped, DataTyped
  <2> QED
    BY <2>1, EntriesAre
<1>3. m \in Compatible /\ DOMAIN m = R
  BY <1>0, <1>2, MadeCompatible DEF PathsCompatible
<1> HIDE DEF m
<1>4. StateTyped' /\ BlobsMatchDigest'
  BY <1>0 DEF FilesInv, StateTyped, DataTyped, BlobsMatchDigest
<1>5. VersionsTyped'
  <2>1. build' \in BuildStates
    BY <1>1, <1>3 DEF BuildStates, Written, Checksums, Uri
  <2> QED
    BY <1>0, <1>1, <1>3, <2>1 DEF FilesInv, VersionsTyped, PathsCompatible
<1>6. TimesTell'
  <2>1. \A b \in Bytes, u \in Nat : Carries(b, u)' => Carries(b, u)
    BY <1>0 DEF Carries, EntryOf, PathOf
  <2> QED
    BY <1>0, <2>1, TimesKept DEF FilesInv
<1> QED
  BY <1>0, <1>4, <1>5, <1>6, StillFollows DEF FilesInv

LEMMA ReadHalfKeeps ==
  ASSUME FilesInv, ReadHalf
  PROVE  FilesInv'
<1>0. /\ UNCHANGED <<far, sourceFile, object, store, versions, root, partial, get, now, tied>>
      /\ build.todo # {} /\ Len(build.got) < 2
      /\ build' = [build EXCEPT !.got = Append(@, sourceFile[Foremost(build.todo)])]
  BY DEF ReadHalf
<1>1. build \in BuildStates /\ sourceFile \in [Paths -> Texts]
  BY DEF FilesInv, StateTyped, DataTyped, VersionsTyped
<1>2. sourceFile[Foremost(build.todo)] \in Texts
  BY <1>0, <1>1, ForemostIn DEF BuildStates
<1>3. Append(build.got, sourceFile[Foremost(build.todo)]) \in Written
  <2>1. build.got \in Checksums
    BY <1>0, <1>1, BytesAre DEF BuildStates, Written
  <2> QED
    <3>1. CASE build.got = <<>>
      BY <1>2, <3>1, BytesAre DEF Written, Checksums
    <3>2. ASSUME NEW t \in Texts, build.got = <<t>> PROVE Append(build.got, sourceFile[Foremost(build.todo)]) \in Bytes
      <4> DEFINE x == sourceFile[Foremost(build.todo)]
      <4>1. x \in Texts
        BY <1>2
      <4> HIDE DEF x
      <4>2. Append(<<t>>, x) \in Bytes
        BY <4>1, PairsAre
      <4> QED
        BY <3>2, <4>2 DEF x
    <3> QED
      BY <2>1, <3>1, <3>2 DEF Written, Checksums, Uri
<1>4. build' \in BuildStates /\ build'.pc = build.pc /\ build'.todo = build.todo
      /\ build'.manifest = build.manifest
  BY <1>0, <1>1, <1>3 DEF BuildStates
<1>5. StateTyped' /\ BlobsMatchDigest'
  BY <1>0 DEF FilesInv, StateTyped, DataTyped, BlobsMatchDigest
<1>6. VersionsTyped'
  BY <1>0, <1>4 DEF FilesInv, VersionsTyped
<1>7. TimesTell'
  <2>1. \A b \in Bytes, u \in Nat : Carries(b, u)' => Carries(b, u)
    BY <1>0 DEF Carries, EntryOf, PathOf
  <2> QED
    BY <1>0, <2>1, TimesKept DEF FilesInv
<1> QED
  BY <1>0, <1>5, <1>6, <1>7, StillFollows DEF FilesInv

LEMMA StageBlobKeeps ==
  ASSUME FilesInv, StageBlob
  PROVE  FilesInv'
<1> DEFINE p == Foremost(build.todo)
           g == StagedDigest(p)
           known == store["server"][g] # NoBlob
<1>0. /\ UNCHANGED <<far, sourceFile, object, versions, root, partial, get, events>>
      /\ build.pc = "stage" /\ Len(build.got) = 2
      /\ g = build.got
      /\ IF known THEN UNCHANGED <<now, tied>> ELSE Stamping
      /\ store' = IF known THEN store
                  ELSE [store EXCEPT !["server"][g] = [bytes |-> build.got, time |-> now']]
  BY DEF StageBlob, StagedDigest
<1>1. /\ build \in BuildStates /\ now \in Nat /\ now \in 0 .. MaxTime /\ tied \in BOOLEAN
      /\ store \in [Machines -> [Bytes -> Blobs]]
      /\ build.got \in Written /\ build.todo \in SUBSET Paths /\ build.manifest \in Compatible
  BY FilesAssumption DEF FilesInv, StateTyped, DataTyped, VersionsTyped, BuildStates
<1>2. g \in Bytes
  <2>1. build.got \notin Checksums
    <3>1. \A t \in Texts : build.got # <<t>>
      BY <1>0, BytesAre
    <3>2. build.got # Uri
      BY <1>0, BytesAre DEF Uri
    <3> QED
      BY <3>1, <3>2 DEF Checksums
  <2> QED
    BY <1>0, <1>1, <2>1 DEF Written
<1>3. build' = [build EXCEPT !.got = <<>>, !.todo = @ \ {p},
                             !.manifest = [q \in DOMAIN build.manifest \cup {p} |->
                                              IF q = p THEN FileEntry(g) ELSE build.manifest[q]]]
  BY DEF StageBlob
<1>4. p \in build.todo
  BY <1>0, <1>1, ForemostIn, BytesAre DEF FilesInv, VersionsTyped
<1> HIDE DEF p, g
<1> DEFINE P == DOMAIN build.manifest \cup {p}
           m == [q \in P |-> IF q = p THEN FileEntry(g) ELSE build.manifest[q]]
<1>5. m \in [P -> Entries] /\ P \in SUBSET Paths
  BY <1>1, <1>2, <1>4, EntriesAre, CompatibleIs
<1>6. \A q \in P : ParentOf[q] \notin P
  BY <1>0, <1>4 DEF FilesInv, VersionsTyped
<1>7. m \in Compatible /\ DOMAIN m = P
  BY <1>5, <1>6, MadeCompatible
<1>8. /\ build' \in BuildStates /\ build'.pc = build.pc /\ build'.todo = build.todo \ {p}
      /\ DOMAIN build'.manifest = P /\ build'.got = <<>>
  <2> HIDE DEF m
  <2>1. build' = [build EXCEPT !.got = <<>>, !.todo = @ \ {p}, !.manifest = m]
    BY <1>3 DEF m
  <2> QED
    BY <1>1, <1>7, <2>1 DEF BuildStates, Written, Checksums, Uri
<1>9. VersionsTyped'
  <2>1. build'.todo \cup DOMAIN build'.manifest = build.todo \cup DOMAIN build.manifest
    BY <1>4, <1>8
  <2> QED
    BY <1>0, <1>8, <2>1, BytesAre DEF FilesInv, VersionsTyped
<1>10. now' \in 0 .. MaxTime /\ tied' \in BOOLEAN /\ now' \in Nat /\ (tied => tied')
  BY <1>0, <1>1, StampingIs
<1>11. /\ store' \in [Machines -> [Bytes -> Blobs]]
       /\ \A k \in Machines, b \in Bytes :
            \/ store'[k][b] = store[k][b]
            \/ ~known /\ b = g /\ store'[k][b].bytes = g /\ store'[k][b].time = now'
  <2>1. CASE known
    BY <1>0, <1>1, <2>1
  <2>2. CASE ~known
    <3> DEFINE n == [bytes |-> build.got, time |-> now']
    <3>1. n \in Blobs /\ n.bytes = g /\ n.time = now'
      BY <1>0, <1>2, <1>10 DEF Blobs
    <3> HIDE DEF n
    <3>2. store' = [store EXCEPT !["server"][g] = n]
      BY <1>0, <2>2 DEF n
    <3> QED
      BY <1>1, <1>2, <2>2, <3>1, <3>2 DEF Machines
  <2> QED
    BY <2>1, <2>2
<1>12. StateTyped'
  BY <1>0, <1>10, <1>11 DEF FilesInv, StateTyped, DataTyped
<1>13. BlobsMatchDigest'
  BY <1>11 DEF FilesInv, BlobsMatchDigest
<1>14. TimesTell'
  <2>1. ASSUME NEW b \in Bytes, NEW u \in Nat, Carries(b, u)'
        PROVE  Carries(b, u) \/ (~known /\ b = g /\ u = now')
    BY <1>0, <1>11, <2>1 DEF Carries, EntryOf, PathOf
  <2>2. CASE known
    <3>1. \A b \in Bytes, u \in Nat : Carries(b, u)' => Carries(b, u)
      BY <2>1, <2>2
    <3> QED
      BY <1>0, <2>2, <3>1, TimesKept DEF FilesInv
  <2>3. CASE ~known
    <3>1. \A b \in Bytes, u \in Nat : Carries(b, u)' => Carries(b, u) \/ (b = g /\ u = now')
      BY <2>1, <2>3
    <3> QED
      BY <1>0, <1>1, <2>3, <3>1, TimesStamped DEF FilesInv
  <2> QED
    BY <2>2, <2>3
<1> QED
  BY <1>0, <1>9, <1>10, <1>12, <1>13, <1>14, StillFollows DEF FilesInv

LEMMA CommitVersionKeeps ==
  ASSUME FilesInv, CommitVersion
  PROVE  FilesInv'
<1>0. /\ UNCHANGED <<far, sourceFile, object, store, root, partial, get, now, tied>>
      /\ build.pc = "stage" /\ build.todo = {} /\ build' = NoBuild
      /\ versions' = versions \/ versions' = Append(versions, build.manifest)
  BY DEF CommitVersion
<1>1. /\ build.manifest \in Compatible /\ DOMAIN build.manifest # {} /\ versions \in Seq(Compatible)
      /\ Len(versions) < MaxVersions
  BY <1>0 DEF FilesInv, VersionsTyped, BuildStates
<1>2. StateTyped' /\ BlobsMatchDigest'
  BY <1>0 DEF FilesInv, StateTyped, DataTyped, BlobsMatchDigest
<1>3. VersionsTyped'
  <2>1. build' \in BuildStates /\ build'.pc = "idle" /\ build'.got = <<>>
    BY <1>0, EmptyCompatible DEF NoBuild, BuildStates, Written, Checksums, Uri
  <2>2. CASE versions' = versions
    BY <2>1, <2>2, BytesAre DEF FilesInv, VersionsTyped
  <2>3. CASE versions' = Append(versions, build.manifest)
    <3>1. /\ versions' \in Seq(Compatible) /\ Len(versions') = Len(versions) + 1
          /\ versions'[Len(versions')] = build.manifest
          /\ \A v \in 1 .. Len(versions) : versions'[v] = versions[v]
      BY <1>1, <2>3, AppendProperties
    <3>2. Len(versions') <= MaxVersions
      BY <1>1, <3>1, FilesAssumption, LenProperties
    <3>3. ASSUME NEW v \in 1 .. Len(versions')
          PROVE  versions'[v] = <<>> \/ DOMAIN versions'[v] # {}
      <4>1. v \in 1 .. Len(versions) \/ v = Len(versions')
        BY <1>1, <3>1, LenProperties
      <4> QED
        BY <1>1, <3>1, <4>1 DEF FilesInv, VersionsTyped
    <3> QED
      BY <2>1, <3>1, <3>2, <3>3, BytesAre DEF VersionsTyped
  <2> QED
    BY <1>0, <2>2, <2>3
<1>4. TimesTell'
  <2>1. \A b \in Bytes, u \in Nat : Carries(b, u)' => Carries(b, u)
    BY <1>0 DEF Carries, EntryOf, PathOf
  <2> QED
    BY <1>0, <2>1, TimesKept DEF FilesInv
<1> QED
  BY <1>0, <1>2, <1>3, <1>4, StillFollows DEF FilesInv

LEMMA PurgeVersionKeeps ==
  ASSUME FilesInv, NEW v \in 1 .. Len(versions), PurgeVersion(v)
  PROVE  FilesInv'
<1>0. /\ UNCHANGED <<far, sourceFile, object, build, root, partial, get, now, tied>>
      /\ versions' = [versions EXCEPT ![v] = <<>>]
  BY DEF PurgeVersion
<1>1. versions \in Seq(Compatible) /\ store \in [Machines -> [Bytes -> Blobs]]
  BY DEF FilesInv, StateTyped, DataTyped, VersionsTyped
<1>2. PICK gone \in SUBSET Bytes :
        store' = [store EXCEPT !["server"] = [g \in Bytes |-> IF g \in gone THEN NoBlob
                                                              ELSE store["server"][g]]]
  <2> DEFINE named == UNION {DigestsOfManifest(versions'[w]) : w \in 1 .. Len(versions')}
             gone == {g \in Bytes : g \in DigestsOfManifest(versions[v]) \ named}
  <2>1. store' = [store EXCEPT !["server"] =
                    [g \in Bytes |-> IF g \in DigestsOfManifest(versions[v]) \ named THEN NoBlob
                                     ELSE store["server"][g]]]
    BY DEF PurgeVersion
  <2> HIDE DEF named
  <2>2. [g \in Bytes |-> IF g \in DigestsOfManifest(versions[v]) \ named THEN NoBlob
                         ELSE store["server"][g]]
        = [g \in Bytes |-> IF g \in gone THEN NoBlob ELSE store["server"][g]]
    OBVIOUS
  <2> QED
    BY <2>1, <2>2
<1>3. /\ store' \in [Machines -> [Bytes -> Blobs]]
      /\ \A k \in Machines, b \in Bytes : store'[k][b] = store[k][b] \/ store'[k][b] = NoBlob
  <2>1. NoBlob \in Blobs
    BY DEF NoBlob, Blobs
  <2> DEFINE s == [g \in Bytes |-> IF g \in gone THEN NoBlob ELSE store["server"][g]]
  <2>2. s \in [Bytes -> Blobs] /\ \A b \in Bytes : s[b] = store["server"][b] \/ s[b] = NoBlob
    BY <1>1, <2>1 DEF Machines
  <2> HIDE DEF s
  <2>3. store' = [store EXCEPT !["server"] = s]
    BY <1>2 DEF s
  <2> QED
    BY <1>1, <2>2, <2>3 DEF Machines
<1>4. StateTyped'
  BY <1>0, <1>3 DEF FilesInv, StateTyped, DataTyped
<1>5. BlobsMatchDigest'
  BY <1>3 DEF FilesInv, BlobsMatchDigest
<1>6. TimesTell'
  <2>1. \A b \in Bytes, u \in Nat : Carries(b, u)' => Carries(b, u)
    BY <1>0, <1>3 DEF Carries, EntryOf, PathOf
  <2> QED
    BY <1>0, <2>1, TimesKept DEF FilesInv
<1>7. VersionsTyped'
  <2>1. /\ versions' \in Seq(Compatible) /\ Len(versions') = Len(versions)
        /\ \A w \in 1 .. Len(versions) :
             versions'[w] = IF w = v THEN <<>> ELSE versions[w]
    BY <1>0, <1>1, EmptyCompatible
  <2> QED
    BY <1>0, <2>1 DEF FilesInv, VersionsTyped
<1> QED
  BY <1>0, <1>4, <1>5, <1>6, <1>7, StillFollows DEF FilesInv

LEMMA StartDownloadKeeps ==
  ASSUME FilesInv, NEW d \in Downloads, NEW v \in 1 .. Len(versions), StartDownload(d, v)
  PROVE  FilesInv'
<1> DEFINE others == \E e \in Downloads : Downloading(e)
           clear == \A p \in Paths : root[p].kind = "none"
           g == [NoGet EXCEPT !.pc = "look", !.manifest = versions[v], !.todo = DOMAIN versions[v],
                              !.alone = ~others, !.empty = clear]
<1>0. /\ UNCHANGED <<far, sourceFile, object, store, build, versions, root, partial, now, tied>>
      /\ get[d].pc = "idle" /\ versions[v] # <<>>
      /\ get' = [Disturbed(get) EXCEPT ![d] = g]
  BY DEF StartDownload
<1>1. get \in [Downloads -> GetStates] /\ versions[v] \in Compatible /\ DOMAIN versions[v] # {}
  BY <1>0 DEF FilesInv, StateTyped, DataTyped, VersionsTyped
<1>2. /\ g \in GetStates /\ g.pc = "look" /\ g.manifest = versions[v] /\ g.todo = DOMAIN versions[v]
      /\ g.alone => ~others
      /\ g.empty => clear
      /\ g.fetched = {}
  <2>1. PICK a \in BOOLEAN, c \in BOOLEAN : (a => ~others) /\ (c => clear) /\
           g = [NoGet EXCEPT !.pc = "look", !.manifest = versions[v], !.todo = DOMAIN versions[v],
                             !.alone = a, !.empty = c]
    BY Zenon
  <2>2. DOMAIN versions[v] \in SUBSET Paths
    BY <1>1, CompatibleIs
  <2> HIDE DEF g, others, clear
  <2> QED
    BY <1>1, <2>1, <2>2 DEF NoGet, GetStates
<1> HIDE DEF g, others, clear
<1>3. /\ get' \in [Downloads -> GetStates] /\ get'[d] = g
      /\ \A e \in Downloads \ {d} :
         /\ get'[e] \in GetStates
         /\ get'[e].pc = get[e].pc /\ get'[e].manifest = get[e].manifest
         /\ get'[e].todo = get[e].todo /\ get'[e].stamp = get[e].stamp
         /\ get'[e].warned = get[e].warned
         /\ get'[e].fetched = get[e].fetched /\ get'[e].moved = get[e].moved
         /\ get'[e].pc # "idle" => ~get'[e].alone
  <2>1. Disturbed(get) = [e \in Downloads |-> Disturbed(get)[e]]
    BY DEF Disturbed
  <2>2. \A e \in Downloads \ {d} : get'[e] = Disturbed(get)[e]
    BY <1>0, <2>1
  <2>3. get'[d] = g
    BY <1>0, <2>1
  <2>4. get' = [e \in Downloads |-> get'[e]]
    BY <1>0, <2>1
  <2>5. ASSUME NEW e \in Downloads \ {d}
        PROVE  /\ get'[e] \in GetStates
               /\ get'[e].pc = get[e].pc /\ get'[e].manifest = get[e].manifest
               /\ get'[e].todo = get[e].todo /\ get'[e].stamp = get[e].stamp
               /\ get'[e].warned = get[e].warned
               /\ get'[e].fetched = get[e].fetched /\ get'[e].moved = get[e].moved
               /\ get'[e].pc # "idle" => ~get'[e].alone
    BY <1>1, <2>2, DisturbedIs
  <2>6. \A e \in Downloads : get'[e] \in GetStates
    BY <1>2, <2>3, <2>5
  <2>7. get' \in [Downloads -> GetStates]
    BY <2>4, <2>6
  <2> QED
    BY <2>3, <2>5, <2>7
<1>4. StateTyped' /\ BlobsMatchDigest'
  BY <1>0, <1>3 DEF FilesInv, StateTyped, DataTyped, BlobsMatchDigest
<1>5. VersionsTyped'
  BY <1>0 DEF FilesInv, VersionsTyped
<1>6. TimesTell'
  <2>1. \A b \in Bytes, u \in Nat : Carries(b, u)' => Carries(b, u)
    BY <1>0, <1>2, <1>3 DEF Carries, EntryOf, PathOf, Copying
  <2> QED
    BY <1>0, <2>1, TimesKept DEF FilesInv
<1>7. WholeFiles'
  <2> SUFFICES ASSUME NEW p \in Paths, root[p].kind = "file"
               PROVE  \/ \E x \in Texts : root[p].bytes = <<x, x>>
                      \/ \E e \in Downloads : root[p].bytes \in DigestsOfManifest(get'[e].manifest)
    BY <1>0 DEF WholeFiles, DigestsOfManifest
  <2>1. ASSUME NEW e \in Downloads, root[p].bytes \in DigestsOfManifest(get[e].manifest)
        PROVE  e # d
    BY <1>0, <2>1, EmptyCompatible DEF DigestsOfManifest, FilesInv, Follows, Progress
  <2> QED
    BY <1>3, <2>1 DEF FilesInv, WholeFiles
<1>8. Lone'
  <2> SUFFICES ASSUME NEW e \in Downloads, NEW f \in Downloads, e # f,
                      get'[e].alone, get'[e].pc # "idle"
               PROVE  ~Downloading(f)'
    BY DEF Lone
  <2>1. e = d /\ ~others
    BY <1>2, <1>3
  <2> QED
    BY <1>3, <2>1 DEF others, Downloading
<1>9. ASSUME NEW e \in Downloads PROVE Follows(e)'
  <2>0. Follows(e)
    BY DEF FilesInv
  <2>1. CASE e # d
    <3>1. Progress(e)'
      BY <1>3, <2>0, <2>1 DEF Follows, Progress, PathOf, EntryOf, Downloading
    <3>2. PartialHolds(e)'
      BY <1>0, <1>3, <2>0, <2>1 DEF Follows, PartialHolds, PartialName, PathOf, EntryOf
    <3>3. ProbeHolds(e)'
      BY <1>0, <1>3, <2>0, <2>1 DEF Follows, ProbeHolds, PathOf, EntryOf
    <3>4. RootFollows(e)'
      BY <1>3, <2>1 DEF RootFollows
    <3> QED
      BY <3>1, <3>2, <3>3, <3>4 DEF Follows
  <2>2. CASE e = d
    <3>1. Progress(d)'
      BY <1>1, <1>2, <1>3 DEF Progress, OfFile, Copying, Downloading
    <3>2. PartialHolds(d)' /\ ProbeHolds(d)'
      BY <1>2, <1>3 DEF PartialHolds, ProbeHolds
    <3>3. RootFollows(d)'
      BY <1>0, <1>2, <1>3 DEF RootFollows, clear
    <3> QED
      BY <2>2, <3>1, <3>2, <3>3 DEF Follows
  <2> QED
    BY <2>1, <2>2
<1> QED
  BY <1>4, <1>5, <1>6, <1>7, <1>8, <1>9 DEF FilesInv

\* Alone in a directory that was empty, nothing is in a download's way.
LEMMA NothingInTheWay ==
  ASSUME FilesInv, NEW d \in Downloads, Downloading(d), get[d].alone, get[d].empty
  PROVE  ~Obstructed(PathOf(d)) /\ root[PathOf(d)].kind # "dir"
<1> DEFINE p == PathOf(d)
           m == get[d].manifest
<1>1. p \in DOMAIN m /\ p \in Paths /\ ParentOf[p] \notin DOMAIN m
      /\ (ParentOf[p] \in Paths \/ ParentOf[p] = NoPath)
  BY AboutPath
<1>2. \A q \in Paths : /\ root[q].kind = "file" => q \in DOMAIN m
                       /\ root[q].kind = "dir" => q \notin DOMAIN m
  BY DEF FilesInv, Follows, RootFollows, Downloading
<1> QED
  BY <1>1, <1>2 DEF Obstructed

LEMMA WithParentIs ==
  ASSUME FilesInv, NEW d \in Downloads, Downloading(d), NEW R \in [Paths -> FileStates],
         R = WithParent(root, PathOf(d))
  PROVE  \A q \in Paths :
           R[q] = root[q] \/ (R[q].kind = "dir" /\ q \notin DOMAIN get[d].manifest)
<1>1. ParentOf[PathOf(d)] \notin DOMAIN get[d].manifest
  BY AboutPath
<1>2. Dir.kind = "dir"
  BY DEF Dir, NoFile
<1>3. root \in [Paths -> FileStates]
  BY DEF FilesInv, StateTyped, DataTyped
<1> QED
  BY <1>1, <1>2, <1>3 DEF WithParent

LEMMA WithParentTyped ==
  ASSUME root \in [Paths -> FileStates], NEW p \in Paths
  PROVE  WithParent(root, p) \in [Paths -> FileStates]
<1>1. Dir \in FileStates
  BY DEF Dir, NoFile, FileStates
<1> QED
  BY <1>1 DEF WithParent

LEMMA RootFollowsOn ==
  ASSUME FilesInv, NEW d \in Downloads, Downloading(d),
         get'[d].manifest = get[d].manifest, get'[d].alone = get[d].alone,
         get'[d].empty = get[d].empty, get[d].warned => get'[d].warned, tied => tied',
         get'[d].pc = "shape" => ~(get[d].alone /\ get[d].empty),
         \A q \in Paths : \/ root'[q] = root[q]
                          \/ root'[q].kind = "dir" /\ q \notin DOMAIN get[d].manifest
                          \/ root'[q].kind = "file" /\ q \in get[d].todo,
         \A q \in get[d].todo \ get'[d].todo :
            ~get[d].manifest[q].ref /\ ~tied' =>
               root'[q].kind = "file" /\ root'[q].bytes = get[d].manifest[q].digest,
         \A q \in get'[d].fetched \ get[d].fetched :
            ~get'[d].warned /\ get[d].manifest[q].digest # Uri =>
               root'[q].bytes = <<get[d].manifest[q].digest[1], get[d].manifest[q].digest[1]>>
  PROVE  RootFollows(d)'
<1> DEFINE m == get[d].manifest
<1>1. /\ Progress(d) /\ RootFollows(d) /\ get[d].pc # "idle"
      /\ get[d].todo \subseteq DOMAIN m /\ DOMAIN m \subseteq Paths
  <2>1. m \in Compatible
    BY AboutPath
  <2> QED
    BY <2>1, CompatibleIs DEF FilesInv, Follows, Progress, Downloading
<1>2. \A q \in DOMAIN m \ get[d].todo : root'[q] = root[q]
  BY <1>1
<1> SUFFICES ASSUME get[d].alone
             PROVE  /\ ~tied' => \A p \in DOMAIN m \ get'[d].todo :
                         ~m[p].ref => root'[p].kind = "file" /\ root'[p].bytes = m[p].digest
                    /\ ~get'[d].warned => \A p \in get'[d].fetched :
                         m[p].digest # Uri => root'[p].bytes = <<m[p].digest[1], m[p].digest[1]>>
                    /\ get[d].empty => /\ get'[d].pc # "shape"
                         /\ \A p \in Paths : /\ root'[p].kind = "file" => p \in DOMAIN m
                                             /\ root'[p].kind = "dir" => p \notin DOMAIN m
  BY DEF RootFollows
<1>3. ASSUME ~tied', NEW p \in DOMAIN m \ get'[d].todo, ~m[p].ref
      PROVE  root'[p].kind = "file" /\ root'[p].bytes = m[p].digest
  <2>1. CASE p \in get[d].todo
    BY <1>3, <2>1
  <2>2. CASE p \notin get[d].todo
    BY <1>1, <1>2, <1>3, <2>2 DEF RootFollows
  <2> QED
    BY <2>1, <2>2
<1>4. ASSUME ~get'[d].warned, NEW p \in get'[d].fetched, m[p].digest # Uri
      PROVE  root'[p].bytes = <<m[p].digest[1], m[p].digest[1]>>
  <2>1. CASE p \in get[d].fetched
    <3>1. p \in DOMAIN m \ get[d].todo
      BY <1>1, <2>1 DEF Progress
    <3> QED
      BY <1>1, <1>2, <1>4, <2>1, <3>1 DEF RootFollows
  <2>2. CASE p \notin get[d].fetched
    BY <1>4, <2>2
  <2> QED
    BY <2>1, <2>2
<1>5. ASSUME get[d].empty
      PROVE  /\ get'[d].pc # "shape"
             /\ \A p \in Paths : /\ root'[p].kind = "file" => p \in DOMAIN m
                                 /\ root'[p].kind = "dir" => p \notin DOMAIN m
  BY <1>1, <1>5 DEF RootFollows
<1> QED
  BY <1>3, <1>4, <1>5

\* A download that only moves on.
LEMMA GoesKeeps ==
  ASSUME FilesInv, NEW d \in Downloads, Downloading(d), NEW x \in OfFile \cup {"failed", "shape"},
         Goes(d, x),
         UNCHANGED <<far, sourceFile, object, build, versions>>,
         DataTyped', BlobsMatchDigest', TimesTell', tied => tied',
         x \in OfFile => ~EntryOf(d).ref,
         x = "shape" => ~(get[d].alone /\ get[d].empty),
         x = "copying" => partial'[PartialName(d, PathOf(d))] = <<EntryOf(d).digest[1]>>,
         x = "replace" => partial'[PartialName(d, PathOf(d))] = EntryOf(d).digest,
         \A n \in Names : n[1] # d => partial'[n] = partial[n],
         \A q \in Paths : root'[q] = root[q]
                          \/ (root'[q].kind = "dir" /\ q \notin DOMAIN get[d].manifest)
  PROVE  FilesInv'
<1> DEFINE g == [get[d] EXCEPT !.pc = x]
<1>1. get[d] \in GetStates /\ get \in [Downloads -> GetStates]
  BY AboutPath DEF FilesInv, StateTyped
<1>2. /\ g \in GetStates /\ g.pc = x /\ g.todo = get[d].todo /\ g.manifest = get[d].manifest
      /\ g.alone = get[d].alone /\ g.empty = get[d].empty /\ g.warned = get[d].warned
      /\ g.fetched = get[d].fetched
  BY <1>1 DEF GetStates
<1>3. get' = [get EXCEPT ![d] = g]
  BY DEF Goes
<1> HIDE DEF g
<1>4. get'[d] = g
  BY <1>1, <1>3
<1>5. PathOf(d)' = PathOf(d) /\ EntryOf(d)' = EntryOf(d)
  BY <1>2, <1>4 DEF PathOf, EntryOf
<1>6. Follows(d)'
  <2>0. Progress(d) /\ get[d].todo # {}
    BY DEF FilesInv, Follows, Progress
  <2>1. Progress(d)'
    BY <1>2, <1>4, <1>5, <2>0 DEF Progress, OfFile, Copying
  <2>2. PartialHolds(d)' /\ ProbeHolds(d)'
    BY <1>2, <1>4, <1>5 DEF PartialHolds, ProbeHolds, PartialName, OfFile, Copying
  <2>3. RootFollows(d)'
    BY <1>2, <1>4, RootFollowsOn
  <2> QED
    BY <2>1, <2>2, <2>3 DEF Follows
<1>7. g.pc # "idle"
  BY <1>2 DEF OfFile, Copying
<1> QED
  BY <1>2, <1>3, <1>6, <1>7, DownloadStep

LEMMA GoesTimes ==
  ASSUME FilesInv, NEW d \in Downloads, Downloading(d), NEW x, Goes(d, x),
         x \in Copying => get[d].pc \in Copying,
         now' = now, tied' = tied, store' = store,
         \A q \in Paths : root'[q].kind = "file" => root'[q] = root[q]
  PROVE  TimesTell'
<1>1. get \in [Downloads -> GetStates] /\ get[d] \in GetStates
  BY DEF FilesInv, StateTyped
<1>2. /\ \A e \in Downloads \ {d} : get'[e] = get[e]
      /\ get'[d].pc = x /\ get'[d].todo = get[d].todo /\ get'[d].manifest = get[d].manifest
      /\ get'[d].stamp = get[d].stamp
  BY <1>1 DEF Goes, GetStates
<1>3. \A b \in Bytes, u \in Nat : Carries(b, u)' => Carries(b, u)
  BY <1>2 DEF Carries, EntryOf, PathOf
<1> QED
  BY <1>3, TimesKept DEF FilesInv

LEMMA LookForBlobKeeps ==
  ASSUME FilesInv, NEW d \in Downloads, LookForBlob(d)
  PROVE  FilesInv'
<1>0. /\ UNCHANGED <<far, sourceFile, object, store, build, versions, root, partial, now, tied>>
      /\ get[d].pc = "look" /\ ~EntryOf(d).ref
  BY DEF LookForBlob, At
<1>1. PICK x \in {"check", "fetch", "failed"} : Goes(d, x)
  BY DEF LookForBlob
<1>2. x \in OfFile \cup {"failed", "shape"} /\ x \notin Copying
  BY DEF OfFile, Copying
<1>3. DataTyped' /\ BlobsMatchDigest' /\ Downloading(d)
  BY <1>0 DEF FilesInv, StateTyped, DataTyped, BlobsMatchDigest, Downloading
<1>4. TimesTell'
  BY <1>0, <1>1, <1>2, <1>3, GoesTimes
<1> QED
  BY <1>0, <1>1, <1>2, <1>3, <1>4, GoesKeeps DEF Copying

LEMMA KillDownloadKeeps ==
  ASSUME FilesInv, NEW d \in Downloads, KillDownload(d)
  PROVE  FilesInv'
<1>0. /\ UNCHANGED <<far, sourceFile, object, store, build, versions, root, partial, now, tied>>
      /\ Downloading(d) /\ Goes(d, "failed")
  BY DEF KillDownload
<1>1. "failed" \notin OfFile /\ "failed" \notin Copying
  BY DEF OfFile, Copying
<1>2. DataTyped' /\ BlobsMatchDigest'
  BY <1>0 DEF FilesInv, StateTyped, DataTyped, BlobsMatchDigest
<1>3. TimesTell'
  BY <1>0, <1>1, GoesTimes
<1> QED
  BY <1>0, <1>1, <1>2, <1>3, GoesKeeps

LEMMA FetchBlobKeeps ==
  ASSUME FilesInv, NEW d \in Downloads, FetchBlob(d)
  PROVE  FilesInv'
<1> DEFINE g == EntryOf(d).digest
<1>0. /\ UNCHANGED <<far, sourceFile, object, build, versions, root, partial>>
      /\ get[d].pc = "fetch"
  BY DEF FetchBlob, At
<1>1. Downloading(d) /\ ~EntryOf(d).ref /\ g \in Bytes
  <2>1. Downloading(d) /\ ~EntryOf(d).ref
    BY <1>0 DEF Downloading, FilesInv, Follows, Progress, OfFile
  <2> QED
    BY <2>1, AboutPath
<1>2. /\ store \in [Machines -> [Bytes -> Blobs]] /\ now \in Nat /\ now \in 0 .. MaxTime
      /\ tied \in BOOLEAN
  BY FilesAssumption DEF FilesInv, StateTyped, DataTyped
<1>3. PICK x \in {"check", "failed"} : Goes(d, x) /\
        \/ UNCHANGED <<store, now, tied>>
        \/ Stamping /\ store' = [store EXCEPT !["client"][g] = [bytes |-> g, time |-> now']]
  BY DEF FetchBlob, Verified
<1> HIDE DEF g
<1>4. x \in OfFile \cup {"failed", "shape"} /\ x \notin Copying
  BY DEF OfFile, Copying
<1>5. CASE UNCHANGED <<store, now, tied>>
  <2>1. DataTyped' /\ BlobsMatchDigest'
    BY <1>0, <1>5 DEF FilesInv, StateTyped, DataTyped, BlobsMatchDigest
  <2>2. TimesTell'
    BY <1>0, <1>1, <1>3, <1>4, <1>5, GoesTimes
  <2> QED
    BY <1>0, <1>1, <1>3, <1>4, <1>5, <2>1, <2>2, GoesKeeps DEF Copying
<1>6. CASE Stamping /\ store' = [store EXCEPT !["client"][g] = [bytes |-> g, time |-> now']]
  <2> DEFINE n == [bytes |-> g, time |-> now']
  <2>1. now' \in 0 .. MaxTime /\ tied' \in BOOLEAN /\ now' \in Nat /\ (tied => tied')
    BY <1>2, <1>6, StampingIs
  <2>2. n \in Blobs /\ n.bytes = g /\ n.time = now'
    BY <1>1, <2>1 DEF Blobs
  <2> HIDE DEF n
  <2>3. store' = [store EXCEPT !["client"][g] = n]
    BY <1>6 DEF n
  <2>4. /\ store' \in [Machines -> [Bytes -> Blobs]]
        /\ \A k \in Machines, b \in Bytes :
             \/ store'[k][b] = store[k][b]
             \/ b = g /\ store'[k][b].bytes = g /\ store'[k][b].time = now'
    BY <1>1, <1>2, <2>2, <2>3 DEF Machines
  <2>5. DataTyped'
    BY <1>0, <2>1, <2>4 DEF FilesInv, StateTyped, DataTyped
  <2>6. BlobsMatchDigest'
    BY <2>4 DEF FilesInv, BlobsMatchDigest
  <2>7. get \in [Downloads -> GetStates] /\ get[d] \in GetStates
    BY DEF FilesInv, StateTyped
  <2>8. /\ \A e \in Downloads \ {d} : get'[e] = get[e]
        /\ get'[d].pc = x
    BY <1>3, <2>7 DEF Goes, GetStates
  <2>9. \A b \in Bytes, u \in Nat : Carries(b, u)' => Carries(b, u) \/ (b = g /\ u = now')
    BY <1>0, <1>4, <2>4, <2>8 DEF Carries, EntryOf, PathOf
  <2>10. TimesTell'
    BY <1>2, <1>6, <2>9, TimesStamped DEF FilesInv
  <2> QED
    BY <1>0, <1>1, <1>3, <1>4, <2>1, <2>5, <2>6, <2>10, GoesKeeps DEF Copying
<1> QED
  BY <1>3, <1>5, <1>6

LEMMA WithoutIs ==
  ASSUME NEW g \in GetStates, NEW p \in g.todo
  PROVE  LET w == Without(g, p) IN
         /\ w \in GetStates /\ w.pc \in {"look", "done"} /\ w.todo = g.todo \ {p}
         /\ w.manifest = g.manifest /\ w.alone = g.alone /\ w.empty = g.empty
         /\ w.warned = g.warned /\ w.fetched = g.fetched
         /\ w.pc = "done" <=> w.todo = {}
<1>1. PICK x \in {"look", "done"} :
        Without(g, p) = [g EXCEPT !.todo = @ \ {p}, !.stamp = 0, !.pc = x]
        /\ (x = "done" <=> g.todo = {p})
  BY DEF Without
<1>2. g.todo = {p} <=> g.todo \ {p} = {}
  OBVIOUS
<1> DEFINE left == g.todo \ {p}
           w == [g EXCEPT !.todo = left, !.stamp = 0, !.pc = x]
<1>3. left \in SUBSET Paths
  BY DEF GetStates
<1>4. w = Without(g, p)
  BY <1>1
<1> HIDE DEF left
<1>5. w \in GetStates
  BY <1>1, <1>3 DEF GetStates
<1>6. /\ w.pc = x /\ w.todo = left /\ w.manifest = g.manifest /\ w.alone = g.alone
      /\ w.empty = g.empty /\ w.warned = g.warned /\ w.fetched = g.fetched
  BY DEF GetStates
<1> HIDE DEF w
<1> QED
  BY <1>1, <1>2, <1>4, <1>5, <1>6 DEF left

\* A path is done.
LEMMA PathDone ==
  ASSUME FilesInv, NEW d \in Downloads, Downloading(d),
         NEW f \in SUBSET Paths, NEW w, w = [Without(get[d], PathOf(d)) EXCEPT !.fetched = f],
         w.fetched = get[d].fetched \/ (w.fetched = get[d].fetched \cup {PathOf(d)} /\ EntryOf(d).ref),
         get' = [get EXCEPT ![d] = w],
         UNCHANGED <<far, sourceFile, object, build, versions>>,
         DataTyped', BlobsMatchDigest', TimesTell', tied => tied',
         \A n \in Names : n[1] # d => partial'[n] = partial[n],
         \A q \in Paths \ {PathOf(d)} :
            \/ root'[q] = root[q]
            \/ root'[q].kind = "dir" /\ q \notin DOMAIN get[d].manifest,
         root'[PathOf(d)] = root[PathOf(d)] \/ root'[PathOf(d)].kind = "file",
         ~EntryOf(d).ref /\ ~tied' => /\ root'[PathOf(d)].kind = "file"
                                      /\ root'[PathOf(d)].bytes = EntryOf(d).digest,
         root'[PathOf(d)].kind = "file" =>
            \/ root'[PathOf(d)] = root[PathOf(d)]
            \/ \E t \in Texts : root'[PathOf(d)].bytes = <<t, t>>
            \/ ~EntryOf(d).ref /\ root'[PathOf(d)].bytes = EntryOf(d).digest,
         PathOf(d) \in w.fetched /\ ~w.warned /\ EntryOf(d).digest # Uri =>
            root'[PathOf(d)].bytes = <<EntryOf(d).digest[1], EntryOf(d).digest[1]>>
  PROVE  FilesInv'
<1> DEFINE p == PathOf(d)
           m == get[d].manifest
<1>1. /\ p \in get[d].todo /\ p \in DOMAIN m /\ p \in Paths /\ EntryOf(d) = m[p]
      /\ get \in [Downloads -> GetStates] /\ get[d] \in GetStates
  BY AboutPath DEF FilesInv, StateTyped
<1>2. /\ w \in GetStates
      /\ w.pc \in {"look", "done"} /\ w.todo = get[d].todo \ {p}
      /\ w.manifest = m /\ w.alone = get[d].alone /\ w.empty = get[d].empty
      /\ w.warned = get[d].warned
      /\ w.pc = "done" <=> w.todo = {}
  <2> DEFINE v == Without(get[d], p)
  <2>1. /\ v \in GetStates /\ v.pc \in {"look", "done"} /\ v.todo = get[d].todo \ {p}
        /\ v.manifest = m /\ v.alone = get[d].alone /\ v.empty = get[d].empty
        /\ v.warned = get[d].warned
        /\ v.pc = "done" <=> v.todo = {}
    BY <1>1, WithoutIs
  <2>2. w = [v EXCEPT !.fetched = f]
    OBVIOUS
  <2> HIDE DEF v, m, p
  <2>3. w \in GetStates
    BY <2>1, <2>2 DEF GetStates
  <2>4. /\ w.pc = v.pc /\ w.todo = v.todo /\ w.manifest = v.manifest /\ w.alone = v.alone
        /\ w.empty = v.empty /\ w.warned = v.warned
    BY <2>1, <2>2 DEF GetStates
  <2> QED
    BY <2>1, <2>3, <2>4
<1>3. get'[d] = w
  BY <1>1
<1>4. Follows(d)'
  <2>0. Progress(d)
    BY DEF FilesInv, Follows
  <2>1. Progress(d)'
    <3>1. \A q \in w.fetched : q \in DOMAIN m \ w.todo /\ m[q].ref
      BY <1>1, <1>2, <2>0 DEF Progress
    <3>2. w.todo \subseteq DOMAIN m
      BY <1>2, <2>0 DEF Progress
    <3>3. w.pc \notin OfFile /\ w.pc # "fetchref" /\ w.pc # "idle"
      BY <1>2 DEF OfFile, Copying
    <3> QED
      BY <1>2, <1>3, <3>1, <3>2, <3>3 DEF Progress, Downloading
  <2>2. PartialHolds(d)' /\ ProbeHolds(d)'
    BY <1>2, <1>3 DEF PartialHolds, ProbeHolds
  <2>3. RootFollows(d)'
    <3>1. \A q \in Paths : \/ root'[q] = root[q]
                           \/ root'[q].kind = "dir" /\ q \notin DOMAIN m
                           \/ root'[q].kind = "file" /\ q \in get[d].todo
      BY <1>1
    <3>2. \A q \in get[d].todo \ get'[d].todo :
             ~m[q].ref /\ ~tied' => root'[q].kind = "file" /\ root'[q].bytes = m[q].digest
      BY <1>1, <1>2, <1>3
    <3>3. \A q \in get'[d].fetched \ get[d].fetched :
             ~get'[d].warned /\ m[q].digest # Uri =>
               root'[q].bytes = <<m[q].digest[1], m[q].digest[1]>>
      BY <1>1, <1>3
    <3> QED
      BY <1>2, <1>3, <3>1, <3>2, <3>3, RootFollowsOn
  <2> QED
    BY <2>1, <2>2, <2>3 DEF Follows
<1>5. \A q \in Paths : root'[q].kind = "file" =>
         \/ root'[q] = root[q]
         \/ \E t \in Texts : root'[q].bytes = <<t, t>>
         \/ root'[q].bytes \in DigestsOfManifest(m)
  BY <1>1 DEF DigestsOfManifest
<1> QED
  BY <1>2, <1>3, <1>4, <1>5, DownloadStep

LEMMA OnFile ==
  ASSUME FilesInv, NEW d \in Downloads, get[d].pc \in OfFile
  PROVE  Downloading(d) /\ ~EntryOf(d).ref /\ EntryOf(d).digest \in Bytes
<1>1. Downloading(d) /\ ~EntryOf(d).ref
  BY DEF Downloading, FilesInv, Follows, Progress, OfFile, Copying
<1> QED
  BY <1>1, AboutPath

LEMMA CheckFileKeeps ==
  ASSUME FilesInv, NEW d \in Downloads, CheckFile(d)
  PROVE  FilesInv'
<1> DEFINE p == PathOf(d)
           g == EntryOf(d).digest
           b == store[Here][g]
<1>0. /\ UNCHANGED <<far, sourceFile, object, store, build, versions, partial, now, tied>>
      /\ get[d].pc = "check"
  BY DEF CheckFile, At
<1>1. /\ Downloading(d) /\ ~EntryOf(d).ref /\ g \in Bytes
      /\ p \in Paths /\ p \in get[d].todo /\ p \in DOMAIN get[d].manifest
      /\ get[d] \in GetStates /\ get \in [Downloads -> GetStates]
  <2>1. get[d].pc \in OfFile
    BY <1>0 DEF OfFile
  <2> QED
    BY <2>1, OnFile, AboutPath DEF FilesInv, StateTyped
<1>2. /\ root \in [Paths -> FileStates] /\ store \in [Machines -> [Bytes -> Blobs]]
      /\ Here \in Machines
  BY DEF FilesInv, StateTyped, DataTyped, Here, Machines
<1>3. b \in Blobs
  BY <1>1, <1>2
<1>4. \/ Obstructed(p) /\ Goes(d, "shape") /\ UNCHANGED root
      \/ /\ ~Obstructed(p)
         /\ root' = WithParent(root, p)
         /\ \/ get' = [get EXCEPT ![d] = [get[d] EXCEPT !.pc = "failed"]]
            \/ b # NoBlob /\ SameFile(root[p], b) /\ get' = [get EXCEPT ![d] = Without(get[d], p)]
            \/ b # NoBlob /\ get' = [get EXCEPT ![d] = [get[d] EXCEPT !.pc = "copy", !.stamp = b.time]]
  BY Zenon DEF CheckFile
<1> HIDE DEF p, g, b
<1>5. CASE Obstructed(p) /\ Goes(d, "shape") /\ UNCHANGED root
  <2>1. "shape" \notin OfFile /\ "shape" \notin Copying
    BY DEF OfFile, Copying
  <2>2. DataTyped' /\ BlobsMatchDigest'
    BY <1>0, <1>5 DEF FilesInv, StateTyped, DataTyped, BlobsMatchDigest
  <2>3. TimesTell'
    BY <1>0, <1>1, <1>5, <2>1, GoesTimes
  <2>4. ~(get[d].alone /\ get[d].empty)
    BY <1>1, <1>5, NothingInTheWay DEF p
  <2> QED
    BY <1>0, <1>1, <1>5, <2>1, <2>2, <2>3, <2>4, GoesKeeps
<1>6. ASSUME ~Obstructed(p), root' = WithParent(root, p)
      PROVE  /\ root' \in [Paths -> FileStates]
             /\ \A q \in Paths : root'[q] = root[q]
                                 \/ (root'[q].kind = "dir" /\ q \notin DOMAIN get[d].manifest)
             /\ root'[p] = root[p]
             /\ DataTyped' /\ BlobsMatchDigest'
  <2>1. root' \in [Paths -> FileStates]
    BY <1>1, <1>2, <1>6, WithParentTyped
  <2>2. \A q \in Paths : root'[q] = root[q]
                         \/ (root'[q].kind = "dir" /\ q \notin DOMAIN get[d].manifest)
    BY <1>1, <1>6, <2>1, WithParentIs DEF p
  <2>3. \A q \in Paths : root'[q].kind = "file" => root'[q].bytes \in Bytes
    BY <2>2 DEF FilesInv, StateTyped, DataTyped
  <2>4. DataTyped' /\ BlobsMatchDigest'
    BY <1>0, <2>1, <2>3 DEF FilesInv, StateTyped, DataTyped, BlobsMatchDigest
  <2> QED
    BY <1>1, <2>1, <2>2, <2>4
<1>7. CASE /\ ~Obstructed(p) /\ root' = WithParent(root, p)
           /\ get' = [get EXCEPT ![d] = [get[d] EXCEPT !.pc = "failed"]]
  <2>1. "failed" \notin OfFile /\ "failed" \notin Copying
    BY DEF OfFile, Copying
  <2>2. Goes(d, "failed")
    BY <1>7 DEF Goes
  <2>3. TimesTell'
    BY <1>0, <1>1, <1>6, <1>7, <2>1, <2>2, GoesTimes
  <2> QED
    BY <1>0, <1>1, <1>6, <1>7, <2>1, <2>2, <2>3, GoesKeeps
<1>8. CASE /\ ~Obstructed(p) /\ root' = WithParent(root, p)
           /\ b # NoBlob /\ SameFile(root[p], b)
           /\ get' = [get EXCEPT ![d] = Without(get[d], p)]
  <2> DEFINE w == Without(get[d], p)
  <2>1. /\ w \in GetStates /\ w.pc \in {"look", "done"} /\ w.fetched = get[d].fetched
    BY <1>1, WithoutIs
  <2>2. w = [w EXCEPT !.fetched = get[d].fetched] /\ get[d].fetched \in SUBSET Paths
    BY <1>1, <2>1 DEF GetStates
  <2> HIDE DEF w
  <2>3. get'[d] = w /\ \A e \in Downloads \ {d} : get'[e] = get[e]
    BY <1>1, <1>8 DEF w
  <2>4. TimesTell'
    <3>1. \A c \in Bytes, u \in Nat : Carries(c, u)' => Carries(c, u)
      BY <1>0, <1>6, <1>8, <2>1, <2>3 DEF Carries, EntryOf, PathOf, Copying
    <3> QED
      BY <1>0, <3>1, TimesKept DEF FilesInv
  <2>5. root'[p].kind = "file" /\ (~tied' => root'[p].bytes = g)
    <3>1. root[p].kind = "file" /\ root[p].time = b.time /\ b.time \in Nat
          /\ root[p].bytes \in Bytes
      BY <1>1, <1>3, <1>8 DEF SameFile, FilesInv, StateTyped, DataTyped, Blobs
    <3>2. Carries(root[p].bytes, b.time) /\ Carries(g, b.time)
      BY <1>1, <1>2, <1>8, <3>1 DEF Carries, b
    <3>3. ~tied => root[p].bytes = g
      BY <1>1, <3>1, <3>2 DEF FilesInv, TimesTell
    <3> QED
      BY <1>0, <1>6, <1>8, <3>1, <3>3
  <2>6. /\ get[d].fetched \in SUBSET Paths
        /\ w = [Without(get[d], PathOf(d)) EXCEPT !.fetched = get[d].fetched]
    BY <2>2 DEF w, p
  <2>7. p \notin w.fetched
    BY <1>1, <2>1 DEF FilesInv, Follows, Progress
  <2> QED
    <3>1. get' = [get EXCEPT ![d] = w]
      BY <1>8 DEF w
    <3>2. /\ root'[PathOf(d)] = root[PathOf(d)] /\ root'[PathOf(d)].kind = "file"
          /\ ~tied' => root'[PathOf(d)].bytes = EntryOf(d).digest
          /\ PathOf(d) \notin w.fetched
      BY <1>6, <1>8, <2>5, <2>7 DEF p, g
    <3>3. /\ DataTyped' /\ BlobsMatchDigest'
          /\ UNCHANGED <<far, sourceFile, object, build, versions>>
          /\ tied => tied'
          /\ \A n \in Names : n[1] # d => partial'[n] = partial[n]
      BY <1>0, <1>6, <1>8
    <3>4. \A q \in Paths \ {PathOf(d)} :
             \/ root'[q] = root[q]
             \/ root'[q].kind = "dir" /\ q \notin DOMAIN get[d].manifest
      BY <1>6, <1>8
    <3>5. w.fetched = get[d].fetched
      BY <2>1
    <3> QED
      BY <1>1, <2>4, <2>6, <3>1, <3>2, <3>3, <3>4, <3>5, PathDone
<1>9. CASE /\ ~Obstructed(p) /\ root' = WithParent(root, p) /\ b # NoBlob
           /\ get' = [get EXCEPT ![d] = [get[d] EXCEPT !.pc = "copy", !.stamp = b.time]]
  <2> DEFINE w == [get[d] EXCEPT !.pc = "copy", !.stamp = b.time]
  <2>1. b.time \in Nat
    BY <1>3 DEF Blobs
  <2>2. /\ w \in GetStates /\ w.pc = "copy" /\ w.stamp = b.time /\ w.fetched = get[d].fetched
        /\ w.todo = get[d].todo /\ w.manifest = get[d].manifest /\ w.alone = get[d].alone
        /\ w.empty = get[d].empty /\ w.warned = get[d].warned
    BY <1>1, <2>1 DEF GetStates, OfFile, Copying
  <2> HIDE DEF w
  <2>3. get'[d] = w /\ \A e \in Downloads \ {d} : get'[e] = get[e]
    BY <1>1, <1>9 DEF w
  <2>4. PathOf(d)' = PathOf(d) /\ EntryOf(d)' = EntryOf(d)
    BY <2>2, <2>3 DEF PathOf, EntryOf
  <2>5. TimesTell'
    <3>1. ASSUME NEW c \in Bytes, NEW u \in Nat, Carries(c, u)' PROVE Carries(c, u)
      <4>1. CASE \E m \in Machines : store[m][c] # NoBlob /\ store[m][c].time = u
        BY <4>1 DEF Carries
      <4>2. CASE \E q \in Paths : root'[q].kind = "file" /\ root'[q].bytes = c /\ root'[q].time = u
        BY <1>6, <1>9, <4>2 DEF Carries
      <4>3. CASE (\E e \in Downloads : /\ get[e].pc \in Copying
                                       /\ EntryOf(e).digest = c /\ get[e].stamp = u)'
        <5>1. PICK e \in Downloads : /\ get'[e].pc \in Copying
                                     /\ EntryOf(e)'.digest = c /\ get'[e].stamp = u
          BY <4>3
        <5>2. CASE e = d
          <6>1. c = g /\ u = b.time
            BY <2>2, <2>3, <2>4, <5>1, <5>2 DEF g
          <6> QED
            BY <1>2, <1>9, <6>1 DEF Carries, b
        <5>3. CASE e # d
          BY <2>3, <5>1, <5>3 DEF Carries, EntryOf, PathOf
        <5> QED
          BY <5>2, <5>3
      <4> QED
        BY <1>0, <3>1, <4>1, <4>2, <4>3 DEF Carries
    <3> QED
      BY <1>0, <3>1, TimesKept DEF FilesInv
  <2>6. Follows(d)'
    <3>0. Progress(d)
      BY DEF FilesInv, Follows
    <3>1. Progress(d)'
      BY <1>1, <2>2, <2>3, <2>4, <3>0 DEF Progress, Downloading
    <3>2. PartialHolds(d)' /\ ProbeHolds(d)'
      BY <2>2, <2>3 DEF PartialHolds, ProbeHolds
    <3>3. RootFollows(d)'
      BY <1>0, <1>1, <1>6, <1>9, <2>2, <2>3, RootFollowsOn
    <3> QED
      BY <3>1, <3>2, <3>3 DEF Follows
  <2> QED
    BY <1>0, <1>1, <1>6, <1>9, <2>2, <2>5, <2>6, DownloadStep DEF w
<1> QED
  BY <1>4, <1>5, <1>7, <1>8, <1>9

LEMMA CopyHalfKeeps ==
  ASSUME FilesInv, NEW d \in Downloads, CopyHalf(d)
  PROVE  FilesInv'
<1> DEFINE n == PartialName(d, PathOf(d))
           g == EntryOf(d).digest
<1>0. /\ UNCHANGED <<far, sourceFile, object, store, build, versions, root, now, tied>>
      /\ get[d].pc \in {"copy", "copying"}
  BY DEF CopyHalf, At
<1>1. /\ Downloading(d) /\ ~EntryOf(d).ref /\ g \in Bytes /\ n \in Names /\ n[1] = d
      /\ get[d].pc \in Copying
  <2>1. get[d].pc \in OfFile /\ get[d].pc \in Copying
    BY <1>0 DEF OfFile, Copying
  <2>2. PathOf(d) \in Paths
    BY <2>1, OnFile, AboutPath
  <2> QED
    BY <2>1, <2>2, OnFile DEF PartialName, Names
<1>2. partial \in [Names -> Written]
  BY DEF FilesInv, StateTyped, DataTyped
<1>3. \/ Goes(d, "failed") /\ UNCHANGED partial
      \/ get[d].pc = "copy" /\ Goes(d, "copying") /\ partial' = [partial EXCEPT ![n] = <<g[1]>>]
      \/ /\ get[d].pc = "copying" /\ Goes(d, "replace")
         /\ partial' = [partial EXCEPT ![n] = IF partial[n] = <<>> THEN partial[n]
                                              ELSE <<partial[n][1], g[2]>>]
  BY <1>0 DEF CopyHalf
<1>4. get[d].pc = "copying" => partial[n] = <<g[1]>>
  BY DEF FilesInv, Follows, PartialHolds
<1> HIDE DEF n, g
<1>5. <<g[1]>> \in Written /\ g \in Written
  BY <1>1, BytesAre DEF Written, Checksums
<1>6. BlobsMatchDigest'
  BY <1>0 DEF FilesInv, BlobsMatchDigest
<1>7. ASSUME partial' \in [Names -> Written] PROVE DataTyped'
  BY <1>0, <1>7 DEF FilesInv, StateTyped, DataTyped
<1>8. CASE Goes(d, "failed") /\ UNCHANGED partial
  <2>1. "failed" \notin OfFile /\ "failed" \notin Copying
    BY DEF OfFile, Copying
  <2>2. TimesTell'
    BY <1>0, <1>1, <1>8, <2>1, GoesTimes
  <2> QED
    BY <1>0, <1>1, <1>2, <1>6, <1>7, <1>8, <2>1, <2>2, GoesKeeps
<1>9. ASSUME NEW x \in {"copying", "replace"}, Goes(d, x), NEW y \in Written,
             partial' = [partial EXCEPT ![n] = y],
             x = "copying" => y = <<g[1]>>, x = "replace" => y = g
      PROVE  FilesInv'
  <2>1. x \in OfFile
    BY DEF OfFile, Copying
  <2>2. TimesTell'
    BY <1>0, <1>1, <1>9, GoesTimes
  <2>3. partial' \in [Names -> Written] /\ partial'[n] = y
        /\ \A k \in Names : k[1] # d => partial'[k] = partial[k]
    BY <1>1, <1>2, <1>9
  <2> QED
    BY <1>0, <1>1, <1>6, <1>7, <1>9, <2>1, <2>2, <2>3, GoesKeeps DEF n, g
<1>10. CASE get[d].pc = "copy" /\ Goes(d, "copying") /\ partial' = [partial EXCEPT ![n] = <<g[1]>>]
  BY <1>5, <1>9, <1>10
<1>11. CASE /\ get[d].pc = "copying" /\ Goes(d, "replace")
            /\ partial' = [partial EXCEPT ![n] = IF partial[n] = <<>> THEN partial[n]
                                                 ELSE <<partial[n][1], g[2]>>]
  <2>1. g[1] \in Texts /\ g = <<g[1], g[2]>>
    BY <1>1, BytesAre
  <2>2. partial[n] # <<>> /\ partial[n][1] = g[1]
    BY <1>4, <1>11, <2>1, BytesAre
  <2>3. partial' = [partial EXCEPT ![n] = g]
    BY <1>11, <2>1, <2>2
  <2> QED
    BY <1>5, <1>9, <1>11, <2>3
<1> QED
  BY <1>3, <1>8, <1>10, <1>11

LEMMA ReplaceFileKeeps ==
  ASSUME FilesInv, NEW d \in Downloads, ReplaceFile(d)
  PROVE  FilesInv'
<1> DEFINE p == PathOf(d)
           n == PartialName(d, p)
           g == EntryOf(d).digest
           w == Without(get[d], p)
           file == File(g, get[d].stamp)
<1>0. /\ UNCHANGED <<far, sourceFile, object, store, build, versions, now, tied>>
      /\ get[d].pc = "replace" /\ partial' = [partial EXCEPT ![n] = <<>>]
  BY DEF ReplaceFile, At
<1>1. /\ Downloading(d) /\ ~EntryOf(d).ref /\ g \in Bytes /\ n \in Names /\ n[1] = d
      /\ p \in Paths /\ p \in get[d].todo /\ p \in DOMAIN get[d].manifest
      /\ get[d] \in GetStates /\ get \in [Downloads -> GetStates]
      /\ partial[n] = g /\ get[d].pc \in Copying
  <2>1. get[d].pc \in OfFile /\ get[d].pc \in Copying
    BY <1>0 DEF OfFile, Copying
  <2>2. partial[n] = g
    BY <1>0 DEF FilesInv, Follows, PartialHolds
  <2>3. p \in Paths /\ p \in get[d].todo /\ p \in DOMAIN get[d].manifest
    BY <2>1, OnFile, AboutPath
  <2> QED
    BY <2>1, <2>2, <2>3, OnFile DEF FilesInv, StateTyped, PartialName, Names
<1>2. \/ root[p].kind = "dir" /\ Goes(d, "shape") /\ UNCHANGED root
      \/ Goes(d, "failed") /\ UNCHANGED root
      \/ root' = [root EXCEPT ![p] = file] /\ get' = [get EXCEPT ![d] = w]
  BY <1>1 DEF ReplaceFile
<1>3. /\ partial' \in [Names -> Written]
      /\ \A k \in Names : k[1] # d => partial'[k] = partial[k]
  <2>1. <<>> \in Written
    BY DEF Written, Checksums, Uri
  <2> QED
    BY <1>0, <1>1, <2>1 DEF FilesInv, StateTyped, DataTyped
<1>4. BlobsMatchDigest'
  BY <1>0 DEF FilesInv, BlobsMatchDigest
<1>5. root \in [Paths -> FileStates]
      /\ \A q \in Paths : root[q].kind = "file" => root[q].bytes \in Bytes
  BY DEF FilesInv, StateTyped, DataTyped
<1>6. file \in FileStates /\ file.kind = "file" /\ file.bytes = g /\ file.time = get[d].stamp
      /\ get[d].stamp \in Nat
  BY <1>1 DEF File, FileStates, GetStates
<1>7. /\ w \in GetStates /\ w.pc \in {"look", "done"} /\ w.fetched = get[d].fetched
      /\ w = [w EXCEPT !.fetched = get[d].fetched] /\ get[d].fetched \in SUBSET Paths
  BY <1>1, WithoutIs DEF GetStates
<1> HIDE DEF p, n, g, w, file
<1>8. ASSUME NEW x \in {"shape", "failed"}, Goes(d, x), UNCHANGED root,
             x = "shape" => root[p].kind = "dir"
      PROVE  FilesInv'
  <2>1. x \notin OfFile /\ x \notin Copying /\ x \in OfFile \cup {"failed", "shape"}
    BY DEF OfFile, Copying
  <2>2. DataTyped'
    BY <1>0, <1>3, <1>8 DEF FilesInv, StateTyped, DataTyped
  <2>3. TimesTell'
    BY <1>0, <1>1, <1>8, <2>1, GoesTimes
  <2>4. x = "shape" => ~(get[d].alone /\ get[d].empty)
    BY <1>1, <1>8, NothingInTheWay DEF p
  <2> QED
    BY <1>0, <1>1, <1>3, <1>4, <1>8, <2>1, <2>2, <2>3, <2>4, GoesKeeps
<1>9. CASE root' = [root EXCEPT ![p] = file] /\ get' = [get EXCEPT ![d] = w]
  <2>1. /\ root' \in [Paths -> FileStates] /\ root'[p] = file
        /\ \A q \in Paths \ {p} : root'[q] = root[q]
    BY <1>1, <1>5, <1>6, <1>9
  <2>2. \A q \in Paths : root'[q].kind = "file" => root'[q].bytes \in Bytes
    BY <1>1, <1>5, <1>6, <2>1
  <2>3. DataTyped'
    BY <1>0, <1>3, <2>1, <2>2 DEF FilesInv, StateTyped, DataTyped
  <2>4. get'[d] = w /\ \A e \in Downloads \ {d} : get'[e] = get[e]
    BY <1>1, <1>9
  <2>5. TimesTell'
    <3>1. ASSUME NEW c \in Bytes, NEW u \in Nat, Carries(c, u)' PROVE Carries(c, u)
      <4>1. CASE \E m \in Machines : store[m][c] # NoBlob /\ store[m][c].time = u
        BY <4>1 DEF Carries
      <4>2. CASE \E q \in Paths : root'[q].kind = "file" /\ root'[q].bytes = c /\ root'[q].time = u
        <5>1. PICK q \in Paths : root'[q].kind = "file" /\ root'[q].bytes = c /\ root'[q].time = u
          BY <4>2
        <5>2. CASE q = p
          <6>1. c = g /\ u = get[d].stamp
            BY <1>6, <2>1, <5>1, <5>2
          <6> QED
            BY <1>1, <6>1 DEF Carries, g
        <5>3. CASE q # p
          BY <2>1, <5>1, <5>3 DEF Carries
        <5> QED
          BY <5>2, <5>3
      <4>3. CASE (\E e \in Downloads : /\ get[e].pc \in Copying
                                       /\ EntryOf(e).digest = c /\ get[e].stamp = u)'
        BY <1>7, <2>4, <4>3 DEF Carries, EntryOf, PathOf, Copying
      <4> QED
        BY <1>0, <3>1, <4>1, <4>2, <4>3 DEF Carries
    <3> QED
      BY <1>0, <3>1, TimesKept DEF FilesInv
  <2>6. w = [Without(get[d], PathOf(d)) EXCEPT !.fetched = get[d].fetched]
    BY <1>7 DEF w, p
  <2>7. /\ root'[PathOf(d)].kind = "file" /\ root'[PathOf(d)].bytes = EntryOf(d).digest
        /\ PathOf(d) \notin w.fetched
    <3>1. p \notin get[d].fetched
      BY <1>1 DEF FilesInv, Follows, Progress
    <3> QED
      BY <1>6, <1>7, <2>1, <3>1 DEF p, g
  <2>8. /\ UNCHANGED <<far, sourceFile, object, build, versions>> /\ (tied => tied')
        /\ \A k \in Names : k[1] # d => partial'[k] = partial[k]
        /\ \A q \in Paths \ {PathOf(d)} : root'[q] = root[q]
        /\ w.fetched = get[d].fetched /\ get[d].fetched \in SUBSET Paths
    BY <1>0, <1>3, <1>7, <2>1 DEF p
  <2> QED
    BY <1>1, <1>4, <1>9, <2>3, <2>5, <2>6, <2>7, <2>8, PathDone
<1> QED
  BY <1>2, <1>8, <1>9

LEMMA ProbeReferenceKeeps ==
  ASSUME FilesInv, NEW d \in Downloads, ProbeReference(d)
  PROVE  FilesInv'
<1> DEFINE p == PathOf(d)
           g == EntryOf(d).digest
           w == Without(get[d], p)
           v == [get[d] EXCEPT !.pc = "fetchref", !.moved = FALSE, !.warned = get[d].warned \/ Changed(g)]
<1>0. /\ UNCHANGED <<far, sourceFile, object, store, build, versions, root, partial, now, tied>>
      /\ get[d].pc = "look" /\ EntryOf(d).ref
      /\ \/ root[p].kind = "file" /\ get' = [get EXCEPT ![d] = w]
         \/ get' = [get EXCEPT ![d] = v]
  <2>1. /\ UNCHANGED <<far, sourceFile, object, store, build, versions, root, partial, now, tied>>
        /\ get[d].pc = "look" /\ EntryOf(d).ref
    BY DEF ProbeReference, At
  <2>2. get' = [get EXCEPT ![d] = IF root[p].kind = "file" THEN w ELSE v]
    BY Zenon DEF ProbeReference
  <2> HIDE DEF p, w, v
  <2> QED
    BY <2>1, <2>2
<1>1. Downloading(d)
  BY <1>0 DEF Downloading
<1>2. /\ p \in Paths /\ p \in get[d].todo /\ p \in DOMAIN get[d].manifest /\ g \in Checksums
      /\ get[d] \in GetStates /\ get \in [Downloads -> GetStates]
  BY <1>0, <1>1, AboutPath DEF FilesInv, StateTyped
<1>3. DataTyped' /\ BlobsMatchDigest'
  BY <1>0 DEF FilesInv, StateTyped, DataTyped, BlobsMatchDigest
<1>4. /\ w \in GetStates /\ w.pc \in {"look", "done"} /\ w.fetched = get[d].fetched
      /\ w = [w EXCEPT !.fetched = get[d].fetched] /\ get[d].fetched \in SUBSET Paths
  BY <1>2, WithoutIs DEF GetStates
<1>5. ASSUME NEW x, get' = [get EXCEPT ![d] = x], x.pc \notin Copying
      PROVE  TimesTell'
  <2>1. get'[d] = x /\ \A e \in Downloads \ {d} : get'[e] = get[e]
    BY <1>2, <1>5
  <2>2. \A c \in Bytes, u \in Nat : Carries(c, u)' => Carries(c, u)
    BY <1>0, <1>5, <2>1 DEF Carries, EntryOf, PathOf
  <2> QED
    BY <1>0, <2>2, TimesKept DEF FilesInv
<1> HIDE DEF p, g, w, v
<1>6. CASE root[p].kind = "file" /\ get' = [get EXCEPT ![d] = w]
  <2>1. TimesTell'
    BY <1>4, <1>5, <1>6 DEF Copying
  <2>2. w = [Without(get[d], PathOf(d)) EXCEPT !.fetched = get[d].fetched]
    BY <1>4 DEF w, p
  <2>3. PathOf(d) \notin w.fetched
    BY <1>2, <1>4 DEF FilesInv, Follows, Progress, p
  <2>4. /\ UNCHANGED <<far, sourceFile, object, build, versions>> /\ (tied => tied')
        /\ \A k \in Names : k[1] # d => partial'[k] = partial[k]
        /\ \A q \in Paths : root'[q] = root[q]
        /\ root'[PathOf(d)] = root[PathOf(d)]
        /\ w.fetched = get[d].fetched /\ get[d].fetched \in SUBSET Paths
    BY <1>0, <1>2, <1>4 DEF p
  <2> QED
    BY <1>0, <1>1, <1>3, <1>6, <2>1, <2>2, <2>3, <2>4, PathDone
<1>7. CASE get' = [get EXCEPT ![d] = v]
  <2>1. /\ v \in GetStates /\ v.pc = "fetchref" /\ v.manifest = get[d].manifest
        /\ v.todo = get[d].todo /\ v.alone = get[d].alone /\ v.empty = get[d].empty
        /\ v.fetched = get[d].fetched /\ (get[d].warned => v.warned)
        /\ (Changed(g) => v.warned)
    <3>1. PICK b \in BOOLEAN : /\ v = [get[d] EXCEPT !.pc = "fetchref", !.moved = FALSE, !.warned = b]
                               /\ (get[d].warned => b) /\ (Changed(g) => b)
      BY Zenon DEF v
    <3> QED
      BY <1>2, <3>1 DEF GetStates
  <2>2. get'[d] = v
    BY <1>2, <1>7
  <2>3. PathOf(d)' = PathOf(d) /\ EntryOf(d)' = EntryOf(d)
    BY <2>1, <2>2 DEF PathOf, EntryOf
  <2>4. TimesTell'
    BY <1>5, <1>7, <2>1 DEF Copying
  <2>5. Follows(d)'
    <3>0. Progress(d)
      BY DEF FilesInv, Follows
    <3>1. Progress(d)'
      BY <1>0, <1>1, <2>1, <2>2, <2>3, <3>0 DEF Progress, Downloading, OfFile, Copying
    <3>2. PartialHolds(d)'
      BY <2>1, <2>2 DEF PartialHolds
    <3>3. ProbeHolds(d)'
      <4> SUFFICES ASSUME ~v.warned, g # Uri PROVE ~object.up \/ g = <<object.text>>
        BY <1>0, <2>2, <2>3 DEF ProbeHolds, g
      <4>1. Probed \in {Uri, g}
        BY <2>1 DEF Changed
      <4>2. ASSUME object.up PROVE Probed = <<object.text>> /\ Probed # Uri
        <5>1. object.text \in Texts
          BY DEF FilesInv, StateTyped, DataTyped
        <5> QED
          BY <4>2, <5>1, BytesAre DEF Probed, Uri
      <4> QED
        BY <4>1, <4>2
    <3>4. RootFollows(d)'
      <4>1. \A q \in Paths : root'[q] = root[q]
        BY <1>0
      <4> QED
        BY <1>0, <1>1, <2>1, <2>2, <4>1, RootFollowsOn
    <3> QED
      BY <3>1, <3>2, <3>3, <3>4 DEF Follows
  <2> QED
    BY <1>0, <1>1, <1>3, <1>7, <2>1, <2>4, <2>5, DownloadStep
<1> QED
  BY <1>0, <1>6, <1>7

LEMMA FetchReferenceKeeps ==
  ASSUME FilesInv, NEW d \in Downloads, FetchReference(d)
  PROVE  FilesInv'
<1> DEFINE p == PathOf(d)
           g == EntryOf(d).digest
           bytes == <<object.text, object.text>>
           f == IF get[d].moved THEN get[d].fetched ELSE get[d].fetched \cup {p}
           w == [Without(get[d], p) EXCEPT !.fetched = f]
           file == File(bytes, now')
           R == WithParent(root, p)
<1>0. /\ UNCHANGED <<far, sourceFile, object, store, build, versions, partial>>
      /\ get[d].pc = "fetchref"
  BY DEF FetchReference, At
<1>1. Downloading(d) /\ EntryOf(d).ref
  BY <1>0 DEF Downloading, FilesInv, Follows, Progress
<1>2. /\ p \in Paths /\ p \in get[d].todo /\ p \in DOMAIN get[d].manifest /\ g \in Checksums
      /\ get[d] \in GetStates /\ get \in [Downloads -> GetStates]
  BY <1>1, AboutPath DEF FilesInv, StateTyped
<1>3. \/ /\ Obstructed(p) \/ root[p].kind = "dir"
         /\ Goes(d, "shape") /\ UNCHANGED <<root, now, tied>>
      \/ Goes(d, "failed") /\ root' = R /\ UNCHANGED <<now, tied>>
      \/ /\ Stamping /\ object.up /\ root' = [R EXCEPT ![p] = file]
         /\ get' = [get EXCEPT ![d] = w]
  <2>1. Without(get[d], p).fetched = get[d].fetched
    BY <1>2, WithoutIs
  <2>2. [Without(get[d], p) EXCEPT !.fetched = IF get[d].moved THEN @ ELSE @ \cup {p}] = w
    BY <2>1
  <2>3. CASE Obstructed(p) \/ (object.up /\ root[p].kind = "dir")
    BY <2>3 DEF FetchReference
  <2>4. CASE ~(Obstructed(p) \/ (object.up /\ root[p].kind = "dir")) /\ ~object.up
    BY <2>4 DEF FetchReference
  <2>5. CASE ~(Obstructed(p) \/ (object.up /\ root[p].kind = "dir")) /\ object.up
    <3>1. Stamping /\ root' = [R EXCEPT ![p] = file]
      BY <2>5, Zenon DEF FetchReference
    <3>2. get' = [get EXCEPT ![d] = [Without(get[d], p) EXCEPT !.fetched =
                                       IF get[d].moved THEN @ ELSE @ \cup {p}]]
      BY <2>5 DEF FetchReference
    <3> HIDE DEF w
    <3> QED
      BY <2>2, <2>5, <3>1, <3>2
  <2> QED
    BY <2>3, <2>4, <2>5
<1>4. /\ root \in [Paths -> FileStates] /\ now \in Nat /\ object.text \in Texts
      /\ now \in 0 .. MaxTime
      /\ \A q \in Paths : root[q].kind = "file" => root[q].bytes \in Bytes
  BY FilesAssumption DEF FilesInv, StateTyped, DataTyped
<1>5. BlobsMatchDigest'
  BY <1>0 DEF FilesInv, BlobsMatchDigest
<1>6. /\ R \in [Paths -> FileStates]
      /\ \A q \in Paths : \/ R[q] = root[q]
                          \/ R[q].kind = "dir" /\ q \notin DOMAIN get[d].manifest
  <2>1. R \in [Paths -> FileStates]
    BY <1>2, <1>4, WithParentTyped
  <2> QED
    BY <1>1, <2>1, WithParentIs
<1>7. bytes \in Bytes /\ bytes[1] = object.text
  BY <1>4, BytesAre
<1> HIDE DEF p, g, w, f, R, bytes, file
<1>8. "shape" \notin OfFile /\ "failed" \notin OfFile /\ "shape" \notin Copying
      /\ "failed" \notin Copying
  BY DEF OfFile, Copying
<1>9. CASE /\ Obstructed(p) \/ root[p].kind = "dir"
           /\ Goes(d, "shape") /\ UNCHANGED <<root, now, tied>>
  <2>1. DataTyped'
    BY <1>0, <1>9 DEF FilesInv, StateTyped, DataTyped
  <2>2. TimesTell'
    BY <1>0, <1>1, <1>8, <1>9, GoesTimes
  <2>3. ~(get[d].alone /\ get[d].empty)
    BY <1>1, <1>9, NothingInTheWay DEF p
  <2> QED
    BY <1>0, <1>1, <1>5, <1>8, <1>9, <2>1, <2>2, <2>3, GoesKeeps
<1>10. CASE Goes(d, "failed") /\ root' = R /\ UNCHANGED <<now, tied>>
  <2>1. \A q \in Paths : root'[q].kind = "file" => root'[q] = root[q]
    BY <1>6, <1>10
  <2>2. DataTyped'
    BY <1>0, <1>4, <1>6, <1>10, <2>1 DEF FilesInv, StateTyped, DataTyped
  <2>3. TimesTell'
    BY <1>0, <1>1, <1>8, <1>10, <2>1, GoesTimes
  <2> QED
    BY <1>0, <1>1, <1>5, <1>6, <1>8, <1>10, <2>2, <2>3, GoesKeeps
<1>11. CASE /\ Stamping /\ object.up /\ root' = [R EXCEPT ![p] = file]
            /\ get' = [get EXCEPT ![d] = w]
  <2>1. now' \in 0 .. MaxTime /\ tied' \in BOOLEAN /\ now' \in Nat /\ (tied => tied')
    BY <1>4, <1>11, StampingIs
  <2>2. file \in FileStates /\ file.kind = "file" /\ file.bytes = bytes /\ file.time = now'
    BY <1>7, <2>1 DEF file, File, FileStates
  <2>3. /\ root' \in [Paths -> FileStates] /\ root'[p] = file
        /\ \A q \in Paths \ {p} : root'[q] = R[q]
    BY <1>2, <1>6, <1>11, <2>2
  <2>4. \A q \in Paths : root'[q].kind = "file" => q = p \/ root'[q] = root[q]
    BY <1>6, <2>3
  <2>5. \A q \in Paths : root'[q].kind = "file" => root'[q].bytes \in Bytes
    BY <1>4, <1>7, <2>2, <2>3, <2>4
  <2>6. DataTyped'
    BY <1>0, <2>1, <2>3, <2>5 DEF FilesInv, StateTyped, DataTyped
  <2>7. get'[d] = w /\ \A e \in Downloads \ {d} : get'[e] = get[e]
    BY <1>2, <1>11
  <2>8. f \in SUBSET Paths /\ (f = get[d].fetched \/ f = get[d].fetched \cup {p})
        /\ (p \in f => ~get[d].moved)
    <3>1. p \notin get[d].fetched /\ get[d].fetched \in SUBSET Paths
      BY <1>2 DEF FilesInv, Follows, Progress, GetStates
    <3> QED
      BY <1>2, <3>1 DEF f
  <2>9. w.fetched = f /\ w.pc \in {"look", "done"} /\ w.warned = get[d].warned
    <3> DEFINE v == Without(get[d], p)
    <3>1. v \in GetStates /\ v.pc \in {"look", "done"} /\ v.warned = get[d].warned
      BY <1>2, WithoutIs
    <3>2. w = [v EXCEPT !.fetched = f]
      BY DEF w
    <3> HIDE DEF v
    <3> QED
      BY <3>1, <3>2 DEF GetStates
  <2>10. TimesTell'
    <3>1. ASSUME NEW c \in Bytes, NEW u \in Nat, Carries(c, u)'
          PROVE  Carries(c, u) \/ (c = bytes /\ u = now')
      <4>1. CASE \E m \in Machines : store[m][c] # NoBlob /\ store[m][c].time = u
        BY <4>1 DEF Carries
      <4>2. CASE \E q \in Paths : root'[q].kind = "file" /\ root'[q].bytes = c /\ root'[q].time = u
        BY <2>2, <2>3, <2>4, <4>2 DEF Carries
      <4>3. CASE (\E e \in Downloads : /\ get[e].pc \in Copying
                                       /\ EntryOf(e).digest = c /\ get[e].stamp = u)'
        BY <2>7, <2>9, <4>3 DEF Carries, EntryOf, PathOf, Copying
      <4> QED
        BY <1>0, <3>1, <4>1, <4>2, <4>3 DEF Carries
    <3> QED
      BY <1>4, <1>11, <3>1, TimesStamped DEF FilesInv
  <2>11. PathOf(d) \in w.fetched /\ ~w.warned /\ EntryOf(d).digest # Uri =>
            root'[PathOf(d)].bytes = <<EntryOf(d).digest[1], EntryOf(d).digest[1]>>
    <3> SUFFICES ASSUME p \in w.fetched, ~w.warned, g # Uri
                 PROVE  root'[p].bytes = <<g[1], g[1]>>
      BY DEF p, g
    <3>1. g = <<object.text>>
      BY <1>0, <1>11, <2>8, <2>9 DEF FilesInv, Follows, ProbeHolds, g
    <3>2. g[1] = object.text
      BY <1>4, <3>1, BytesAre
    <3> QED
      BY <2>2, <2>3, <3>2 DEF bytes
  <2>12. w = [Without(get[d], PathOf(d)) EXCEPT !.fetched = f]
         /\ (w.fetched = get[d].fetched
             \/ (w.fetched = get[d].fetched \cup {PathOf(d)} /\ EntryOf(d).ref))
    BY <1>1, <2>8, <2>9 DEF w, p
  <2>13. \A q \in Paths \ {PathOf(d)} :
            \/ root'[q] = root[q]
            \/ root'[q].kind = "dir" /\ q \notin DOMAIN get[d].manifest
    BY <1>6, <2>3 DEF p
  <2>14. root'[PathOf(d)].kind = "file" /\ \E t \in Texts : root'[PathOf(d)].bytes = <<t, t>>
    BY <1>4, <2>2, <2>3 DEF p, bytes
  <2>15. /\ UNCHANGED <<far, sourceFile, object, build, versions>>
         /\ \A k \in Names : k[1] # d => partial'[k] = partial[k]
    BY <1>0
  <2> QED
    BY <1>1, <1>5, <1>11, <2>1, <2>6, <2>8, <2>10, <2>11, <2>12, <2>13, <2>14, <2>15, PathDone
<1> QED
  BY <1>3, <1>9, <1>10, <1>11

LEMMA FilesInvNext ==
  ASSUME FilesInv, [FilesNext]_filesVars
  PROVE  FilesInv'
<1>1. CASE \E p \in Paths, t \in Texts : RewriteSource(p, t) \/ EditFile(p, t)
  BY <1>1, RewriteSourceKeeps, EditFileKeeps
<1>2. CASE ChangeObject
  BY <1>2, ChangeObjectKeeps
<1>3. CASE \E F, R \in SUBSET Paths, c \in BOOLEAN : BuildManifest(F, R, c)
  BY <1>3, BuildManifestKeeps
<1>4. CASE ReadHalf \/ StageBlob \/ CommitVersion
  BY <1>4, ReadHalfKeeps, StageBlobKeeps, CommitVersionKeeps
<1>5. CASE \E v \in 1 .. Len(versions) : PurgeVersion(v)
  BY <1>5, PurgeVersionKeeps
<1>6. CASE \E d \in Downloads, v \in 1 .. Len(versions) : StartDownload(d, v)
  BY <1>6, StartDownloadKeeps
<1>7. CASE \E d \in Downloads : LookForBlob(d) \/ FetchBlob(d) \/ CheckFile(d) \/ CopyHalf(d)
  BY <1>7, LookForBlobKeeps, FetchBlobKeeps, CheckFileKeeps, CopyHalfKeeps
<1>8. CASE \E d \in Downloads :
             ReplaceFile(d) \/ ProbeReference(d) \/ FetchReference(d) \/ KillDownload(d)
  BY <1>8, ReplaceFileKeeps, ProbeReferenceKeeps, FetchReferenceKeeps, KillDownloadKeeps
<1>9. CASE UNCHANGED filesVars
  <2>0. UNCHANGED <<far, sourceFile, object, store, build, versions, root, partial, get, now, tied>>
    BY <1>9 DEF filesVars
  <2>1. StateTyped' /\ VersionsTyped' /\ BlobsMatchDigest'
    BY <2>0 DEF FilesInv, StateTyped, DataTyped, VersionsTyped, BlobsMatchDigest
  <2>2. \A b \in Bytes, u \in Nat : Carries(b, u)' => Carries(b, u)
    BY <2>0 DEF Carries, EntryOf, PathOf
  <2>3. TimesTell'
    BY <2>0, <2>2, TimesKept DEF FilesInv
  <2> QED
    BY <2>0, <2>1, <2>3, StillFollows DEF FilesInv
<1> QED
  BY <1>1, <1>2, <1>3, <1>4, <1>5, <1>6, <1>7, <1>8, <1>9 DEF FilesNext

LEMMA FilesInvGives == FilesInv => FilesTypeOK /\ FilesAsLogged
<1> SUFFICES ASSUME FilesInv PROVE FilesTypeOK /\ FilesAsLogged
  OBVIOUS
<1>1. FilesTypeOK
  BY DEF FilesTypeOK, FilesInv, StateTyped, DataTyped, VersionsTyped, Blobs, FileStates, Follows, Progress
<1>2. RootShowsVersion
  BY DEF RootShowsVersion, FilesInv, Follows, Progress, RootFollows
<1>3. ReferencesChecked
  BY DEF ReferencesChecked, FilesInv, Follows, Progress, RootFollows
<1>4. NoShapeClash
  BY DEF NoShapeClash, FilesInv, Follows, RootFollows
<1> QED
  BY <1>1, <1>2, <1>3, <1>4 DEF FilesInv, FilesAsLogged

\* Whatever is rewritten, edited, purged or downloaded meanwhile, a blob has the bytes that it
\* is named after, no two writers leave a mixed file, and a download that is alone in its
\* directory leaves the version that was logged, unless the clock stood still between two
\* files: for any paths, manifests and downloads.
THEOREM FilesKeepAsLogged == FilesSpec => [](FilesTypeOK /\ FilesAsLogged)
  BY FilesInvInit, FilesInvNext, FilesInvGives, PTL DEF FilesSpec

-----------------------------------------------------------------------------
\* The greatest of a set of numbers.
LEMMA NatMax ==
  ASSUME NEW T \in SUBSET Nat, T # {}, NEW n \in Nat, \A y \in T : y <= n
  PROVE  Max(T) \in T /\ \A y \in T : y <= Max(T)
<1> DEFINE U == {n - y : y \in T}
<1>1. U \in SUBSET Nat /\ U # {}
  <2>1. \A y \in T : n - y \in Nat
    OBVIOUS
  <2> QED
    BY <2>1
<1>2. PICK x \in T : Min(U) = n - x
  BY <1>1, NatMin
<1>3. \A y \in T : n - x <= n - y
  BY <1>1, <1>2, NatMin
<1>4. \A y \in T : x >= y
  BY <1>3
<1> QED
  BY <1>4 DEF Max
------------------------------------------------------------------------------
\* A resumed run.

RowSet == [of : Sessions, step : 0 .. MaxStep, time : 1 .. clock]

SessionStates ==
  [is : {"new", "refused", "running", "ended"}, run : Sessions \cup {NoRunId},
   next : Nat, queue : SUBSET (0 .. MaxStep)]

RowsTyped ==
  /\ hosted \in BOOLEAN /\ clock \in Nat
  /\ stored \subseteq RowSet /\ waiting \subseteq RowSet /\ kept \subseteq RowSet
  /\ ~hosted => kept = {}

\* Only a running session has a queue; a session is of a run that has been created.
SessionsTyped ==
  /\ session \in [Sessions -> SessionStates]
  /\ \A s \in Sessions :
       /\ session[s].is # "running" => session[s].queue = {}
       /\ session[s].is \in {"new", "refused"} <=> session[s].run = NoRunId

\* The runs that rows and sessions name were created by a session that went on.
Created ==
  /\ \A row \in stored \cup waiting \cup kept : session[row.of].run # NoRunId
  /\ \A s \in Sessions : session[s].run # NoRunId => session[session[s].run].run # NoRunId

\* A session that was not blind is the only one that runs its run, ...
RunsAlone ==
  \A s, t \in Sessions :
    session[s].is = "running" /\ session[t].is = "running"
    /\ session[s].run = session[t].run /\ s # t => s \in blind

\* ... and counts from beyond every step that the run has.
CountsBeyond ==
  \A s \in Sessions \ blind :
    session[s].is = "running" =>
      \A step \in Logged(session[s].run) : step < session[s].next

SessionInv ==
  RowsTyped /\ SessionsTyped /\ Created /\ RunsAlone /\ CountsBeyond /\ StepsContinue

LEMMA SessionInvInit == SessionInit => SessionInv
<1> SUFFICES ASSUME SessionInit PROVE SessionInv
  OBVIOUS
<1> USE SessionAssumption DEF SessionInit
<1>1. RowsTyped
  BY DEF RowsTyped, RowSet
<1>2. SessionsTyped
  BY DEF SessionsTyped, SessionStates
<1>3. Created /\ RunsAlone /\ CountsBeyond /\ StepsContinue
  BY DEF Created, RunsAlone, CountsBeyond, StepsContinue
<1> QED
  BY <1>1, <1>2, <1>3 DEF SessionInv

LEMMA LatestRunFound ==
  ASSUME clock \in Nat, NEW rows \in SUBSET RowSet, rows # {}
  PROVE  \E row \in rows : LatestRun(rows) = row.of
<1> DEFINE ids == {row.of : row \in rows}
           times(id) == {row.time : row \in RowsOf(rows, id)}
           starts == {Started(rows, id) : id \in ids}
<1>1. \A id \in ids : times(id) \in SUBSET Nat /\ times(id) # {}
                      /\ \A y \in times(id) : y <= clock
  BY DEF RowsOf, RowSet
<1>2. \A id \in ids : Started(rows, id) \in Nat /\ Started(rows, id) <= clock
  <2> SUFFICES ASSUME NEW id \in ids
               PROVE  Started(rows, id) \in Nat /\ Started(rows, id) <= clock
    OBVIOUS
  <2>1. Started(rows, id) = Min(times(id))
    BY DEF Started
  <2> HIDE DEF times
  <2>2. Min(times(id)) \in times(id)
    BY <1>1, NatMin
  <2> QED
    BY <1>1, <2>1, <2>2
<1>3. starts \in SUBSET Nat /\ starts # {} /\ \A y \in starts : y <= clock
  BY <1>2
<1> HIDE DEF starts
<1>4. Max(starts) \in starts /\ \A y \in starts : y <= Max(starts)
  BY <1>3, NatMax
<1>5. \E id \in ids : \A other \in ids : Started(rows, other) <= Started(rows, id)
  BY <1>4 DEF starts
<1>6. LatestRun(rows) \in ids
  BY <1>5 DEF LatestRun
<1> QED
  BY <1>6

LEMMA NextStepBeyond ==
  ASSUME NEW rows \in SUBSET RowSet, NEW id
  PROVE  NextStep(rows, id) \in Nat /\ \A step \in Steps(rows, id) : step < NextStep(rows, id)
<1>1. MaxStep \in Nat
  BY SessionAssumption
<1>2. Steps(rows, id) \in SUBSET Nat /\ \A y \in Steps(rows, id) : y <= MaxStep
  BY <1>1 DEF Steps, RowsOf, RowSet
<1>3. CASE Steps(rows, id) = {}
  BY <1>3 DEF NextStep
<1>4. CASE Steps(rows, id) # {}
  <2>1. /\ Max(Steps(rows, id)) \in Steps(rows, id)
        /\ \A y \in Steps(rows, id) : y <= Max(Steps(rows, id))
    BY <1>1, <1>2, <1>4, NatMax
  <2> DEFINE m == Max(Steps(rows, id))
  <2>2. NextStep(rows, id) = m + 1
    BY <1>4 DEF NextStep
  <2> HIDE DEF m
  <2>3. m \in Nat /\ \A y \in Steps(rows, id) : y \in Nat /\ y <= m
    BY <1>2, <2>1 DEF m
  <2> QED
    BY <2>2, <2>3
<1> QED
  BY <1>3, <1>4

LEMMA AfterStepBeyond ==
  ASSUME NEW next \in Nat, NEW step \in Nat
  PROVE  /\ AfterStep(next, step) \in Nat
         /\ next <= AfterStep(next, step) /\ step < AfterStep(next, step)
<1>1. PICK x \in {next, step + 1} : \A y \in {next, step + 1} : x >= y
  OBVIOUS
<1>2. /\ Max({next, step + 1}) \in {next, step + 1}
      /\ \A y \in {next, step + 1} : Max({next, step + 1}) >= y
  BY <1>1 DEF Max
<1> DEFINE m == Max({next, step + 1})
<1> HIDE DEF m
<1>3. m \in {next, step + 1} /\ m >= next /\ m >= step + 1
  BY <1>2 DEF m
<1>4. m \in Nat /\ next <= m /\ step < m
  BY <1>3
<1> QED
  BY <1>4 DEF AfterStep, m

\* Where the steps of a run are.
LEMMA LoggedIn ==
  ASSUME NEW id, NEW step
  PROVE  step \in Logged(id) <=>
           \/ \E row \in stored \cup waiting \cup kept : row.of = id /\ row.step = step
           \/ \E s \in Sessions : session[s].run = id /\ step \in session[s].queue
  BY DEF Logged, Queued, Steps, RowsOf

LEMMA LoggedIn2 ==
  ASSUME NEW id, NEW step
  PROVE  step \in Logged(id)' <=>
           \/ \E row \in stored' \cup waiting' \cup kept' : row.of = id /\ row.step = step
           \/ \E s \in Sessions : session'[s].run = id /\ step \in session'[s].queue
  BY DEF Logged, Queued, Steps, RowsOf

LEMMA SessionFields ==
  ASSUME SessionsTyped, NEW s \in Sessions
  PROVE  /\ session[s].is \in {"new", "refused", "running", "ended"}
         /\ session[s].run \in Sessions \cup {NoRunId}
         /\ session[s].next \in Nat
         /\ session[s].queue \in SUBSET (0 .. MaxStep)
  BY DEF SessionsTyped, SessionStates

\* init found the run and its last step, or creates one.
LEMMA InitKeeps ==
  ASSUME SessionInv, NEW s \in Sessions, NEW resume \in {"must", "allow", "never"},
         NEW connects \in BOOLEAN, NEW findsRuns \in BOOLEAN, NEW findsStep \in BOOLEAN,
         InitSession(s, resume, connects, findsRuns, findsStep)
  PROVE  SessionInv'
<1> DEFINE found == IF ~findsRuns THEN {} ELSE IF hosted /\ connects THEN stored ELSE LocalStore
           existing == IF resume = "never" THEN NoRunId ELSE LatestRun(found)
           id == IF existing = NoRunId THEN s ELSE existing
           looked == IF hosted /\ connects /\ findsStep
                        /\ existing # NoRunId /\ Steps(stored, id) # {}
                     THEN stored ELSE LocalStore
           missed == \/ Logged(id) # Steps(looked, id)
                     \/ \E t \in Sessions : session[t].is = "running" /\ session[t].run = id
           others == {t \in Sessions : session[t].is = "running" /\ session[t].run = id}
<1> USE DEF SessionInv
<1>a. MaxStep \in Nat /\ NoRunId \notin Sessions
  BY SessionAssumption
<1>1. /\ session[s].is = "new" /\ session[s].run = NoRunId /\ session[s].queue = {}
      /\ UNCHANGED <<hosted, stored, waiting, kept, clock, repeated>>
  BY DEF InitSession, SessionsTyped
<1>2. found \in SUBSET RowSet /\ looked \in SUBSET RowSet
      /\ found \subseteq stored \cup kept
  BY DEF RowsTyped, LocalStore
<1>3. existing = NoRunId \/ (existing \in Sessions /\ session[existing].run # NoRunId)
  <2>1. CASE resume # "never" /\ found # {}
    <3>1. PICK row \in found : LatestRun(found) = row.of
      BY <1>2, <2>1, LatestRunFound DEF RowsTyped
    <3>2. row \in stored \cup kept /\ row.of \in Sessions
      BY <1>2, <3>1 DEF RowSet
    <3> QED
      BY <2>1, <3>1, <3>2 DEF Created
  <2>2. CASE resume = "never" \/ found = {}
    <3>1. LatestRun({}) = NoRunId
      BY DEF LatestRun
    <3>2. CASE resume = "never"
      <4> HIDE DEF found
      <4>1. existing = NoRunId
        BY <3>2
      <4> QED
        BY <4>1
    <3>3. CASE resume # "never" /\ found = {}
      <4> HIDE DEF found
      <4>1. existing = LatestRun(found)
        BY <3>3
      <4> QED
        BY <3>1, <3>3, <4>1
    <3> QED
      BY <2>2, <3>2, <3>3
  <2> QED
    BY <2>1, <2>2
<1>4. id \in Sessions /\ (id = s \/ session[id].run # NoRunId)
  BY <1>3
<1>5. CASE resume = "must" /\ existing = NoRunId
  <2>1. session' = [session EXCEPT ![s].is = "refused"] /\ blind' = blind
    BY <1>5 DEF InitSession
  <2>2. /\ \A t \in Sessions : session'[t].run = session[t].run
                               /\ session'[t].queue = session[t].queue
                               /\ session'[t].next = session[t].next
        /\ \A t \in Sessions : t # s => session'[t] = session[t]
        /\ session'[s].is = "refused"
    BY <2>1 DEF SessionsTyped, SessionStates
  <2>3. session' \in [Sessions -> SessionStates]
    BY <2>1 DEF SessionsTyped, SessionStates
  <2>4. RowsTyped' /\ SessionsTyped'
    BY <1>1, <2>2, <2>3 DEF RowsTyped, RowSet, SessionsTyped
  <2>5. Created'
    BY <1>1, <2>2, <1>a DEF Created, SessionsTyped, SessionStates, RowsTyped, RowSet
  <2>6. RunsAlone' /\ StepsContinue'
    BY <1>1, <2>1, <2>2 DEF RunsAlone, StepsContinue
  <2>7. CountsBeyond'
    <3> SUFFICES ASSUME NEW t \in Sessions \ blind, session[t].is = "running",
                        NEW step \in Logged(session[t].run)'
                 PROVE  step < session[t].next
      BY <2>1, <2>2 DEF CountsBeyond
    <3>1. step \in Logged(session[t].run)
      BY <1>1, <2>2, LoggedIn, LoggedIn2
    <3> QED
      BY <3>1 DEF CountsBeyond
  <2> QED
    BY <2>4, <2>5, <2>6, <2>7
<1>6. CASE ~(resume = "must" /\ existing = NoRunId)
  <2>1. /\ session' = [session EXCEPT ![s] = [is |-> "running", run |-> id,
                                             next |-> NextStep(looked, id), queue |-> {}]]
        /\ blind' = IF missed THEN blind \cup {s} \cup others ELSE blind
    BY <1>6 DEF InitSession
  <2>2. NextStep(looked, id) \in Nat
        /\ \A step \in Steps(looked, id) : step < NextStep(looked, id)
    BY <1>2, NextStepBeyond
  <2> DEFINE n == NextStep(looked, id)
  <2> HIDE DEF found, existing, id, looked, n
  <2>3. /\ session'[s] = [is |-> "running", run |-> id, next |-> n, queue |-> {}]
        /\ \A t \in Sessions : t # s => session'[t] = session[t]
    BY <2>1 DEF SessionsTyped, n
  <2>4. session' \in [Sessions -> SessionStates]
    <3>1. [is |-> "running", run |-> id, next |-> n, queue |-> {}] \in SessionStates
      BY <1>4, <2>2 DEF SessionStates, n
    <3> QED
      BY <2>1, <3>1 DEF SessionsTyped, n
  <2>5. RowsTyped' /\ SessionsTyped'
    BY <1>1, <1>4, <1>a, <2>3, <2>4 DEF RowsTyped, RowSet, SessionsTyped
  <2>6. Created'
    <3>1. \A row \in stored' \cup waiting' \cup kept' : session'[row.of].run # NoRunId
      <4> SUFFICES ASSUME NEW row \in stored \cup waiting \cup kept
                   PROVE  session'[row.of].run # NoRunId
        BY <1>1
      <4>1. row.of \in Sessions /\ session[row.of].run # NoRunId
        BY DEF Created, RowsTyped, RowSet
      <4> QED
        BY <1>1, <2>3, <4>1
    <3>2. ASSUME NEW t \in Sessions, session'[t].run # NoRunId
          PROVE  session'[session'[t].run].run # NoRunId
      <4>1. CASE t = s
        BY <1>4, <1>a, <2>3, <4>1
      <4>2. CASE t # s
        <5>1. session[session[t].run].run # NoRunId /\ session[t].run \in Sessions
          BY <2>3, <3>2, <4>2, SessionFields DEF Created
        <5> QED
          BY <1>1, <2>3, <4>2, <5>1
      <4> QED
        BY <4>1, <4>2
    <3> QED
      BY <3>1, <3>2 DEF Created
  <2>7. blind \subseteq blind'
    BY <2>1
  <2>8. \A x, step : step \in Logged(x)' => step \in Logged(x)
    BY <1>1, <2>3, LoggedIn, LoggedIn2
  <2>9. RunsAlone' /\ StepsContinue'
    <3>1. RunsAlone'
      <4> SUFFICES ASSUME NEW t \in Sessions, NEW u \in Sessions, t # u,
                          session'[t].is = "running", session'[u].is = "running",
                          session'[t].run = session'[u].run
                   PROVE  t \in blind'
        BY DEF RunsAlone
      <4>1. CASE t # s /\ u # s
        BY <2>3, <2>7, <4>1 DEF RunsAlone
      <4>2. CASE t = s
        <5>1. u \in others
          BY <2>3, <4>2
        <5> QED
          BY <2>1, <4>2, <5>1
      <4>3. CASE u = s
        <5>1. t \in others
          BY <2>3, <4>3
        <5> QED
          BY <2>1, <5>1
      <4> QED
        BY <4>1, <4>2, <4>3
    <3> QED
      BY <1>1, <2>7, <3>1 DEF StepsContinue
  <2>10. CountsBeyond'
    <3> SUFFICES ASSUME NEW t \in Sessions \ blind', session'[t].is = "running",
                        NEW step \in Logged(session'[t].run)
                 PROVE  step < session'[t].next
      BY <2>8 DEF CountsBeyond
    <3>1. CASE t = s
      <4>1. Logged(id) = Steps(looked, id)
        BY <2>1, <3>1
      <4> QED
        BY <2>2, <2>3, <3>1, <4>1 DEF n
    <3>2. CASE t # s
      BY <2>3, <2>7, <3>2 DEF CountsBeyond
    <3> QED
      BY <3>1, <3>2
  <2> QED
    BY <2>5, <2>6, <2>9, <2>10
<1> QED
  BY <1>5, <1>6

\* A step that adds no step to a run and creates or blinds no session.
LEMMA NothingLogged ==
  ASSUME SessionInv, RowsTyped', SessionsTyped', UNCHANGED <<blind, repeated>>,
         \A s \in Sessions : /\ session'[s].run = session[s].run
                             /\ session'[s].next = session[s].next
                             /\ session'[s].is = "running" => session[s].is = "running",
         stored' \cup waiting' \cup kept' \subseteq
           stored \cup waiting \cup kept
           \cup {row \in RowSet' : \E s \in Sessions : row.of = session[s].run
                                                       /\ row.step \in session[s].queue},
         \A s \in Sessions : session'[s].queue \subseteq session[s].queue
  PROVE  SessionInv'
<1> USE DEF SessionInv
<1>1. \A id, step : step \in Logged(id)' => step \in Logged(id)
  <2> SUFFICES ASSUME NEW id, NEW step, step \in Logged(id)'
               PROVE  step \in Logged(id)
    OBVIOUS
  <2>1. CASE \E row \in stored' \cup waiting' \cup kept' : row.of = id /\ row.step = step
    BY <2>1, LoggedIn
  <2>2. CASE \E s \in Sessions : session'[s].run = id /\ step \in session'[s].queue
    BY <2>2, LoggedIn
  <2> QED
    BY <2>1, <2>2, LoggedIn2
<1>2. Created'
  <2>1. \A row \in stored' \cup waiting' \cup kept' : session'[row.of].run # NoRunId
    <3> SUFFICES ASSUME NEW row \in stored' \cup waiting' \cup kept'
                 PROVE  session'[row.of].run # NoRunId
      OBVIOUS
    <3>1. row.of \in Sessions
      BY DEF RowsTyped, RowSet
    <3>2. CASE row \in stored \cup waiting \cup kept
      BY <3>1, <3>2 DEF Created
    <3>3. CASE \E s \in Sessions : row.of = session[s].run /\ row.step \in session[s].queue
      <4>1. PICK s \in Sessions : row.of = session[s].run
        BY <3>3
      <4>2. session[s].run # NoRunId
        BY <3>1, <4>1, SessionAssumption
      <4> QED
        BY <3>1, <4>1, <4>2 DEF Created
    <3> QED
      BY <3>2, <3>3
  <2>2. \A s \in Sessions : session'[s].run # NoRunId => session'[session'[s].run].run # NoRunId
    <3> SUFFICES ASSUME NEW s \in Sessions, session[s].run # NoRunId
                 PROVE  session'[session[s].run].run # NoRunId
      OBVIOUS
    <3>1. session[s].run \in Sessions /\ session[session[s].run].run # NoRunId
      BY SessionFields DEF Created
    <3> QED
      BY <3>1
  <2> QED
    BY <2>1, <2>2 DEF Created
<1>3. RunsAlone' /\ StepsContinue'
  BY DEF RunsAlone, StepsContinue
<1>4. CountsBeyond'
  BY <1>1 DEF CountsBeyond
<1> QED
  BY <1>2, <1>3, <1>4

LEMMA LogStepKeeps ==
  ASSUME SessionInv, NEW s \in Sessions, NEW given \in -1 .. MaxStep, LogStep(s, given)
  PROVE  SessionInv'
<1> USE DEF SessionInv
<1> DEFINE step == IF given >= 0 THEN given ELSE session[s].next
<1>0. MaxStep \in Nat
  BY SessionAssumption
<1>1. /\ session[s].is = "running" /\ step <= MaxStep
      /\ session' = [session EXCEPT ![s].next = AfterStep(@, step), ![s].queue = @ \cup {step}]
      /\ repeated' = IF given < 0 /\ step \in Logged(session[s].run)
                     THEN repeated \cup {s} ELSE repeated
      /\ UNCHANGED <<hosted, stored, waiting, kept, clock, blind>>
  BY DEF LogStep
<1>2. session[s].next \in Nat /\ step \in 0 .. MaxStep /\ step \in Nat
  BY <1>0, <1>1, SessionFields
<1>3. given < 0 => step = session[s].next
  OBVIOUS
<1> HIDE DEF step
<1>4. /\ AfterStep(session[s].next, step) \in Nat
      /\ session[s].next <= AfterStep(session[s].next, step)
      /\ step < AfterStep(session[s].next, step)
  BY <1>2, AfterStepBeyond
<1> DEFINE n == AfterStep(session[s].next, step)
<1> HIDE DEF n
<1>5. /\ session'[s] = [session[s] EXCEPT !.next = n, !.queue = @ \cup {step}]
      /\ \A t \in Sessions : t # s => session'[t] = session[t]
  BY <1>1 DEF SessionsTyped, n
<1>6. session'[s] \in SessionStates
      /\ session'[s].is = "running" /\ session'[s].run = session[s].run
      /\ session'[s].next = n /\ session'[s].queue = session[s].queue \cup {step}
  <2>1. n \in Nat /\ session[s].queue \cup {step} \in SUBSET (0 .. MaxStep)
    BY <1>2, <1>4, SessionFields DEF n
  <2>2. session[s] \in SessionStates
    BY DEF SessionsTyped
  <2> DEFINE q == session[s].queue \cup {step}
  <2>3. session'[s] = [session[s] EXCEPT !.next = n, !.queue = q]
    BY <1>5
  <2> HIDE DEF q
  <2>4. /\ session'[s] \in SessionStates
        /\ session'[s].is = session[s].is /\ session'[s].run = session[s].run
        /\ session'[s].next = n /\ session'[s].queue = q
    BY <2>1, <2>2, <2>3 DEF SessionStates, q
  <2> QED
    BY <1>1, <2>4 DEF q
<1>7. RowsTyped' /\ SessionsTyped'
  <2>1. session' \in [Sessions -> SessionStates]
    BY <1>1, <1>5, <1>6 DEF SessionsTyped
  <2> QED
    BY <1>1, <1>5, <1>6, <2>1 DEF RowsTyped, RowSet, SessionsTyped
<1>8. Created'
  <2>1. \A t \in Sessions : session'[t].run = session[t].run
    BY <1>5, <1>6
  <2>2. \A row \in stored \cup waiting \cup kept : row.of \in Sessions
    BY DEF RowsTyped, RowSet
  <2>3. \A t \in Sessions : session[t].run # NoRunId => session[t].run \in Sessions
    BY SessionFields
  <2> QED
    BY <1>1, <2>1, <2>2, <2>3 DEF Created
<1>9. RunsAlone'
  <2>1. \A t \in Sessions : session'[t].run = session[t].run /\ session'[t].is = session[t].is
    BY <1>1, <1>5, <1>6
  <2> QED
    BY <1>1, <2>1 DEF RunsAlone
<1>10. StepsContinue'
  <2>1. ASSUME given < 0, step \in Logged(session[s].run), s \notin blind
        PROVE  FALSE
    <3>1. step < session[s].next
      BY <1>1, <2>1 DEF CountsBeyond
    <3> QED
      BY <1>2, <1>3, <2>1, <3>1
  <2> QED
    BY <1>1, <2>1 DEF StepsContinue
<1>11. CountsBeyond'
  <2> SUFFICES ASSUME NEW t \in Sessions \ blind, session'[t].is = "running",
                      NEW x \in Logged(session[t].run)'
               PROVE  x < session'[t].next
    BY <1>1 DEF CountsBeyond
  <2>1. session[t].is = "running" /\ session'[t].run = session[t].run
    BY <1>1, <1>5, <1>6
  <2>a. \/ \E row \in stored \cup waiting \cup kept :
              row.of = session[t].run /\ row.step = x
        \/ \E u \in Sessions : session'[u].run = session[t].run /\ x \in session'[u].queue
    BY <1>1, <2>1, LoggedIn2
  <2>2. CASE t = s
    <3>1. x \in Logged(session[s].run) \/ x = step
      BY <1>5, <1>6, <2>a, <2>2, LoggedIn
    <3>2. CASE x \in Logged(session[s].run)
      <4>1. x < session[s].next
        BY <2>1, <2>2, <3>2 DEF CountsBeyond
      <4>2. x \in Nat
        BY <3>2, LoggedIn, SessionFields DEF RowsTyped, RowSet
      <4>3. n \in Nat /\ session[s].next <= n
        BY <1>4 DEF n
      <4> DEFINE m == session[s].next
      <4> HIDE DEF m
      <4>4. m \in Nat /\ x < m /\ m <= n
        BY <1>2, <4>1, <4>3 DEF m
      <4>5. x < n
        BY <4>2, <4>3, <4>4
      <4> QED
        BY <1>6, <2>2, <4>5
    <3>3. CASE x = step
      BY <1>4, <1>6, <2>2, <3>3 DEF n
    <3> QED
      BY <3>1, <3>2, <3>3
  <2>3. CASE t # s
    <3>1. session[t].run # session[s].run
      BY <1>1, <2>1, <2>3 DEF RunsAlone
    <3>2. x \in Logged(session[t].run)
      BY <1>5, <1>6, <2>a, <3>1, LoggedIn
    <3> QED
      BY <1>5, <2>1, <2>3, <3>2 DEF CountsBeyond
  <2> QED
    BY <2>2, <2>3
<1> QED
  BY <1>7, <1>8, <1>9, <1>10, <1>11

LEMMA SendBatchKeeps ==
  ASSUME SessionInv, NEW s \in Sessions, NEW where \in {"database", "queue", "buffer"},
         SendBatch(s, where)
  PROVE  SessionInv'
<1> DEFINE batch == SessionBatch(s)
<1>1. /\ session[s].queue # {} /\ session[s].is = "running"
      /\ session' = [session EXCEPT ![s].queue = {}]
      /\ where = "buffer" => hosted
      /\ clock' = clock + 1 /\ UNCHANGED <<hosted, blind, repeated>>
      /\ stored' \subseteq stored \cup batch /\ waiting' \subseteq waiting \cup batch
      /\ kept' \subseteq kept \cup batch
      /\ where # "buffer" => kept' = kept
  BY DEF SendBatch, SessionInv, SessionsTyped
<1>2. /\ session[s].run \in Sessions /\ session[s].queue \subseteq 0 .. MaxStep
      /\ clock \in Nat
  BY <1>1, SessionFields DEF SessionInv, SessionsTyped, RowsTyped
<1>3. /\ batch \subseteq [of : Sessions, step : 0 .. MaxStep, time : 1 .. clock + 1]
      /\ \A row \in batch : row.of = session[s].run /\ row.step \in session[s].queue
  BY <1>2 DEF SessionBatch
<1>4. RowSet \subseteq RowSet' /\ batch \subseteq RowSet'
  BY <1>1, <1>2, <1>3 DEF RowSet
<1> HIDE DEF batch
<1>5. RowsTyped'
  BY <1>1, <1>2, <1>4 DEF SessionInv, RowsTyped
<1>6. /\ session' \in [Sessions -> SessionStates]
      /\ \A t \in Sessions : /\ session'[t].run = session[t].run
                             /\ session'[t].next = session[t].next
                             /\ session'[t].is = session[t].is
                             /\ session'[t].queue \subseteq session[t].queue
  BY <1>1 DEF SessionInv, SessionsTyped, SessionStates
<1>7. SessionsTyped'
  BY <1>6 DEF SessionInv, SessionsTyped
<1>8. stored' \cup waiting' \cup kept' \subseteq
        stored \cup waiting \cup kept
        \cup {row \in RowSet' : \E t \in Sessions : row.of = session[t].run
                                                    /\ row.step \in session[t].queue}
  BY <1>1, <1>3, <1>4
<1> QED
  BY <1>1, <1>5, <1>6, <1>7, <1>8, NothingLogged

LEMMA SessionInvNext ==
  ASSUME SessionInv, [SessionNext]_sessionVars
  PROVE  SessionInv'
<1>1. ASSUME NEW s \in Sessions, NEW resume \in {"must", "allow", "never"},
             NEW connects \in BOOLEAN, NEW findsRuns \in BOOLEAN, NEW findsStep \in BOOLEAN,
             InitSession(s, resume, connects, findsRuns, findsStep)
      PROVE  SessionInv'
  BY <1>1, InitKeeps
<1>2. ASSUME NEW s \in Sessions, NEW given \in -1 .. MaxStep, LogStep(s, given)
      PROVE  SessionInv'
  BY <1>2, LogStepKeeps
<1>3. ASSUME NEW s \in Sessions, NEW where \in {"database", "queue", "buffer"},
             SendBatch(s, where)
      PROVE  SessionInv'
  BY <1>3, SendBatchKeeps
<1>4. CASE WriteWaiting \/ \E s \in Sessions : ReplayBuffer(s)
  <2>1. /\ UNCHANGED <<hosted, session, clock, blind, repeated>>
        /\ stored' \cup waiting' \cup kept' = stored \cup waiting \cup kept
        /\ kept' \subseteq kept
    BY <1>4 DEF WriteWaiting, ReplayBuffer
  <2>2. RowsTyped' /\ SessionsTyped'
    BY <2>1 DEF SessionInv, RowsTyped, RowSet, SessionsTyped
  <2> QED
    BY <2>1, <2>2, NothingLogged
<1>5. CASE \E s \in Sessions : FinishSession(s) \/ KillSession(s)
  <2>1. PICK s \in Sessions : FinishSession(s) \/ KillSession(s)
    BY <1>5
  <2>2. /\ UNCHANGED <<hosted, stored, waiting, kept, clock, blind, repeated>>
        /\ session[s].is = "running"
        /\ \/ session' = [session EXCEPT ![s].is = "ended"] /\ session[s].queue = {}
           \/ session' = [session EXCEPT ![s].is = "ended", ![s].queue = {}]
    BY <2>1 DEF FinishSession, KillSession
  <2>3. /\ session' \in [Sessions -> SessionStates]
        /\ session'[s].is = "ended" /\ session'[s].queue = {}
        /\ \A t \in Sessions : /\ session'[t].run = session[t].run
                               /\ session'[t].next = session[t].next
                               /\ t # s => session'[t] = session[t]
    BY <2>2 DEF SessionInv, SessionsTyped, SessionStates
  <2>4. RowsTyped' /\ SessionsTyped'
    BY <2>2, <2>3 DEF SessionInv, RowsTyped, RowSet, SessionsTyped
  <2>5. \A t \in Sessions : /\ session'[t].is = "running" => session[t].is = "running"
                            /\ session'[t].queue \subseteq session[t].queue
    BY <2>3
  <2> QED
    BY <2>2, <2>3, <2>4, <2>5, NothingLogged
<1>6. CASE UNCHANGED sessionVars
  <2>1. RowsTyped' /\ SessionsTyped'
    BY <1>6 DEF sessionVars, SessionInv, RowsTyped, RowSet, SessionsTyped
  <2> QED
    BY <1>6, <2>1, NothingLogged DEF sessionVars
<1> QED
  BY <1>1, <1>2, <1>3, <1>4, <1>5, <1>6 DEF SessionNext

LEMMA SessionInvGives == SessionInv => SessionTypeOK /\ StepsContinue
<1> SUFFICES ASSUME SessionInv PROVE SessionTypeOK
  BY DEF SessionInv
<1>1. \A s \in Sessions : session[s].is = "running" => session[s].run \in Sessions
  BY SessionFields DEF SessionInv, SessionsTyped
<1> QED
  BY <1>1 DEF SessionInv, SessionTypeOK, RowsTyped, RowSet

\* A run that is resumed after all its rows arrived, and by one session at a time, is
\* never given one of its steps twice: for any sessions, steps and failed look-ups.
THEOREM SessionStepsContinue == SessionSpec => [](SessionTypeOK /\ StepsContinue)
  BY SessionInvInit, SessionInvNext, SessionInvGives, PTL DEF SessionSpec
------------------------------------------------------------------------------
\* The spill to a bucket.

Frags == [rows : SUBSET entered, config : BOOLEAN]

ActStates ==
  [pc : {"idle", "write", "clear", "uploads"}, ids : SUBSET entered, entries : SUBSET entered]

SpillTyped ==
  /\ SpillTypeOK
  /\ entered \subseteq SpillEntries
  /\ first = NoEntry \/ (first \in entered /\ SpillKind[first] = "metric")
  /\ act \in [Actors -> ActStates]
  /\ spilled \subseteq Frags
  /\ import \in [pc : {"idle", "import"}, todo : SUBSET Frags, consumed : SUBSET Frags]

\* Who may still put what is queued somewhere: a run that is stopping and has no client
\* has no queue once finish drains.
PhasesFit ==
  /\ connected => thread \in {"sending", "gone"}
  /\ thread = "gone" => queued = {} /\ state # "open"
  /\ act["sender"].pc # "idle" => thread = "spilling"
  /\ act["finish"].pc # "idle" => state = "draining"
  /\ act["finish"].pc # "idle" \/ state = "finished" => connected \/ queued = {}

\* What a row or a fragment may be dropped for is elsewhere: noted rows are in the bucket
\* or on the Space, so are the rows the drain clears, and consumed fragments on the Space.
DroppedIsOut ==
  /\ noted \subseteq InBucket \cup inSpace
  /\ \A a \in Actors : act[a].pc = "write" => act[a].ids \subseteq noted \cup act[a].entries
  /\ act["finish"].pc = "clear" => act["finish"].ids \subseteq InBucket \cup inSpace
  /\ \A f \in import.consumed : f.rows \subseteq inSpace

\* A fragment with the row that carries the config has the config.
FragmentsConfigured ==
  \A f \in spilled \cup import.todo : first \in f.rows => f.config

\* Without faults the drain reads every metric that is pending, and leaves nothing.
DrainsAll ==
  /\ \A e \in pend : SpillKind[e] \in {"metric", "upload"}
  /\ faulty = 0 =>
       /\ state # "ended" => lost = {}
       /\ act["finish"].pc \in {"write", "clear"} => OfKind(pend, "metric") \subseteq act["finish"].ids
       /\ act["finish"].pc = "uploads" => OfKind(pend, "metric") = {}
       /\ state = "finished" => pend = {}

SpillInv ==
  /\ SpillTyped /\ PhasesFit /\ DroppedIsOut /\ FragmentsConfigured /\ DrainsAll
  /\ SpillKept /\ ConfigUnlessReplayed

LEMMA SpillInvInit == SpillInit => SpillInv
<1> SUFFICES ASSUME SpillInit PROVE SpillInv
  OBVIOUS
<1> USE SpillAssumption DEF SpillInit, NoAct, NoImport
<1>1. SpillTyped
  <2>1. SpillTypeOK
    <3>1. faulty \in 0 .. MaxSpillFaults
      OBVIOUS
    <3>2. /\ mode \in {"sqlite", "jsonl"} /\ spaceUp \in BOOLEAN /\ connected \in BOOLEAN
          /\ state = "open" /\ thread = "connecting"
      OBVIOUS
    <3>3. /\ queued \subseteq entered /\ pend \subseteq entered /\ inSpace \subseteq entered
          /\ noted \subseteq entered /\ spilled = {}
      OBVIOUS
    <3> QED
      BY <3>1, <3>2, <3>3 DEF SpillTypeOK
  <2>2. act \in [Actors -> ActStates]
    BY DEF ActStates
  <2>3. import \in [pc : {"idle", "import"}, todo : SUBSET Frags, consumed : SUBSET Frags]
    OBVIOUS
  <2> QED
    BY <2>1, <2>2, <2>3 DEF SpillTyped
<1>2. PhasesFit /\ DroppedIsOut /\ FragmentsConfigured /\ DrainsAll
  BY DEF PhasesFit, DroppedIsOut, FragmentsConfigured, DrainsAll, OfKind, Actors
<1>3. SpillKept /\ ConfigUnlessReplayed
  BY DEF SpillKept, ConfigUnlessReplayed
<1> QED
  BY <1>1, <1>2, <1>3 DEF SpillInv

LEMMA FragmentIs ==
  ASSUME NEW S \in SUBSET entered, NEW own
  PROVE  /\ Fragment(S, own) \in Frags /\ Fragment(S, own).rows = S
         /\ \A e \in S : SpillKind[e] = "metric" => Fragment(S, own).config
  BY DEF Fragment, Frags, OfKind

LEMMA CallCounts ==
  ASSUME SpillTypeOK, NEW o \in Outcomes, Call(o)
  PROVE  faulty' \in 0 .. MaxSpillFaults /\ (faulty' = 0 => faulty = 0 /\ o = "ok")
  BY SpillAssumption DEF SpillTypeOK, Call

\* A batch of one kind is pending, in the bucket or, where that failed, lost.
LEMMA PersistPuts ==
  ASSUME SpillTyped, NEW k \in Kinds, NEW S \in SUBSET entered, S # {},
         \A e \in S : SpillKind[e] = k, NEW o \in Outcomes, Persist(S, o)
  PROVE  /\ spilled \subseteq spilled' /\ spilled' \subseteq spilled \cup {Fragment(S, first \in S)}
         /\ media \subseteq media' /\ lost \subseteq lost' /\ (o = "ok" => lost' = lost)
         /\ pend \subseteq pend' /\ pend' \subseteq pend \cup S
         /\ \A e \in pend' : e \in pend \/ SpillKind[e] \in {"metric", "upload"}
         /\ S \subseteq pend' \cup InBucket' \cup media' \cup lost'
<1> DEFINE direct == mode = "jsonl" \/ k = "alert"
           rest == IF o = "ok" THEN {} ELSE S
<1>1. (CHOOSE q \in Kinds : OfKind(S, q) # {}) = k
  BY DEF OfKind
<1>2. /\ ~direct => o = "ok"
      /\ spilled' = IF direct /\ k # "upload" /\ Reaches(o)
                    THEN spilled \cup {Fragment(S, first \in S)} ELSE spilled
      /\ media' = IF direct /\ k = "upload" /\ Reaches(o) THEN media \cup S ELSE media
      /\ pend' = IF ~direct THEN pend \cup S
                 ELSE IF k = "upload" THEN pend \cup rest ELSE pend
      /\ lost' = IF direct /\ k # "upload" THEN lost \cup rest ELSE lost
  BY <1>1 DEF Persist
<1>3. \A e \in pend' : e \in pend \/ SpillKind[e] \in {"metric", "upload"}
  BY <1>2 DEF Kinds
<1>4. S \subseteq pend' \cup InBucket' \cup media' \cup lost'
  <2>1. CASE ~direct
    BY <1>2, <2>1
  <2>2. CASE direct /\ k # "upload" /\ o = "ok"
    <3>1. Fragment(S, first \in S) \in spilled' /\ Fragment(S, first \in S).rows = S
      BY <1>2, <2>2, FragmentIs DEF Reaches
    <3> QED
      BY <3>1 DEF InBucket
  <2>3. CASE direct /\ k # "upload" /\ o # "ok"
    BY <1>2, <2>3
  <2>4. CASE direct /\ k = "upload"
    BY <1>2, <2>4 DEF Reaches
  <2> QED
    BY <2>1, <2>2, <2>3, <2>4
<1> QED
  BY <1>2, <1>3, <1>4

LEMMA LogEntryKeeps ==
  ASSUME SpillInv, NEW e \in SpillEntries, LogEntry(e)
  PROVE  SpillInv'
<1> USE DEF SpillInv
<1>1. /\ state = "open" /\ e \notin entered /\ entered' = entered \cup {e}
      /\ queued' = queued \cup {e}
      /\ first' = IF first = NoEntry /\ SpillKind[e] = "metric" THEN e ELSE first
      /\ UNCHANGED <<mode, state, thread, connected, pend, noted, flag, act, spilled, media,
                     inSpace, config, import, spaceUp, lost, replayed, faulty>>
  BY DEF LogEntry, database, spaceSide
<1>2. Frags \subseteq Frags' /\ ActStates \subseteq ActStates'
  BY <1>1 DEF Frags, ActStates
<1>3. SpillTyped'
  <2>1. SpillTypeOK'
    BY <1>1 DEF SpillTyped, SpillTypeOK
  <2>2. act' \in [Actors -> ActStates'] /\ spilled' \subseteq Frags'
    BY <1>1, <1>2 DEF SpillTyped
  <2>3. import' \in [pc : {"idle", "import"}, todo : SUBSET Frags', consumed : SUBSET Frags']
    BY <1>1, <1>2 DEF SpillTyped
  <2> QED
    BY <1>1, <2>1, <2>2, <2>3 DEF SpillTyped
<1>4. PhasesFit'
  BY <1>1 DEF PhasesFit
<1>5. DroppedIsOut'
  BY <1>1 DEF DroppedIsOut, InBucket
<1>6. FragmentsConfigured'
  <2>1. \A f \in spilled \cup import.todo : f.rows \subseteq entered
    BY DEF SpillTyped, Frags
  <2> QED
    BY <1>1, <2>1 DEF FragmentsConfigured
<1>7. DrainsAll'
  BY <1>1 DEF DrainsAll, OfKind
<1>8. SpillKept' /\ ConfigUnlessReplayed'
  BY <1>1 DEF SpillKept, ConfigUnlessReplayed, InBucket, SpillTyped, SpillTypeOK
<1> QED
  BY <1>3, <1>4, <1>5, <1>6, <1>7, <1>8

\* A step of the phases alone.
LEMMA PhaseStepKeeps ==
  ASSUME SpillInv, PhasesFit',
         UNCHANGED <<mode, queued, first, pend, noted, act, spilled, media, inSpace, config,
                     import, entered, lost, replayed, faulty>>,
         connected' \in BOOLEAN, spaceUp' \in BOOLEAN,
         state' \in {"open", "stopping", "draining", "finished", "ended"},
         thread' \in {"connecting", "spilling", "sending", "gone"},
         state = "ended" => state' = "ended",
         state' = "finished" => state = "finished" \/ pend = {}
  PROVE  SpillInv'
<1> USE DEF SpillInv
<1>1. SpillTyped'
  BY DEF SpillTyped, SpillTypeOK, ActStates, Frags
<1>2. DroppedIsOut' /\ FragmentsConfigured'
  BY DEF DroppedIsOut, FragmentsConfigured, InBucket
<1>3. DrainsAll'
  BY DEF DrainsAll, OfKind
<1>4. SpillKept' /\ ConfigUnlessReplayed'
  BY DEF SpillKept, ConfigUnlessReplayed, InBucket
<1> QED
  BY <1>1, <1>2, <1>3, <1>4

LEMMA PhasesKeep ==
  ASSUME SpillInv,
         \/ Finish \/ JoinEnds \/ FinishEnds \/ Connect \/ SpillWhileWaiting \/ ThreadGone
         \/ SpaceStarts
  PROVE  SpillInv'
<1> USE DEF SpillInv
<1>a. /\ connected \in BOOLEAN /\ spaceUp \in BOOLEAN
      /\ state \in {"open", "stopping", "draining", "finished", "ended"}
      /\ thread \in {"connecting", "spilling", "sending", "gone"}
  BY DEF SpillTyped, SpillTypeOK
<1>1. UNCHANGED <<mode, queued, first, pend, noted, act, spilled, media, inSpace, config,
                  import, entered, lost, replayed, faulty>>
  BY DEF Finish, JoinEnds, FinishEnds, Connect, SpillWhileWaiting, ThreadGone, SpaceStarts,
         database, spaceSide, spillHistory
<1>2. CASE Finish \/ JoinEnds \/ SpaceStarts
  <2>1. /\ UNCHANGED <<thread, connected>> /\ spaceUp' \in BOOLEAN
        /\ \/ state = "open" /\ state' = "stopping"
           \/ state = "stopping" /\ state' = "draining"
           \/ state' = state
    BY <1>a, <1>2 DEF Finish, JoinEnds, SpaceStarts, spaceSide
  <2>2. PhasesFit'
    BY <1>1, <2>1 DEF PhasesFit
  <2> QED
    BY <1>a, <1>1, <2>1, <2>2, PhaseStepKeeps
<1>3. CASE FinishEnds
  <2>1. /\ UNCHANGED <<thread, connected, spaceUp>>
        /\ state = "draining" /\ act["finish"].pc = "idle" /\ pend = {}
        /\ (thread # "gone" /\ ~connected => queued = {}) /\ state' = "finished"
    BY <1>3 DEF FinishEnds, spaceSide
  <2>2. PhasesFit'
    BY <1>1, <1>a, <2>1 DEF PhasesFit
  <2> QED
    BY <1>a, <1>1, <2>1, <2>2, PhaseStepKeeps
<1>4. CASE Connect
  <2>1. /\ UNCHANGED <<state, spaceUp>>
        /\ thread = "connecting" /\ state = "open" /\ thread' = "sending" /\ connected' = TRUE
    BY <1>4 DEF Connect, spaceSide
  <2>2. PhasesFit'
    BY <1>1, <2>1 DEF PhasesFit
  <2> QED
    BY <1>a, <1>1, <2>1, <2>2, PhaseStepKeeps
<1>5. CASE SpillWhileWaiting
  <2>1. /\ UNCHANGED <<state, connected, spaceUp>>
        /\ thread = "connecting" /\ state = "open" /\ thread' = "spilling"
    BY <1>5 DEF SpillWhileWaiting, spaceSide
  <2>2. PhasesFit'
    BY <1>1, <2>1 DEF PhasesFit
  <2> QED
    BY <1>a, <1>1, <2>1, <2>2, PhaseStepKeeps
<1>6. CASE ThreadGone
  <2>1. /\ UNCHANGED <<state, connected, spaceUp>>
        /\ thread \in {"connecting", "sending"} /\ state # "open" /\ queued = {}
        /\ thread' = "gone"
    BY <1>6 DEF ThreadGone, spaceSide
  <2>2. PhasesFit'
    BY <1>1, <2>1 DEF PhasesFit
  <2> QED
    BY <1>a, <1>1, <2>1, <2>2, PhaseStepKeeps
<1> QED
  BY <1>2, <1>3, <1>4, <1>5, <1>6

LEMMA ProcessEndsKeeps ==
  ASSUME SpillInv, ProcessEnds
  PROVE  SpillInv'
<1> USE DEF SpillInv
<1>1. /\ state' = "ended" /\ thread' = "gone" /\ act' = [a \in Actors |-> NoAct]
      /\ lost' = lost \cup queued /\ queued' = {}
      /\ UNCHANGED <<mode, connected, first, pend, noted, spilled, media, inSpace, config, import,
                     spaceUp, entered, replayed, faulty>>
  BY DEF ProcessEnds, database, spaceSide
<1>2. SpillTyped'
  <2>1. act' \in [Actors -> ActStates']
    BY <1>1 DEF ActStates, NoAct
  <2>2. SpillTypeOK'
    BY <1>1 DEF SpillTyped, SpillTypeOK
  <2> QED
    BY <1>1, <2>1, <2>2 DEF SpillTyped, Frags
<1>3. \A a \in Actors : act'[a].pc = "idle"
  BY <1>1 DEF NoAct
<1>4. PhasesFit'
  BY <1>1, <1>3 DEF PhasesFit, Actors
<1>5. DroppedIsOut' /\ FragmentsConfigured'
  BY <1>1, <1>3 DEF DroppedIsOut, FragmentsConfigured, InBucket, Actors
<1>6. DrainsAll'
  BY <1>1, <1>3 DEF DrainsAll, Actors
<1>7. SpillKept' /\ ConfigUnlessReplayed'
  BY <1>1 DEF SpillKept, ConfigUnlessReplayed, InBucket
<1> QED
  BY <1>2, <1>4, <1>5, <1>6, <1>7

\* A list of the queue is persisted, by whoever may do it while there is no client.
LEMMA FlushListKeeps ==
  ASSUME SpillInv, NEW k \in Kinds, NEW o \in Outcomes, FlushList(k, o), UNCHANGED thread,
         act["finish"].pc = "idle", ~connected
  PROVE  SpillInv'
<1> DEFINE S == OfKind(queued, k)
<1> USE DEF SpillInv
<1>1. /\ S # {} /\ Call(o) /\ Persist(S, o) /\ queued' = queued \ S
      /\ UNCHANGED <<mode, state, thread, connected, first, noted, act, inSpace, config, import,
                     spaceUp, entered, replayed>>
  BY DEF FlushList
<1>2. S \in SUBSET entered /\ S \subseteq queued /\ \A e \in S : SpillKind[e] = k
  BY DEF OfKind, SpillTyped, SpillTypeOK
<1>3. faulty' \in 0 .. MaxSpillFaults /\ (faulty' = 0 => faulty = 0 /\ o = "ok")
  BY <1>1, CallCounts DEF SpillTyped
<1> HIDE DEF S
<1>4. /\ spilled \subseteq spilled' /\ spilled' \subseteq spilled \cup {Fragment(S, first \in S)}
      /\ media \subseteq media' /\ lost \subseteq lost' /\ (o = "ok" => lost' = lost)
      /\ pend \subseteq pend' /\ pend' \subseteq pend \cup S
      /\ \A e \in pend' : e \in pend \/ SpillKind[e] \in {"metric", "upload"}
      /\ S \subseteq pend' \cup InBucket' \cup media' \cup lost'
  BY <1>1, <1>2, PersistPuts
<1>5. /\ Fragment(S, first \in S) \in Frags /\ Fragment(S, first \in S).rows = S
      /\ \A e \in S : SpillKind[e] = "metric" => Fragment(S, first \in S).config
  BY <1>2, FragmentIs
<1>6. SpillTyped'
  <2>1. spilled' \subseteq Frags
    BY <1>4, <1>5 DEF SpillTyped
  <2>2. \A f \in Frags : f.rows \subseteq entered /\ f.config \in BOOLEAN
    BY DEF Frags
  <2>3. SpillTypeOK'
    BY <1>1, <1>2, <1>3, <1>4, <2>1, <2>2 DEF SpillTyped, SpillTypeOK
  <2>4. Frags' = Frags /\ ActStates' = ActStates
    BY <1>1 DEF Frags, ActStates
  <2> QED
    BY <1>1, <2>1, <2>3, <2>4 DEF SpillTyped
<1>7. PhasesFit'
  BY <1>1 DEF PhasesFit
<1>8. InBucket \subseteq InBucket'
  BY <1>4 DEF InBucket
<1>9. DroppedIsOut'
  BY <1>1, <1>8 DEF DroppedIsOut
<1>10. FragmentsConfigured'
  <2>1. first \in S => SpillKind[first] = "metric"
    BY <1>2, SpillAssumption DEF SpillTyped
  <2> QED
    BY <1>1, <1>4, <1>5, <2>1 DEF FragmentsConfigured
<1>11. DrainsAll'
  <2>1. state # "finished"
    BY <1>1, <1>2 DEF PhasesFit
  <2> QED
    BY <1>1, <1>3, <1>4, <2>1 DEF DrainsAll
<1>12. SpillKept' /\ ConfigUnlessReplayed'
  BY <1>1, <1>4, <1>8 DEF SpillKept, ConfigUnlessReplayed
<1> QED
  BY <1>6, <1>7, <1>9, <1>10, <1>11, <1>12

LEMMA SendListKeeps ==
  ASSUME SpillInv, NEW k \in Kinds, NEW o \in Outcomes, SendList(k, o)
  PROVE  SpillInv'
<1> DEFINE S == OfKind(queued, k)
<1> USE DEF SpillInv
<1>1. /\ thread = "sending" /\ S # {} /\ Call(o) /\ Arrive(S, o, first \in S)
      /\ queued' = queued \ S
      /\ IF o = "ok" THEN UNCHANGED <<spilled, media, pend, flag, lost>> ELSE Persist(S, "ok")
      /\ UNCHANGED <<mode, state, thread, connected, first, noted, act, import, spaceUp,
                     entered, replayed>>
  BY DEF SendList
<1>2. S \in SUBSET entered /\ S \subseteq queued /\ \A e \in S : SpillKind[e] = k
  BY DEF OfKind, SpillTyped, SpillTypeOK
<1>3. faulty' \in 0 .. MaxSpillFaults /\ (faulty' = 0 => faulty = 0 /\ o = "ok")
  BY <1>1, CallCounts DEF SpillTyped
<1>4. /\ inSpace \subseteq inSpace' /\ inSpace' \subseteq inSpace \cup S
      /\ (o = "ok" => S \subseteq inSpace') /\ (config => config')
      /\ (first \in S /\ first \in inSpace' => config' \/ first \in inSpace)
  BY <1>1 DEF Arrive, Reaches
<1> HIDE DEF S
<1>5. /\ spilled \subseteq spilled' /\ spilled' \subseteq spilled \cup {Fragment(S, first \in S)}
      /\ media \subseteq media' /\ lost' = lost
      /\ pend \subseteq pend' /\ pend' \subseteq pend \cup S /\ (o = "ok" => pend' = pend)
      /\ \A e \in pend' : e \in pend \/ SpillKind[e] \in {"metric", "upload"}
      /\ S \subseteq pend' \cup InBucket' \cup media' \cup lost' \cup inSpace'
  <2>1. CASE o = "ok"
    BY <1>1, <1>4, <2>1
  <2>2. CASE o # "ok"
    <3>1. Persist(S, "ok") /\ "ok" \in Outcomes
      BY <1>1, <2>2 DEF Outcomes
    <3> QED
      BY <1>1, <1>2, <2>2, <3>1, PersistPuts
  <2> QED
    BY <2>1, <2>2
<1>6. /\ Fragment(S, first \in S) \in Frags /\ Fragment(S, first \in S).rows = S
      /\ \A e \in S : SpillKind[e] = "metric" => Fragment(S, first \in S).config
  BY <1>2, FragmentIs
<1>7. SpillTyped'
  <2>1. spilled' \subseteq Frags
    BY <1>5, <1>6 DEF SpillTyped
  <2>2. \A f \in Frags : f.rows \subseteq entered /\ f.config \in BOOLEAN
    BY DEF Frags
  <2>3. SpillTypeOK'
    BY <1>1, <1>2, <1>3, <1>4, <1>5, <2>1, <2>2 DEF SpillTyped, SpillTypeOK
  <2>4. Frags' = Frags /\ ActStates' = ActStates
    BY <1>1 DEF Frags, ActStates
  <2> QED
    BY <1>1, <2>1, <2>3, <2>4 DEF SpillTyped
<1>8. PhasesFit'
  BY <1>1 DEF PhasesFit
<1>9. InBucket \subseteq InBucket'
  BY <1>5 DEF InBucket
<1>10. DroppedIsOut'
  BY <1>1, <1>4, <1>9 DEF DroppedIsOut
<1>11. FragmentsConfigured'
  <2>1. first \in S => SpillKind[first] = "metric"
    BY <1>2, SpillAssumption DEF SpillTyped
  <2> QED
    BY <1>1, <1>5, <1>6, <2>1 DEF FragmentsConfigured
<1>12. DrainsAll'
  BY <1>1, <1>3, <1>5 DEF DrainsAll
<1>13. SpillKept'
  BY <1>1, <1>4, <1>5, <1>9 DEF SpillKept
<1>14. ConfigUnlessReplayed'
  BY <1>1, <1>4 DEF ConfigUnlessReplayed
<1> QED
  BY <1>7, <1>8, <1>10, <1>11, <1>12, <1>13, <1>14

LEMMA ReplayKeeps ==
  ASSUME SpillInv, NEW o \in Outcomes, Replay(o)
  PROVE  SpillInv'
<1> USE DEF SpillInv
<1>1. /\ thread = "sending" /\ queued = {} /\ Call(o) /\ Arrive(pend, o, FALSE)
      /\ replayed' = IF Reaches(o) THEN replayed \cup pend ELSE replayed
      /\ pend' = IF o = "ok" THEN {} ELSE pend
      /\ thread' = IF o # "ok" /\ state # "open" THEN "gone" ELSE thread
      /\ UNCHANGED <<mode, state, connected, queued, first, noted, act, spilled, media, import,
                     spaceUp, entered, lost>>
  BY DEF Replay
<1>2. faulty' \in 0 .. MaxSpillFaults /\ (faulty' = 0 => faulty = 0 /\ o = "ok")
  BY <1>1, CallCounts DEF SpillTyped
<1>3. /\ inSpace \subseteq inSpace' /\ inSpace' \subseteq inSpace \cup pend
      /\ (o = "ok" => pend \subseteq inSpace') /\ (config => config')
      /\ (first \in inSpace' \ replayed' => first \in inSpace \ replayed)
  BY <1>1 DEF Arrive, Reaches
<1>4. SpillTyped'
  <2>1. SpillTypeOK'
    BY <1>1, <1>2, <1>3 DEF SpillTyped, SpillTypeOK
  <2>2. Frags' = Frags /\ ActStates' = ActStates
    BY <1>1 DEF Frags, ActStates
  <2> QED
    BY <1>1, <2>1, <2>2 DEF SpillTyped
<1>5. PhasesFit'
  BY <1>1 DEF PhasesFit
<1>6. DroppedIsOut' /\ FragmentsConfigured'
  BY <1>1, <1>3 DEF DroppedIsOut, FragmentsConfigured, InBucket
<1>7. DrainsAll'
  BY <1>1, <1>2 DEF DrainsAll, OfKind
<1>8. SpillKept'
  BY <1>1, <1>3 DEF SpillKept, InBucket
<1>9. ConfigUnlessReplayed'
  BY <1>1, <1>3 DEF ConfigUnlessReplayed
<1> QED
  BY <1>4, <1>5, <1>6, <1>7, <1>8, <1>9

\* An actor's step has ended or been given up.
LEMMA GivesUpIs ==
  ASSUME SpillTyped, PhasesFit, NEW a \in Actors, act[a].pc # "idle", GivesUp(a)
  PROVE  /\ act' \in [Actors -> ActStates] /\ act'[a] = NoAct
         /\ \A b \in Actors : b # a => act'[b] = act[b]
         /\ thread' \in {"connecting", "spilling", "sending", "gone"}
         /\ a = "finish" => thread' = thread /\ state' = "finished" /\ state = "draining"
         /\ a = "sender" => thread = "spilling" /\ thread' = "connecting" /\ state' = state
BY DEF GivesUp, SpillTyped, SpillTypeOK, ActStates, NoAct, PhasesFit, Actors

LEMMA ReadPendingKeeps ==
  ASSUME SpillInv, NEW a \in Actors, ReadPending(a)
  PROVE  SpillInv'
<1> DEFINE ids == OfKind(pend, "metric")
           next == [pc |-> "write", ids |-> ids, entries |-> ids \ noted]
<1> USE DEF SpillInv
<1>1. /\ Working(a) /\ act[a].pc = "idle" /\ (a = "sender" => queued = {})
      /\ a = "finish" => pend # {} /\ (thread # "gone" /\ ~connected => queued = {})
      /\ act' = [act EXCEPT ![a] = next]
      /\ UNCHANGED <<mode, state, thread, connected, queued, first, pend, noted, spilled, media,
                     inSpace, config, import, spaceUp, entered, lost, replayed, faulty>>
  BY DEF ReadPending, database, spaceSide, spillHistory
<1>2. ids \subseteq pend /\ pend \subseteq entered
  BY DEF OfKind, SpillTyped, SpillTypeOK
<1>3. next \in ActStates /\ next.pc = "write" /\ next.ids = ids /\ next.entries = ids \ noted
  BY <1>2 DEF ActStates
<1> HIDE DEF next
<1>4. act'[a] = next /\ (\A b \in Actors : b # a => act'[b] = act[b])
      /\ act' \in [Actors -> ActStates]
  BY <1>1, <1>3 DEF SpillTyped
<1>5. SpillTyped'
  <2>1. SpillTypeOK'
    BY <1>1 DEF SpillTyped, SpillTypeOK
  <2>2. Frags' = Frags /\ ActStates' = ActStates
    BY <1>1 DEF Frags, ActStates
  <2> QED
    BY <1>1, <1>4, <2>1, <2>2 DEF SpillTyped
<1>6. PhasesFit'
  BY <1>1, <1>3, <1>4 DEF PhasesFit, Actors, Working
<1>7. DroppedIsOut'
  BY <1>1, <1>3, <1>4 DEF DroppedIsOut, InBucket, Actors
<1>8. FragmentsConfigured'
  BY <1>1 DEF FragmentsConfigured
<1>9. DrainsAll'
  <2>1. OfKind(pend, "metric")' = ids
    BY <1>1 DEF OfKind
  <2>2. CASE a = "finish"
    <3>1. act'["finish"].pc = "write" /\ act'["finish"].ids = ids
      BY <1>3, <1>4, <2>2
    <3> QED
      BY <1>1, <2>1, <3>1 DEF DrainsAll
  <2>3. CASE a = "sender"
    <3>1. act'["finish"] = act["finish"]
      BY <1>4, <2>3 DEF Actors
    <3> QED
      BY <1>1, <2>1, <3>1 DEF DrainsAll
  <2> QED
    BY <2>2, <2>3 DEF Actors
<1>10. SpillKept' /\ ConfigUnlessReplayed'
  BY <1>1 DEF SpillKept, ConfigUnlessReplayed, InBucket
<1> QED
  BY <1>5, <1>6, <1>7, <1>8, <1>9, <1>10

LEMMA WriteFragmentKeeps ==
  ASSUME SpillInv, NEW a \in Actors, NEW o \in Outcomes, WriteFragment(a, o)
  PROVE  SpillInv'
<1> DEFINE entries == act[a].entries
           frag == Fragment(entries, FALSE)
<1> USE DEF SpillInv
<1>1. /\ act[a].pc = "write" /\ (entries = {} => o = "ok") /\ Call(o)
      /\ spilled' = IF entries # {} /\ Reaches(o) THEN spilled \cup {frag} ELSE spilled
      /\ noted' = IF a = "sender" THEN NotedBy(o, act[a].ids) ELSE noted
      /\ IF o = "ok" THEN /\ act' = [act EXCEPT ![a].pc = IF a = "finish" THEN "clear" ELSE "uploads"]
                          /\ UNCHANGED <<thread, state>>
         ELSE GivesUp(a)
      /\ UNCHANGED <<mode, connected, queued, first, pend, flag, media, inSpace, config, import,
                     spaceUp, entered, lost, replayed>>
  BY DEF WriteFragment, spillHistory
<1>2. faulty' \in 0 .. MaxSpillFaults /\ (faulty' = 0 => faulty = 0 /\ o = "ok")
  BY <1>1, CallCounts DEF SpillTyped
<1>3. act[a].ids \subseteq entered /\ entries \subseteq entered
      /\ act[a].ids \subseteq noted \cup entries
  BY <1>1 DEF SpillTyped, ActStates, DroppedIsOut
<1>4. /\ frag \in Frags /\ frag.rows = entries
      /\ \A e \in entries : SpillKind[e] = "metric" => frag.config
  BY <1>3, FragmentIs
<1> HIDE DEF frag
<1>5. spilled \subseteq spilled' /\ spilled' \subseteq spilled \cup {frag}
      /\ (o = "ok" => entries = {} \/ frag \in spilled')
  BY <1>1 DEF Reaches
<1>6. InBucket \subseteq InBucket' /\ (o = "ok" => entries \subseteq InBucket')
  BY <1>4, <1>5 DEF InBucket
<1>7. act[a].ids \subseteq InBucket' \cup inSpace' \/ o # "ok"
  BY <1>1, <1>3, <1>6 DEF DroppedIsOut
<1>8. noted' \subseteq InBucket' \cup inSpace' /\ noted \subseteq noted' /\ noted' \subseteq entered
  BY <1>1, <1>3, <1>6, <1>7 DEF DroppedIsOut, NotedBy, SpillTyped, SpillTypeOK
<1>9. o = "ok" => /\ act' \in [Actors -> ActStates]
                  /\ act'[a].ids = act[a].ids
                  /\ act'[a].pc = IF a = "finish" THEN "clear" ELSE "uploads"
                  /\ \A b \in Actors : b # a => act'[b] = act[b]
                  /\ UNCHANGED <<thread, state>>
  BY <1>1 DEF SpillTyped, ActStates
<1>10. o # "ok" =>
         /\ act' \in [Actors -> ActStates] /\ act'[a] = NoAct
         /\ \A b \in Actors : b # a => act'[b] = act[b]
         /\ thread' \in {"connecting", "spilling", "sending", "gone"}
         /\ a = "finish" => thread' = thread /\ state' = "finished" /\ state = "draining"
         /\ a = "sender" => thread = "spilling" /\ thread' = "connecting" /\ state' = state
  BY <1>1, GivesUpIs
<1>11. SpillTyped'
  <2>1. spilled' \subseteq Frags
    BY <1>4, <1>5 DEF SpillTyped
  <2>2. \A f \in Frags : f.rows \subseteq entered /\ f.config \in BOOLEAN
    BY DEF Frags
  <2>3. /\ state' \in {"open", "stopping", "draining", "finished", "ended"}
        /\ thread' \in {"connecting", "spilling", "sending", "gone"}
        /\ act' \in [Actors -> ActStates]
    BY <1>9, <1>10 DEF SpillTyped, SpillTypeOK, Actors
  <2>4. SpillTypeOK'
    BY <1>1, <1>2, <1>8, <2>1, <2>2, <2>3 DEF SpillTyped, SpillTypeOK
  <2>5. Frags' = Frags /\ ActStates' = ActStates
    BY <1>1 DEF Frags, ActStates
  <2> QED
    BY <1>1, <2>1, <2>3, <2>4, <2>5 DEF SpillTyped
<1>12. PhasesFit'
  BY <1>1, <1>9, <1>10 DEF PhasesFit, Actors, NoAct
<1>13. DroppedIsOut'
  <2>1. \A b \in Actors : act'[b].pc = "write" => act'[b] = act[b] /\ act[b].pc = "write"
    BY <1>9, <1>10 DEF NoAct, Actors
  <2>2. act'["finish"].pc = "clear" =>
          \/ act'["finish"] = act["finish"]
          \/ o = "ok" /\ a = "finish" /\ act'["finish"].ids = act[a].ids
    BY <1>9, <1>10 DEF NoAct, Actors
  <2>3. act'["finish"].pc = "clear" => act'["finish"].ids \subseteq InBucket' \cup inSpace'
    BY <1>1, <1>6, <1>7, <2>2 DEF DroppedIsOut
  <2>4. \A b \in Actors : act'[b].pc = "write" => act'[b].ids \subseteq noted' \cup act'[b].entries
    BY <1>8, <2>1 DEF DroppedIsOut
  <2>5. \A f \in import'.consumed : f.rows \subseteq inSpace'
    BY <1>1 DEF DroppedIsOut
  <2> QED
    BY <1>8, <2>3, <2>4, <2>5 DEF DroppedIsOut
<1>14. FragmentsConfigured'
  <2>1. first \in entries => SpillKind[first] = "metric"
    BY <1>3, SpillAssumption DEF SpillTyped
  <2> QED
    BY <1>1, <1>4, <1>5, <2>1 DEF FragmentsConfigured
<1>15. DrainsAll'
  <2>1. ASSUME faulty' = 0
        PROVE  /\ faulty = 0 /\ state' = state
               /\ \/ act'["finish"] = act["finish"]
                  \/ /\ act["finish"].pc = "write" /\ act'["finish"].pc = "clear"
                     /\ act'["finish"].ids = act["finish"].ids
    BY <1>1, <1>2, <1>9, <2>1 DEF Actors
  <2>2. OfKind(pend, "metric")' = OfKind(pend, "metric")
    BY <1>1 DEF OfKind
  <2> QED
    BY <1>1, <2>1, <2>2 DEF DrainsAll
<1>16. SpillKept' /\ ConfigUnlessReplayed'
  BY <1>1, <1>6 DEF SpillKept, ConfigUnlessReplayed
<1> QED
  BY <1>11, <1>12, <1>13, <1>14, <1>15, <1>16

LEMMA ClearDrainedKeeps ==
  ASSUME SpillInv, ClearDrained
  PROVE  SpillInv'
<1> DEFINE ids == act["finish"].ids
<1> USE DEF SpillInv
<1>1. /\ act["finish"].pc = "clear" /\ pend' = pend \ ids /\ noted' = noted \cup ids
      /\ act' = [act EXCEPT !["finish"].pc = "uploads"]
      /\ UNCHANGED <<mode, state, thread, connected, queued, first, flag, spilled, media, inSpace,
                     config, import, spaceUp, entered, lost, replayed, faulty>>
  BY DEF ClearDrained, Cleared, spaceSide, spillHistory
<1>2. "finish" \in Actors
  BY DEF Actors
<1>3. /\ act' \in [Actors -> ActStates] /\ act'["finish"].pc = "uploads"
      /\ act'["finish"].entries = act["finish"].entries
      /\ \A b \in Actors : b # "finish" => act'[b] = act[b]
  BY <1>1, <1>2 DEF SpillTyped, ActStates
<1>4. ids \subseteq entered /\ ids \subseteq InBucket \cup inSpace
  BY <1>1, <1>2 DEF SpillTyped, ActStates, DroppedIsOut
<1>5. SpillTyped'
  <2>1. SpillTypeOK'
    BY <1>1, <1>4 DEF SpillTyped, SpillTypeOK
  <2>2. Frags' = Frags /\ ActStates' = ActStates
    BY <1>1 DEF Frags, ActStates
  <2> QED
    BY <1>1, <1>3, <2>1, <2>2 DEF SpillTyped
<1>6. PhasesFit'
  BY <1>1, <1>3 DEF PhasesFit, Actors
<1>7. DroppedIsOut'
  BY <1>1, <1>3, <1>4 DEF DroppedIsOut, InBucket, Actors
<1>8. FragmentsConfigured'
  BY <1>1 DEF FragmentsConfigured
<1>9. DrainsAll'
  <2>1. OfKind(pend, "metric")' = OfKind(pend, "metric") \ ids
    BY <1>1 DEF OfKind
  <2>2. state = "draining"
    BY <1>1 DEF PhasesFit
  <2> QED
    BY <1>1, <1>3, <2>1, <2>2 DEF DrainsAll
<1>10. SpillKept' /\ ConfigUnlessReplayed'
  BY <1>1, <1>4 DEF SpillKept, ConfigUnlessReplayed, InBucket
<1> QED
  BY <1>5, <1>6, <1>7, <1>8, <1>9, <1>10

LEMMA FlushUploadsKeeps ==
  ASSUME SpillInv, NEW a \in Actors, NEW o \in Outcomes, FlushUploads(a, o)
  PROVE  SpillInv'
<1> DEFINE files == OfKind(pend, "upload")
<1> USE DEF SpillInv
<1>1. /\ act[a].pc = "uploads" /\ Call(o) /\ GivesUp(a)
      /\ media' = IF Reaches(o) THEN media \cup files ELSE media
      /\ pend' = IF o = "ok" THEN pend \ files ELSE pend
      /\ UNCHANGED <<mode, connected, queued, first, noted, spilled, inSpace, config, import,
                     spaceUp, entered, lost, replayed>>
  BY DEF FlushUploads, spillHistory
<1>2. faulty' \in 0 .. MaxSpillFaults /\ (faulty' = 0 => faulty = 0 /\ o = "ok")
  BY <1>1, CallCounts DEF SpillTyped
<1>3. media \subseteq media' /\ pend' \subseteq pend /\ pend \subseteq pend' \cup media'
  BY <1>1 DEF Reaches
<1>4. /\ act' \in [Actors -> ActStates] /\ act'[a] = NoAct
      /\ \A b \in Actors : b # a => act'[b] = act[b]
      /\ thread' \in {"connecting", "spilling", "sending", "gone"}
      /\ a = "finish" => thread' = thread /\ state' = "finished" /\ state = "draining"
      /\ a = "sender" => thread = "spilling" /\ thread' = "connecting" /\ state' = state
  BY <1>1, GivesUpIs
<1>5. SpillTyped'
  <2>1. state' \in {"open", "stopping", "draining", "finished", "ended"}
    BY <1>4 DEF SpillTyped, SpillTypeOK, Actors
  <2>2. SpillTypeOK'
    BY <1>1, <1>2, <1>3, <1>4, <2>1 DEF SpillTyped, SpillTypeOK
  <2>3. Frags' = Frags /\ ActStates' = ActStates
    BY <1>1 DEF Frags, ActStates
  <2> QED
    BY <1>1, <1>4, <2>2, <2>3 DEF SpillTyped
<1>6. PhasesFit'
  BY <1>1, <1>4 DEF PhasesFit, Actors, NoAct
<1>7. DroppedIsOut'
  <2>1. \A b \in Actors : act'[b].pc # "idle" => act'[b] = act[b]
    BY <1>4 DEF NoAct
  <2> QED
    BY <1>1, <2>1 DEF DroppedIsOut, InBucket, Actors
<1>8. FragmentsConfigured'
  BY <1>1 DEF FragmentsConfigured
<1>9. DrainsAll'
  <2>1. \A e \in pend' : SpillKind[e] \in {"metric", "upload"}
    BY <1>3 DEF DrainsAll
  <2>2. OfKind(pend, "metric")' \subseteq OfKind(pend, "metric")
    BY <1>3 DEF OfKind
  <2>3. CASE a = "finish"
    <3>1. faulty' = 0 => pend' = {}
      BY <1>1, <1>2, <2>1, <2>3 DEF DrainsAll, OfKind
    <3>2. act'["finish"].pc = "idle" /\ state' # "ended" /\ state # "ended"
      BY <1>4, <2>3 DEF NoAct
    <3> QED
      BY <1>1, <1>2, <2>1, <3>1, <3>2 DEF DrainsAll
  <2>4. CASE a = "sender"
    <3>1. act'["finish"] = act["finish"] /\ state' = state
      BY <1>4, <2>4 DEF Actors
    <3> QED
      BY <1>1, <1>2, <1>3, <2>1, <2>2, <3>1 DEF DrainsAll
  <2> QED
    BY <2>3, <2>4 DEF Actors
<1>10. SpillKept' /\ ConfigUnlessReplayed'
  BY <1>1, <1>3 DEF SpillKept, ConfigUnlessReplayed, InBucket
<1> QED
  BY <1>5, <1>6, <1>7, <1>8, <1>9, <1>10

LEMMA ImportKeeps ==
  ASSUME SpillInv,
         \/ ListInbox \/ ImportDies
         \/ \E o \in Outcomes : DeleteConsumed(o) \/ \E f \in import.todo : ImportFragment(f, o)
  PROVE  SpillInv'
<1> USE DEF SpillInv
<1> DEFINE Imported ==
             /\ UNCHANGED <<mode, state, thread, connected, queued, first, pend, noted, flag,
                            act, media, spaceUp, entered, lost, replayed>>
             /\ spilled' \subseteq spilled /\ (import'.todo \subseteq import.todo \cup spilled)
             /\ import' \in [pc : {"idle", "import"}, todo : SUBSET Frags, consumed : SUBSET Frags]
             /\ faulty' \in 0 .. MaxSpillFaults /\ (faulty' = 0 => faulty = 0)
             /\ inSpace \subseteq inSpace' /\ inSpace' \subseteq entered
             /\ \A f \in import'.consumed : f.rows \subseteq inSpace'
             /\ (config => config') /\ (first \in inSpace' => first \in inSpace \/ config')
             /\ \A f \in spilled \ spilled' : f.rows \subseteq inSpace'
<1>1. Imported
  <2>a. /\ \A f \in import.consumed : f.rows \subseteq inSpace
        /\ import \in [pc : {"idle", "import"}, todo : SUBSET Frags, consumed : SUBSET Frags]
        /\ spilled \subseteq Frags /\ faulty \in 0 .. MaxSpillFaults /\ inSpace \subseteq entered
        /\ \A f \in Frags : f.rows \subseteq entered
        /\ SpillTypeOK
    BY DEF SpillTyped, SpillTypeOK, DroppedIsOut, Frags
  <2>1. CASE ListInbox
    BY <2>1, <2>a DEF ListInbox, database, spillHistory
  <2>2. CASE ImportDies
    BY <2>2, <2>a, SpillAssumption DEF ImportDies, NoImport, database, spillHistory
  <2>3. ASSUME NEW o \in Outcomes, DeleteConsumed(o) PROVE Imported
    <3>1. faulty' \in 0 .. MaxSpillFaults /\ (faulty' = 0 => faulty = 0 /\ o = "ok")
      BY <2>3, <2>a, CallCounts DEF DeleteConsumed
    <3> QED
      BY <2>3, <2>a, <3>1 DEF DeleteConsumed, Consumed, NoImport, database, spillHistory
  <2>4. ASSUME NEW o \in Outcomes, NEW f \in import.todo, ImportFragment(f, o) PROVE Imported
    <3>1. faulty' \in 0 .. MaxSpillFaults /\ (faulty' = 0 => faulty = 0 /\ o = "ok")
      BY <2>4, <2>a, CallCounts DEF ImportFragment
    <3>2. /\ Arrive(f.rows, o, f.config) /\ o # "late"
          /\ import' = [import EXCEPT !.todo = @ \ {f},
                                      !.consumed = IF o = "ok" THEN @ \cup {f} ELSE @]
          /\ UNCHANGED <<mode, state, thread, connected, queued, first, pend, noted, flag, act,
                         spilled, media, spaceUp, entered, lost, replayed>>
      BY <2>4 DEF ImportFragment, database, spillHistory
    <3> DEFINE used == IF o = "ok" THEN import.consumed \cup {f} ELSE import.consumed
               left == import.todo \ {f}
    <3>3. import' = [import EXCEPT !.todo = left, !.consumed = used]
      BY <3>2
    <3>4. used \in SUBSET Frags /\ left \in SUBSET Frags /\ left \subseteq import.todo
      BY <2>a
    <3>5. /\ inSpace \subseteq inSpace' /\ inSpace' \subseteq inSpace \cup f.rows
          /\ (o = "ok" => f.rows \subseteq inSpace') /\ (config => config')
          /\ (inSpace' # inSpace => config' = (config \/ f.config))
      BY <3>2 DEF Arrive, Reaches
    <3>6. first \in f.rows => f.config
      BY DEF FragmentsConfigured
    <3>7. first \in inSpace' => first \in inSpace \/ config'
      BY <3>5, <3>6
    <3>8. \A g \in used : g.rows \subseteq inSpace'
      BY <2>a, <3>5
    <3>9. f.rows \subseteq entered
      BY <2>a
    <3> HIDE DEF used, left
    <3>10. import'.todo = left /\ import'.consumed = used
           /\ import' \in [pc : {"idle", "import"}, todo : SUBSET Frags, consumed : SUBSET Frags]
      BY <2>a, <3>3, <3>4
    <3> QED
      BY <2>a, <3>1, <3>2, <3>4, <3>5, <3>7, <3>8, <3>9, <3>10
  <2> QED
    BY <2>1, <2>2, <2>3, <2>4
<1>2. SpillTyped'
  <2>1. SpillTypeOK'
    BY <1>1 DEF SpillTyped, SpillTypeOK
  <2>2. Frags' = Frags /\ ActStates' = ActStates
    BY <1>1 DEF Frags, ActStates
  <2> QED
    BY <1>1, <2>1, <2>2 DEF SpillTyped
<1>3. PhasesFit'
  BY <1>1 DEF PhasesFit
<1>4. InBucket \subseteq InBucket' \cup inSpace'
  BY <1>1 DEF InBucket
<1>5. DroppedIsOut'
  BY <1>1, <1>4 DEF DroppedIsOut
<1>6. FragmentsConfigured'
  BY <1>1 DEF FragmentsConfigured
<1>7. DrainsAll'
  BY <1>1 DEF DrainsAll, OfKind
<1>8. SpillKept' /\ ConfigUnlessReplayed'
  BY <1>1, <1>4 DEF SpillKept, ConfigUnlessReplayed
<1> QED
  BY <1>2, <1>3, <1>5, <1>6, <1>7, <1>8

LEMMA SpillInvNext ==
  ASSUME SpillInv, [SpillNext]_spillVars
  PROVE  SpillInv'
<1>1. CASE \E e \in SpillEntries : LogEntry(e)
  BY <1>1, LogEntryKeeps
<1>2. CASE \/ Finish \/ JoinEnds \/ FinishEnds \/ Connect \/ SpillWhileWaiting \/ ThreadGone
           \/ SpaceStarts
  BY <1>2, PhasesKeep
<1>3. CASE ProcessEnds
  BY <1>3, ProcessEndsKeeps
<1>4. CASE ClearDrained
  BY <1>4, ClearDrainedKeeps
<1>5. CASE \E a \in Actors : ReadPending(a)
  BY <1>5, ReadPendingKeeps
<1>6. CASE \/ ListInbox \/ ImportDies
           \/ \E o \in Outcomes :
                DeleteConsumed(o) \/ \E f \in import.todo : ImportFragment(f, o)
  BY <1>6, ImportKeeps
<1>7. ASSUME NEW o \in Outcomes, NEW k \in Kinds,
             FinishFlushes(k, o) \/ SpillFlushes(k, o) \/ UnsentFlushes(k, o)
      PROVE  SpillInv'
  <2>1. FlushList(k, o) /\ UNCHANGED thread /\ OfKind(queued, k) # {}
    BY <1>7 DEF FinishFlushes, SpillFlushes, UnsentFlushes, FlushList
  <2>2. ~connected
    BY <1>7 DEF FinishFlushes, SpillFlushes, UnsentFlushes, SpillInv, PhasesFit
  <2>3. act["finish"].pc = "idle"
    BY <2>1, <2>2 DEF SpillInv, PhasesFit, OfKind
  <2> QED
    BY <2>1, <2>2, <2>3, FlushListKeeps
<1>8. ASSUME NEW o \in Outcomes, NEW k \in Kinds, SendList(k, o)
      PROVE  SpillInv'
  BY <1>8, SendListKeeps
<1>9. ASSUME NEW o \in Outcomes, NEW a \in Actors, WriteFragment(a, o) \/ FlushUploads(a, o)
      PROVE  SpillInv'
  BY <1>9, WriteFragmentKeeps, FlushUploadsKeeps
<1>10. ASSUME NEW o \in Outcomes, Replay(o)
       PROVE  SpillInv'
  BY <1>10, ReplayKeeps
<1>11. CASE UNCHANGED spillVars
  <2>1. UNCHANGED <<mode, state, thread, connected, queued, first, act, pend, noted, flag, spilled,
                    media, inSpace, config, import, spaceUp, entered, lost, replayed, faulty>>
    BY <1>11 DEF spillVars, database, spaceSide, spillHistory
  <2>2. PhasesFit'
    BY <2>1 DEF PhasesFit, SpillInv
  <2> QED
    BY <2>1, <2>2, PhaseStepKeeps DEF SpillInv, SpillTyped, SpillTypeOK
<1> QED
  BY <1>1, <1>2, <1>3, <1>4, <1>5, <1>6, <1>7, <1>8, <1>9, <1>10, <1>11 DEF SpillNext

LEMMA SpillInvGives == SpillInv => SpillTypeOK /\ SpillSound
<1> SUFFICES ASSUME SpillInv PROVE SpillTypeOK /\ SpillSound
  OBVIOUS
<1>1. FinishedIsOut
  <2> SUFFICES ASSUME state = "finished", thread = "gone", faulty = 0
               PROVE  pend = {} /\ entered \subseteq InBucket \cup media \cup inSpace
    BY DEF FinishedIsOut
  <2>1. queued = {} /\ pend = {} /\ lost = {}
    BY DEF SpillInv, PhasesFit, DrainsAll
  <2> QED
    BY <2>1 DEF SpillInv, SpillKept
<1> QED
  BY <1>1 DEF SpillInv, SpillTyped, SpillSound

\* Whatever fails and whoever spills, drains, replays or imports at a time, no entry of a
\* run with a bucket is lost but with its process or its fragment; a finished run without
\* faults leaves nothing behind; the config is on the Space with the first metrics: for any
\* entries and any number of faults.
THEOREM SpillKeepsAll == SpillSpec => [](SpillTypeOK /\ SpillSound)
  BY SpillInvInit, SpillInvNext, SpillInvGives, PTL DEF SpillSpec
------------------------------------------------------------------------------
\* The composition.

\* A run that is resumed and a run that spills stay sound beside the inbox and the files.
THEOREM RunsBeside == MCSpec => []RunsSound
<1>1. MCInit => SessionInv /\ SpillInv
  BY SessionInvInit, SpillInvInit DEF MCInit
<1>2. ASSUME SessionInv, SpillInv, [MCNext]_MCVars
      PROVE  SessionInv' /\ SpillInv'
  <2>1. [SessionNext]_sessionVars /\ [SpillNext]_spillVars
    BY <1>2 DEF MCNext, MCVars, Spills
  <2> QED
    BY <1>2, <2>1, SessionInvNext, SpillInvNext
<1>3. SessionInv /\ SpillInv => RunsSound
  BY SessionInvGives, SpillInvGives DEF RunsSound
<1> QED
  BY <1>1, <1>2, <1>3, PTL DEF MCSpec

\* What is downloaded beside the runs and the inbox holds what was logged.
THEOREM FilesBeside == MCSpec => []FilesSound
<1>1. MCInit => FilesInv
  BY FilesInvInit DEF MCInit
<1>2. ASSUME FilesInv, [MCNext]_MCVars
      PROVE  FilesInv'
  <2>1. [FilesNext]_filesVars
    BY <1>2 DEF MCNext, MCVars, InOrder
  <2> QED
    BY <1>2, <2>1, FilesInvNext
<1>3. FilesInv => FilesSound
  BY FilesInvGives DEF FilesSound
<1> QED
  BY <1>1, <1>2, <1>3, PTL DEF MCSpec
=============================================================================
