------------------------------- MODULE MCServer -------------------------------
(***************************************************************************)
(* Four models of a server with SQLite storage on small instances: its     *)
(* write queue, the runs in its databases, the mirror of a Space and the   *)
(* caches of its logs.  They share no state: part says which of them a     *)
(* behaviour is of, and the others stay in an initial state.               *)
(***************************************************************************)
EXTENDS WriteQueue, ProjectRuns, HubMirror, LogsCache

VARIABLE part

mcVars == <<part, vars, projectVars, hubVars, cacheVars>>

\* Two runs of the same name; one logs two metrics.
MCRunOf == [e \in Records |-> IF e \in {"metric2", "link2"} THEN "r2" ELSE "r1"]

MCTableOf == [e \in Records |-> IF e = "trace1" THEN "traces"
                                ELSE IF e = "link2" THEN "links"
                                ELSE IF e = "config1" THEN "configs" ELSE "metrics"]

MCTimeOf == [e \in Records |-> IF MCRunOf[e] = "r1" THEN 1 ELSE 2]

MCNameAt == [r \in Runs |-> "n1"]

MCOwnerOf == [s \in Sheets |-> "project"]

MCSheetOf == [r \in HubRows |-> IF r = "r3" THEN "configs" ELSE "metrics"]

MCSymmetry == Permutations(Flushers) \cup Permutations(Readers)

MCInit == /\ part \in {"queue", "runs", "mirror", "cache"}
          /\ Init /\ ProjectInit /\ HubInit /\ CacheInit
          /\ part # "mirror" => unseen = {}

\* Bound: two events, or three where one of the rows is never written.
Mirrors == HubNext /\ (entered' = HubRows => events' < MaxEvents)

MCNext ==
    /\ UNCHANGED part
    /\ \/ part = "queue" /\ Next /\ UNCHANGED <<projectVars, hubVars, cacheVars>>
       \/ part = "runs" /\ ProjectNext /\ UNCHANGED <<vars, hubVars, cacheVars>>
       \/ part = "mirror" /\ Mirrors /\ UNCHANGED <<vars, projectVars, cacheVars>>
       \/ part = "cache" /\ CacheNext /\ UNCHANGED <<vars, projectVars, hubVars>>

MCSpec == MCInit /\ [][MCNext]_mcVars

\* The runs in the databases keep their rows and their media, and the copies of
\* what the databases hold, in the dataset and in the caches, are current.
StorageKept == /\ ProjectTypeOK /\ RecordsKept /\ MediaKept
               /\ HubTypeOK /\ MirrorFresh
               /\ CacheTypeOK /\ CacheFresh

=============================================================================
