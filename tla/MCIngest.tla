------------------------------ MODULE MCIngest -------------------------------
(***************************************************************************)
(* The ways of what a run logs, on small instances: the steps it is given, *)
(* the spill to a bucket, the inbox of the server, and the files of an     *)
(* artifact.  The models share no state: part says which of them a         *)
(* behaviour is of, and the others stay in one initial state.              *)
(***************************************************************************)
EXTENDS MCFragmentInbox, RunSession, BucketSpill, ArtifactFiles

VARIABLE part

MCVars == <<part, vars, sessionVars, spillVars, filesVars>>

MCSpillKind == [e \in SpillEntries |-> IF e = "al" THEN "alert"
                                       ELSE IF e = "up" THEN "upload" ELSE "metric"]

MCParentOf == [p \in Paths |-> IF p = 2 THEN 1 ELSE NoPath]

MCInit == /\ part \in {"inbox", "session", "spill", "files"}
          /\ Init /\ SessionInit /\ SpillInit /\ FilesInit
          /\ part # "session" => ~hosted
          /\ part # "spill" => mode = "sqlite"
          /\ part # "files" => ~far

\* Bound: beside a force_sync, a crash, a failing import or a failing read; without
\* one, each of them.
Drains == /\ Next
          /\ faults'.sync = 0 \/ faults'.crash + faults'.import + faults'.read <= 1

\* Bound: the run logs an upload or an alert beside its metrics.
Spills == SpillNext /\ ~{"up", "al"} \subseteq entered'

\* Of the two downloads, which are alike, "d1" begins first.
InOrder == FilesNext /\ (get'["d2"] # NoGet => get'["d1"] # NoGet)

MCNext ==
    /\ UNCHANGED part
    /\ \/ part = "inbox" /\ Drains /\ UNCHANGED <<sessionVars, spillVars, filesVars>>
       \/ part = "session" /\ SessionNext /\ UNCHANGED <<vars, spillVars, filesVars>>
       \/ part = "spill" /\ Spills /\ UNCHANGED <<vars, sessionVars, filesVars>>
       \/ part = "files" /\ InOrder /\ UNCHANGED <<vars, sessionVars, spillVars>>

MCSpec == MCInit /\ [][MCNext]_MCVars

\* The runs beside the inbox: their types, no step repeated, nothing lost by
\* the spill.
RunsSound == SessionTypeOK /\ SpillTypeOK /\ StepsContinue /\ SpillSound

\* A file that was materialized holds what was logged.
FilesSound == FilesTypeOK /\ FilesAsLogged

=============================================================================
