------------------------------ MODULE MCClients ------------------------------
(***************************************************************************)
(* What reads, shows and publishes what runs logged, on small instances:   *)
(* the storage classes, the dashboard, the syncs to a Space and the        *)
(* logbook.  The models share no state: part says which of them a          *)
(* behaviour is of, and the others stay in one initial state.              *)
(***************************************************************************)
EXTENDS RunReaders, Dashboard, Publishing, Logbook, TLC

VARIABLE part

MCVars == <<part, readersVars, dashboardVars, pubVars, bookVars>>

MCRunsOf == [p \in DashProjects |-> IF p = "p1" THEN {"a", "x"} ELSE {"x"}]
MCProjectOf == [e \in Entries |-> IF e = "other" THEN "p2" ELSE "p1"]
MCRunNo == [e \in Entries |-> IF e = "b" THEN 2 ELSE 1]
MCRunLabel == [e \in Entries |-> IF e = "b" THEN "n" ELSE "m"]
MCPageOf == [c \in Cells |-> IF c = "c0" THEN "p2" ELSE "p1"]
MCLinkOf == [c \in Cells |-> IF c = "c1" THEN "art" ELSE IF c = "c0" THEN "none" ELSE "dash"]

\* ReadIds, Calls, Jobs and Editors are the same model values, and
\* ReadNames and Pushers.
MCSymmetry == Permutations(Editors) \cup Permutations(Pushers)

\* A part that is not the one followed starts from one state only.
MCInit == /\ part \in {"readers", "dashboard", "publishing", "logbook"}
          /\ ReadersInit /\ DashboardInit /\ PubInit /\ BookInit
          /\ part # "dashboard" => view = "tabs" /\ project = "p1"
          /\ part # "logbook" => toc = {}

\* Bounds: the charts, the table of runs and the page of one run follow one run
\* of each project.
Shows == DashboardNext /\ (view \in {"metrics", "runs", "detail"} => "a" \notin onServer'["p1"])

\* Bounds: either the run "b" logs, or a second project does and the Hub fails,
\* or an entry is purged.
Publishes == /\ PubNext
             /\ "b" \in files' => purgedEntries' = {} /\ "other" \notin files'
             /\ purgedEntries' # {} => hubFaults' = 0

\* Bounds: of a logbook that was cloned no push fails, and either its cells are
\* written or one is written beside a publication or a pin.
Cloning == \E p \in BookPages : \E n \in pages'[p].cells : n.cell \in Cloned

Writes == BookNext /\ (Cloning => pushFaults' = 0 /\ (rewrites' = 0 \/ Cardinality(cellsWritten') <= 1))

MCNext ==
    /\ UNCHANGED part
    /\ \/ part = "readers" /\ ReadersNext /\ UNCHANGED <<dashboardVars, pubVars, bookVars>>
       \/ part = "dashboard" /\ Shows /\ UNCHANGED <<readersVars, pubVars, bookVars>>
       \/ part = "publishing" /\ Publishes /\ UNCHANGED <<readersVars, dashboardVars, bookVars>>
       \/ part = "logbook" /\ Writes /\ UNCHANGED <<readersVars, dashboardVars, pubVars>>

MCSpec == MCInit /\ [][MCNext]_MCVars

\* The two engines of the storage give the same answers, the counts are those
\* of the lists, and paging misses nothing.
ReadsAgree == ReadersTypeOK /\ EnginesAgree /\ CountsMatchLists /\ PagesMissNothing

\* The dashboard shows what is selected, whatever answers come late.
ShowsSelected == DashboardTypeOK /\ DashboardFollows

\* What is published holds together and stays published.
PublishedSound == PubTypeOK /\ SnapshotsResolve /\ SyncedIsServed /\ GivesUpWithReason

\* A logbook, its index and its Space agree.
LogbookSound == BookTypeOK /\ BookSound

=============================================================================
