------------------------------- MODULE Dashboard -------------------------------
(***************************************************************************)
(* The web dashboard (frontend/src): a project and some of its runs are    *)
(* selected, pages ask the server about them, and the answers arrive in    *)
(* any order while the selection goes on changing.  App.svelte keeps the   *)
(* list of runs; the pages on metrics keep the logs of every run they have *)
(* asked for; the other pages drop the answers a later request supersedes. *)
(*                                                                         *)
(* A behaviour is of one page (view), which stays open.  Runs stand for    *)
(* the keys of their records (run.id ?? run.name): two projects may have   *)
(* the same key, where runs have no id.  What a page of the second kind    *)
(* shows is abstracted to what it was asked about: a project, and the      *)
(* runs selected if the page is about them.  At most 64 runs are selected. *)
(***************************************************************************)
EXTENDS Naturals, FiniteSetsExt, Functions

CONSTANTS DashProjects, Runs,  \* projects and keys of runs
          RunsOf,           \* the runs a project will have
          NoProject,
          Views,            \* the pages followed
          Calls,            \* requests of a page that may be under way at once
          MaxReturned,      \* rows of an answer to get_logs (the server's max_points)
          MaxServed         \* bound on the runs and the rows of the server

ASSUME DashboardAssumption ==
    /\ RunsOf \in [DashProjects -> SUBSET Runs] /\ NoProject \notin DashProjects
    /\ Views \subseteq {"metrics", "system", "traces", "verifiers", "runs", "detail",
                        "artifacts", "tabs"}
    /\ MaxReturned \in Nat \ {0} /\ MaxServed \in Nat

VARIABLES onServer,   \* the runs each project has on the server
          logged,     \* how many rows each of them has
          view,       \* the page open
          project,    \* selectedProject
          runs,       \* the list of runs of App.svelte
          selected,   \* selectedRuns
          charts,     \* rawDataCache: per key of a run the logs it holds
          lists,      \* the projects whose list of runs has been asked for
          calls,      \* the requests of the page under way
          due,        \* a page waits 150 ms before it asks
          shown,      \* what the parts of a page were asked about
          runsOf, missed, \* history: the project the list is of, and whether the
                      \*   last request for the list failed
          failed,     \* history: whether the last load of the page failed
          polled      \* history: the rows that the runs selected had when the
                      \*   last poll whose answer came was asked, if it is about them

serverVars == <<onServer, logged>>
dashboardVars == <<onServer, logged, view, project, runs, selected, charts, lists, calls, due,
                   shown, runsOf, missed, failed, polled>>

Charted == {"metrics", "system"}     \* pages with a cache
ByRuns == {"traces", "verifiers"}    \* pages about the runs selected
TwoReads == {"verifiers", "runs"}    \* pages that ask again with a first answer

NoCall == [kind |-> "none"]
NoLogs == [of |-> NoProject, last |-> 0, length |-> 0, held |-> FALSE]
NoScope == [of |-> NoProject, about |-> {}]
Nothing == [first |-> NoScope, second |-> NoScope]
Unpolled == [run \in Runs |-> 0]

\* selectedRunRecords: the runs of the list that are selected.
SelectedRecords(list, choice) == list \cap choice
RecordsNow == SelectedRecords(runs, selected)

Scope(p, records) == [of |-> p, about |-> IF view \in ByRuns THEN records ELSE {}]

LogsCall(kind, p, about) ==
    [kind |-> kind, of |-> p, about |-> about, answered |-> FALSE,
     answer |-> [run \in about |-> NoLogs], floor |-> [run \in about |-> logged[p][run]]]
PageCall(first, refresh) ==
    [kind |-> "page", live |-> TRUE, first |-> first, second |-> NoScope, refresh |-> refresh]

FreeCalls(under) == {c \in Calls : under[c] = NoCall}
Live(c) == calls[c].kind = "page" /\ calls[c].live

\* A new request of the page supersedes the others: ++loadSeq, ++requestId.
Superseded(under) == [c \in Calls |-> IF under[c].kind = "page"
                                      THEN [under[c] EXCEPT !.live = FALSE] ELSE under[c]]

DashboardInit ==
    /\ onServer = [p \in DashProjects |-> {}]
    /\ logged = [p \in DashProjects |-> [run \in Runs |-> 0]]
    /\ view \in Views
    /\ project \in DashProjects
    /\ runs = {} /\ selected = {}
    /\ charts = [run \in Runs |-> NoLogs]
    /\ lists = {project} /\ calls = [c \in Calls |-> NoCall]
    /\ due = FALSE /\ shown = Nothing
    /\ runsOf = NoProject /\ missed = FALSE /\ failed = FALSE
    /\ polled = Unpolled

----------------------------------------------------------------------------
(* What the pages do when the project or the selected runs change.         *)

\* fetchNewRuns: ask for the logs of the runs that the cache lacks.
FetchNewRuns(under, p, records) ==
    LET lacking == {run \in records : ~charts[run].held}
    IN IF lacking = {} THEN calls' = under
       ELSE \E c \in FreeCalls(under) :
              calls' = [under EXCEPT ![c] = LogsCall("fetch", p, lacking)]

\* A page that starts to load at once.
LoadPage(under, p, records) ==
    \E c \in FreeCalls(under) :
       calls' = [Superseded(under) EXCEPT ![c] = PageCall(Scope(p, records), FALSE)]

\* The effects of the page open: traces are cleared, and asked for later.
Follow(under, p, records) ==
    /\ IF view \in Charted THEN FetchNewRuns(under, p, records) /\ UNCHANGED due
       ELSE IF view \in ByRuns THEN calls' = under /\ due' = TRUE
       ELSE LoadPage(under, p, records) /\ UNCHANGED due
    /\ shown' = IF view = "traces" THEN Nothing ELSE shown
    /\ polled' = Unpolled

\* The project selector: App.svelte asks for the runs of the project, and the
\* page follows with the runs that are still selected.
SelectProject(p) ==
    /\ p # project
    /\ project' = p
    /\ lists' = lists \cup {p} /\ missed' = FALSE
    /\ Follow(calls, p, RecordsNow)
    /\ UNCHANGED <<serverVars, view, runs, selected, charts, runsOf, failed>>

\* The check boxes of the sidebar.
SelectRuns(choice) ==
    /\ choice # selected
    /\ selected' = choice
    /\ IF view \in Charted \cup ByRuns
       THEN Follow(calls, project, SelectedRecords(runs, choice))
       ELSE UNCHANGED <<calls, due, shown, polled>>
    /\ UNCHANGED <<serverVars, view, project, runs, charts, lists, runsOf, missed, failed>>

----------------------------------------------------------------------------
(* The list of runs.                                                       *)

\* A round of polling; rounds overlap.
RefreshRuns == /\ lists' = lists \cup {project}
               /\ UNCHANGED <<serverVars, view, project, runs, selected, charts, calls, due,
                              shown, runsOf, missed, failed, polled>>

\* reconcileSelectedRuns: what is left of the choice, or everything.
Reconciled(choice, list, before) ==
    LET kept == choice \cap list
    IN IF kept = {} THEN list
       ELSE IF before # {} /\ Cardinality(choice) = Cardinality(before) THEN list
       ELSE kept

\* A list that differs from the one shown replaces it, and the page follows.
Replace(list) ==
    IF list = runs THEN UNCHANGED <<runs, selected, calls, due, shown, polled>>
    ELSE /\ runs' = list
         /\ selected' = Reconciled(selected, list, runs)
         /\ IF view \in Charted \cup ByRuns \cup {"tabs"}
            THEN Follow(calls, project, SelectedRecords(list, selected'))
            ELSE UNCHANGED <<calls, due, shown, polled>>

\* Faulty variant: an answer is shown whatever the project has become.
ShowListUnasked(p) ==
    /\ p \in lists /\ lists' = lists \ {p}
    /\ runsOf' = p /\ missed' = FALSE
    /\ Replace(onServer[p])
    /\ UNCHANGED <<serverVars, view, project, charts, failed>>

\* The answer to a request for the list: dropped if another project is selected
\* by now.
ShowList(p) ==
    /\ p \in lists /\ lists' = lists \ {p}
    /\ IF p # project
       THEN UNCHANGED <<runs, selected, calls, due, shown, runsOf, missed, polled>>
       ELSE runsOf' = p /\ missed' = FALSE /\ Replace(onServer[p])
    /\ UNCHANGED <<serverVars, view, project, charts, failed>>

\* The request fails: the list stays as it is.
ListFails(p) == /\ p \in lists /\ lists' = lists \ {p}
                /\ missed' = (missed \/ p = project)
                /\ UNCHANGED <<serverVars, view, project, runs, selected, charts, calls, due,
                               shown, runsOf, failed, polled>>

----------------------------------------------------------------------------
(* The pages with a cache: Metrics.svelte and SystemMetrics.svelte.        *)

\* refreshCachedRuns, on a timer of its own that does not wait for answers.
PollLogs == /\ view \in Charted /\ RecordsNow # {}
            /\ \E c \in FreeCalls(calls) :
                 calls' = [calls EXCEPT ![c] = LogsCall("poll", project, RecordsNow)]
            /\ UNCHANGED <<serverVars, view, project, runs, selected, charts, lists, due, shown,
                           runsOf, missed, failed, polled>>

\* The server's answer is cut to max_points rows; the last row is among them.
Logs(p, run) == [of |-> IF logged[p][run] = 0 THEN NoProject ELSE p,
                 last |-> logged[p][run],
                 length |-> IF logged[p][run] < MaxReturned THEN logged[p][run] ELSE MaxReturned,
                 held |-> TRUE]

ServeLogs(c) ==
    /\ calls[c].kind \in {"fetch", "poll"} /\ ~calls[c].answered
    /\ calls' = [calls EXCEPT ![c].answered = TRUE,
                              ![c].answer = [run \in calls[c].about |-> Logs(calls[c].of, run)]]
    /\ UNCHANGED <<serverVars, view, project, runs, selected, charts, lists, due, shown,
                   runsOf, missed, failed, polled>>

\* Faulty variant: more data is a longer answer.
HasNewDataByLength(logs, next) == ~logs.held \/ next.length # logs.length

\* logsHaveNewData: another length, or another last row.  The marker of a row
\* is its step and time: rows of two projects differ.
HasNewData(logs, next) ==
    \/ ~logs.held
    \/ next.length # logs.length
    \/ next.length # 0 /\ (next.of # logs.of \/ next.last # logs.last)

\* What a fetch brings replaces what is there; a poll compares first.
HoldLogs(c) ==
    /\ calls[c].kind \in {"fetch", "poll"} /\ calls[c].answered
    /\ charts' = [run \in Runs |->
          IF run \in calls[c].about
             /\ (calls[c].kind = "fetch" \/ HasNewData(charts[run], calls[c].answer[run]))
          THEN calls[c].answer[run] ELSE charts[run]]
    /\ polled' = IF /\ calls[c].kind = "poll" /\ calls[c].of = project
                    /\ RecordsNow \subseteq calls[c].about
                 THEN [run \in Runs |-> IF run \in RecordsNow THEN calls[c].floor[run] ELSE 0]
                 ELSE Unpolled
    /\ calls' = [calls EXCEPT ![c] = NoCall]
    /\ UNCHANGED <<serverVars, view, project, runs, selected, lists, due, shown, runsOf, missed,
                   failed>>

\* An error is written to the console: the runs stay without logs until a poll.
LogsFail(c) == /\ calls[c].kind \in {"fetch", "poll"}
               /\ calls' = [calls EXCEPT ![c] = NoCall]
               /\ UNCHANGED <<serverVars, view, project, runs, selected, charts, lists, due,
                              shown, runsOf, missed, failed, polled>>

----------------------------------------------------------------------------
(* The pages that drop superseded answers.                                 *)

\* The 150 ms are over; with no run selected there is nothing to ask.
LoadWhenDue ==
    /\ due /\ due' = FALSE
    /\ IF RecordsNow = {}
       THEN /\ calls' = Superseded(calls) /\ shown' = Nothing /\ failed' = FALSE
       ELSE LoadPage(calls, project, RecordsNow) /\ UNCHANGED <<shown, failed>>
    /\ UNCHANGED <<serverVars, view, project, runs, selected, charts, lists, runsOf, missed,
                   polled>>

\* Another search, sort, page or step: the timer starts again.
SearchTraces == /\ view \in ByRuns /\ ~due
                /\ due' = TRUE
                /\ UNCHANGED <<serverVars, view, project, runs, selected, charts, lists, calls,
                               shown, runsOf, missed, failed, polled>>

\* Runs.svelte after a run was deleted or renamed, RunDetail.svelte when the
\* address names another run, and the timer of the tabs.
ReloadPage == /\ view \in {"runs", "detail", "tabs"}
              /\ LoadPage(calls, project, RecordsNow)
              /\ UNCHANGED <<serverVars, view, project, runs, selected, charts, lists, due, shown,
                             runsOf, missed, failed, polled>>

\* ArtifactsSidebar.svelte: refreshArtifacts is skipped while a load goes on.
RefreshArtifacts ==
    /\ view = "artifacts"
    /\ ~\E c \in Calls : Live(c) /\ ~calls[c].refresh
    /\ \E c \in FreeCalls(calls) :
         calls' = [Superseded(calls) EXCEPT ![c] = PageCall(Scope(project, RecordsNow), TRUE)]
    /\ UNCHANGED <<serverVars, view, project, runs, selected, charts, lists, due, shown, runsOf,
                   missed, failed, polled>>

\* The first answers of Runs.svelte and VerifiersTraces.svelte: the second
\* requests read the project and the runs again.
ReadSecond(c) ==
    /\ calls[c].kind = "page" /\ view \in TwoReads /\ calls[c].second = NoScope
    /\ calls' = [calls EXCEPT ![c].second = Scope(project, RecordsNow)]
    /\ UNCHANGED <<serverVars, view, project, runs, selected, charts, lists, due, shown, runsOf,
                   missed, failed, polled>>

\* The answers are all there: shown if no later request was made.
ShowPage(c) ==
    /\ calls[c].kind = "page" /\ view # "detail"
    /\ view \in TwoReads => calls[c].second # NoScope
    /\ IF Live(c)
       THEN /\ shown' = [first |-> calls[c].first,
                         second |-> IF view \in TwoReads THEN calls[c].second ELSE calls[c].first]
            /\ failed' = FALSE
       ELSE UNCHANGED <<shown, failed>>
    /\ calls' = [calls EXCEPT ![c] = NoCall]
    /\ UNCHANGED <<serverVars, view, project, runs, selected, charts, lists, due, runsOf, missed,
                   polled>>

\* RunDetail.svelte shows the summary, or what it had when that fails, before
\* the artifacts of the run; another name in the summary makes it load again.
ShowSummary(c, fails) ==
    /\ calls[c].kind = "page" /\ view = "detail" /\ calls[c].second = NoScope
    /\ IF Live(c)
       THEN /\ shown' = IF fails THEN shown ELSE [shown EXCEPT !.first = calls[c].first]
            /\ failed' = fails
            /\ \/ calls' = [calls EXCEPT ![c].second = calls[c].first]
               \/ ~fails /\ LoadPage(calls, project, RecordsNow)
       ELSE calls' = [calls EXCEPT ![c] = NoCall] /\ UNCHANGED <<shown, failed>>
    /\ UNCHANGED <<serverVars, view, project, runs, selected, charts, lists, due, runsOf, missed,
                   polled>>

\* Faulty variant: the artifacts are shown whatever was asked for later.
ShowArtifactsAlways(c) ==
    /\ calls[c].kind = "page" /\ view = "detail" /\ calls[c].second # NoScope
    /\ shown' = [shown EXCEPT !.second = calls[c].second]
    /\ calls' = [calls EXCEPT ![c] = NoCall]
    /\ UNCHANGED <<serverVars, view, project, runs, selected, charts, lists, due, runsOf, missed,
                   failed, polled>>

ShowArtifacts(c) ==
    /\ calls[c].kind = "page" /\ view = "detail" /\ calls[c].second # NoScope
    /\ shown' = IF Live(c) THEN [shown EXCEPT !.second = calls[c].second] ELSE shown
    /\ calls' = [calls EXCEPT ![c] = NoCall]
    /\ UNCHANGED <<serverVars, view, project, runs, selected, charts, lists, due, runsOf, missed,
                   failed, polled>>

\* A request fails: traces, artifacts and tabs are emptied, the table of runs
\* stays, and a refresh leaves everything.
PageFails(c) ==
    /\ calls[c].kind = "page" /\ view # "detail"
    /\ IF Live(c) /\ ~calls[c].refresh
       THEN /\ shown' = IF view = "runs" THEN shown ELSE Nothing
            /\ failed' = TRUE
       ELSE UNCHANGED <<shown, failed>>
    /\ calls' = [calls EXCEPT ![c] = NoCall]
    /\ UNCHANGED <<serverVars, view, project, runs, selected, charts, lists, due, runsOf, missed,
                   polled>>

----------------------------------------------------------------------------
(* The server meanwhile.                                                   *)

\* The runs and rows there are.
Served == MapThenSumSet(LAMBDA p : Cardinality(onServer[p]) + SumFunction(logged[p]), DashProjects)

StartRun(p, run) == /\ run \in RunsOf[p] \ onServer[p] /\ Served < MaxServed
                    /\ onServer' = [onServer EXCEPT ![p] = @ \cup {run}]
                    /\ UNCHANGED <<logged, view, project, runs, selected, charts, lists, calls,
                                   due, shown, runsOf, missed, failed, polled>>

AddRow(p, run) == /\ run \in onServer[p] /\ Served < MaxServed
                  /\ view \in Charted
                  /\ logged' = [logged EXCEPT ![p][run] = @ + 1]
                  /\ UNCHANGED <<onServer, view, project, runs, selected, charts, lists, calls,
                                 due, shown, runsOf, missed, failed, polled>>

DashboardNext ==
    \/ \E p \in DashProjects : \/ SelectProject(p) \/ ShowList(p) \/ ListFails(p)
                           \/ \E run \in Runs : StartRun(p, run) \/ AddRow(p, run)
    \/ \E choice \in SUBSET runs : SelectRuns(choice)
    \/ RefreshRuns \/ PollLogs \/ LoadWhenDue \/ SearchTraces \/ ReloadPage \/ RefreshArtifacts
    \/ \E c \in Calls : \/ ServeLogs(c) \/ HoldLogs(c) \/ LogsFail(c)
                        \/ ReadSecond(c) \/ ShowPage(c) \/ PageFails(c) \/ ShowArtifacts(c)
                        \/ \E fails \in BOOLEAN : ShowSummary(c, fails)

DashboardSpec == DashboardInit /\ [][DashboardNext]_dashboardVars

----------------------------------------------------------------------------
\* The type invariant: only a page with a cache holds logs, and only a page
\* about runs waits.
DashboardTypeOK ==
    /\ project \in DashProjects /\ view \in Views
    /\ runs \subseteq Runs /\ selected \subseteq runs
    /\ \A p \in DashProjects : onServer[p] \subseteq RunsOf[p]
    /\ \A run \in Runs : charts[run].held => view \in Charted
    /\ due => view \in ByRuns

\* The list is of the project selected, or a request for it is under way, or
\* the last one failed, in whatever order the answers come.
ListFollows ==
    runsOf = project \/ missed \/ project \in lists

\* A page with nothing left to ask shows, in all of its parts, the project and
\* the runs that are selected, unless its last load failed.
PageFollows ==
    (view \notin Charted /\ shown # Nothing /\ ~due /\ ~failed /\ ~\E c \in Calls : Live(c))
       => shown = [first |-> Scope(project, RecordsNow), second |-> Scope(project, RecordsNow)]

\* Once a poll about the selected runs has answered, and no other answer has
\* come since, their charts are of this project and reach at least the row that
\* was the last one when the poll was sent, also beyond max_points rows.
ChartsFollow ==
    \A run \in RecordsNow : polled[run] > 0 =>
       charts[run].of = project /\ charts[run].last >= polled[run]

\* All three: what the dashboard shows follows what is selected.
DashboardFollows == ListFollows /\ PageFollows /\ ChartsFollow

=============================================================================
