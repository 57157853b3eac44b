--------------------------- MODULE Clients_proofs ---------------------------
(***************************************************************************)
(* The dashboard for any number of runs and requests, and what the readers *)
(* are answered, for any rows: for each its inductive invariant, one lemma *)
(* per action that it is kept, and the theorem.  The last section states   *)
(* the theorems about these, the publications and the logbook for the      *)
(* composed model MCClients, whose steps are steps of one component and    *)
(* stutters of the others.                                                 *)
(***************************************************************************)
EXTENDS MCClients, Publications_proofs, FiniteSetTheorems, SequenceTheorems, TLAPS

-----------------------------------------------------------------------------
(* The dashboard (Dashboard).  What a view holds was asked for the project *)
(* and the runs selected, or is discarded when it arrives: a call under    *)
(* way is tied to what was selected when it was made.                      *)

HeldLogs == [of : DashProjects \cup {NoProject}, last : Nat, length : Nat, held : BOOLEAN]

Scopes == [of : DashProjects \cup {NoProject}, about : SUBSET Runs]

LogsCalls == [kind : {"fetch", "poll"}, of : DashProjects, about : SUBSET Runs,
              answered : BOOLEAN, answer : UNION {[A -> HeldLogs] : A \in SUBSET Runs},
              floor : UNION {[A -> Nat] : A \in SUBSET Runs}]

PageCalls == [kind : {"page"}, live : BOOLEAN, first : Scopes, second : Scopes,
              refresh : BOOLEAN]

DashTyped ==
  /\ onServer \in [DashProjects -> SUBSET Runs]
  /\ \A p \in DashProjects : onServer[p] \subseteq RunsOf[p]
  /\ logged \in [DashProjects -> [Runs -> Nat]]
  /\ view \in Views /\ project \in DashProjects
  /\ runs \subseteq Runs /\ selected \subseteq runs
  /\ charts \in [Runs -> HeldLogs]
  /\ calls \in [Calls -> {NoCall} \cup LogsCalls \cup PageCalls]
  /\ due \in BOOLEAN /\ shown \in [first : Scopes, second : Scopes]
  /\ polled \in [Runs -> Nat]

\* What is asked of the server reaches the rows there were when it was asked.
Reaches(run, about, floor, answer) ==
  /\ answer.held
  /\ floor > 0 => answer.of = about /\ answer.last >= floor /\ answer.length # 0

LogsCallFits(k) ==
  /\ view \in Charted
  /\ k.answer \in [k.about -> HeldLogs] /\ k.floor \in [k.about -> Nat]
  /\ \A run \in k.about :
        IF k.answered THEN Reaches(run, k.of, k.floor[run], k.answer[run])
        ELSE k.floor[run] <= logged[k.of][run]

\* What the page is to show.
Current == Scope(project, RecordsNow)

PageCallFits(k) ==
  /\ view \notin Charted
  /\ k.refresh => view = "artifacts"
  /\ k.live /\ ~due => k.first = Current /\ k.second \in {NoScope, Current}
  /\ k.live /\ view = "detail" /\ k.second # NoScope /\ ~failed => shown.first = Current

CallFits(k) == /\ k \in LogsCalls => LogsCallFits(k)
               /\ k \in PageCalls => PageCallFits(k)

\* A page that shows something and loads nothing.
PageRests ==
  (/\ view \notin Charted /\ shown # Nothing /\ ~due /\ ~failed
   /\ ~\E c \in Calls : Live(c) /\ ~calls[c].refresh) =>
     shown = [first |-> Current, second |-> Current]

DashInv ==
  /\ DashTyped
  /\ \A run \in Runs : charts[run].held => view \in Charted
  /\ due => view \in ByRuns
  /\ view \notin Charted => polled = Unpolled
  /\ \A c \in Calls : CallFits(calls[c])
  /\ \A c, d \in Calls : Live(c) /\ Live(d) => c = d
  /\ ListFollows /\ PageRests /\ ChartsFollow

----------------------------------------------------------------------------

LEMMA DashInvInit == DashboardInit => DashInv
<1> SUFFICES ASSUME DashboardInit PROVE DashInv
  OBVIOUS
<1>1. DashTyped
  BY DashboardAssumption DEF DashboardInit, DashTyped, NoLogs, HeldLogs, Nothing, NoScope, Scopes,
     Unpolled
<1>2. \A c \in Calls : calls[c] = NoCall
  BY DEF DashboardInit
<1>3. \A c \in Calls : CallFits(calls[c]) /\ ~Live(c)
  BY <1>2 DEF CallFits, NoCall, LogsCalls, PageCalls, Live
<1>4. ListFollows /\ PageRests /\ ChartsFollow
  BY DEF DashboardInit, ListFollows, PageRests, ChartsFollow, RecordsNow, SelectedRecords
<1> QED
  BY <1>1, <1>3, <1>4 DEF DashInv, DashboardInit, NoLogs

\* Constants and types that the steps use.
LEMMA CallKinds ==
  ASSUME DashInv, NEW c \in Calls
  PROVE  /\ calls[c].kind \in {"fetch", "poll"} <=> calls[c] \in LogsCalls
         /\ calls[c].kind = "page" <=> calls[c] \in PageCalls
         /\ calls[c] = NoCall <=> calls[c] \notin LogsCalls \cup PageCalls
         /\ Live(c) <=> calls[c] \in PageCalls /\ calls[c].live
         /\ calls[c] \in LogsCalls => view \in Charted
         /\ calls[c] \in PageCalls => view \notin Charted
<1>1. calls[c] \in {NoCall} \cup LogsCalls \cup PageCalls /\ CallFits(calls[c])
  BY DEF DashInv, DashTyped
<1>2. NoCall.kind = "none"
  BY DEF NoCall
<1>3. /\ \A k \in LogsCalls : k.kind \in {"fetch", "poll"}
      /\ \A k \in PageCalls : k.kind = "page"
  BY DEF LogsCalls, PageCalls
<1> QED
  BY <1>1, <1>2, <1>3 DEF CallFits, LogsCallFits, PageCallFits, Live

LEMMA CurrentTyped == ASSUME DashInv PROVE Current \in Scopes /\ RecordsNow \subseteq Runs
  BY DEF DashInv, DashTyped, Current, Scope, Scopes, RecordsNow, SelectedRecords

\* What the steps of a page with a cache must keep.
LEMMA ChartedKeeps ==
  ASSUME DashInv, DashTyped', view' = view, view \in Charted, UNCHANGED due,
         \A c \in Calls : calls'[c] \notin PageCalls /\ (calls'[c] \in LogsCalls => LogsCallFits(calls[c])'),
         ListFollows', ChartsFollow'
  PROVE  DashInv'
<1>1. \A c \in Calls : CallFits(calls[c])' /\ ~Live(c)'
  <2> SUFFICES ASSUME NEW c \in Calls PROVE CallFits(calls[c])' /\ ~Live(c)'
    OBVIOUS
  <2>1. calls'[c] \in {NoCall} \cup LogsCalls
    BY DEF DashTyped
  <2>2. calls'[c].kind # "page"
    BY <2>1 DEF NoCall, LogsCalls
  <2> QED
    BY <2>1, <2>2 DEF CallFits, Live
<1>2. PageRests'
  BY DEF PageRests
<1> QED
  BY <1>1, <1>2 DEF DashInv

\* And those of another page.
LEMMA PagesKeeps ==
  ASSUME DashInv, DashTyped', view' = view, view \notin Charted, charts' = charts,
         due' => view \in ByRuns, polled' = Unpolled,
         \A c \in Calls : calls'[c] \notin LogsCalls /\ (calls'[c] \in PageCalls => PageCallFits(calls[c])'),
         \A c, d \in Calls : calls'[c] \in PageCalls /\ calls'[c].live
                               /\ calls'[d] \in PageCalls /\ calls'[d].live => c = d,
         ListFollows', PageRests'
  PROVE  DashInv'
<1>1. \A c \in Calls : CallFits(calls[c])'
  BY DEF CallFits
<1>2. ASSUME NEW c \in Calls, Live(c)' PROVE calls'[c] \in PageCalls /\ calls'[c].live
  BY <1>2 DEF Live, DashTyped, NoCall, LogsCalls
<1>3. ChartsFollow'
  BY DEF ChartsFollow, Unpolled, RecordsNow, SelectedRecords, DashTyped
<1> QED
  BY <1>1, <1>2, <1>3 DEF DashInv

\* Steps that leave what the page has asked and shows.
LEMMA StillKeeps ==
  ASSUME DashInv, DashTyped', UNCHANGED <<view, charts, calls, due, shown, failed, polled>>,
         Current' = Current,
         view \in Charted => RecordsNow' \subseteq RecordsNow /\ project' = project,
         \A p \in DashProjects, run \in Runs : logged[p][run] <= logged'[p][run],
         ListFollows'
  PROVE  DashInv'
<1>1. CASE view \in Charted
  <2>1. ASSUME NEW c \in Calls, calls[c] \in LogsCalls PROVE LogsCallFits(calls[c])'
    <3>1. LogsCallFits(calls[c])
      BY <2>1 DEF DashInv, CallFits
    <3>2. /\ calls[c].of \in DashProjects /\ calls[c].about \subseteq Runs
          /\ calls[c].floor \in [calls[c].about -> Nat]
      BY <2>1, <3>1 DEF LogsCalls, LogsCallFits
    <3>3. ASSUME NEW run \in calls[c].about, calls[c].floor[run] <= logged[calls[c].of][run]
          PROVE  calls[c].floor[run] <= logged'[calls[c].of][run]
      <4>1. /\ calls[c].floor[run] \in Nat /\ logged[calls[c].of][run] \in Nat
            /\ logged'[calls[c].of][run] \in Nat
        BY <3>2 DEF DashInv, DashTyped
      <4> QED
        BY <3>2, <3>3, <4>1
    <3> QED
      BY <3>1, <3>3 DEF LogsCallFits
  <2>2. ChartsFollow'
    BY <1>1 DEF DashInv, ChartsFollow
  <2> QED
    BY <1>1, <2>1, <2>2, CallKinds, ChartedKeeps
<1>2. CASE view \notin Charted
  <2>1. polled' = Unpolled /\ (due' => view \in ByRuns)
    BY <1>2 DEF DashInv
  <2>2. \A c \in Calls : calls[c] \in PageCalls => PageCallFits(calls[c])'
    BY DEF DashInv, CallFits, PageCallFits
  <2>3. PageRests'
    BY DEF DashInv, PageRests, Live
  <2>4. \A c, d \in Calls : calls[c] \in PageCalls /\ calls[c].live
                               /\ calls[d] \in PageCalls /\ calls[d].live => c = d
    BY CallKinds DEF DashInv
  <2> QED
    BY <1>2, <2>1, <2>2, <2>3, <2>4, CallKinds, PagesKeeps
<1> QED
  BY <1>1, <1>2

----------------------------------------------------------------------------
\* What a page asks for when the selection changes.

LEMMA FetchTyped ==
  ASSUME DashInv, NEW p \in DashProjects, NEW about \in SUBSET Runs,
         NEW kind \in {"fetch", "poll"}
  PROVE  /\ LogsCall(kind, p, about) \in LogsCalls
         /\ view \in Charted => LogsCallFits(LogsCall(kind, p, about))
<1> DEFINE k == LogsCall(kind, p, about)
<1>1. /\ k.kind = kind /\ k.of = p /\ k.about = about /\ k.answered = FALSE
      /\ k.answer = [run \in about |-> NoLogs] /\ k.floor = [run \in about |-> logged[p][run]]
  BY DEF LogsCall
<1>2. k.answer \in [about -> HeldLogs] /\ k.floor \in [about -> Nat]
  BY <1>1 DEF NoLogs, HeldLogs, DashInv, DashTyped
<1>3. \A run \in about : k.floor[run] <= logged[p][run]
  BY <1>1, <1>2 DEF DashInv, DashTyped
<1>4. k \in LogsCalls
  BY <1>2 DEF LogsCall, LogsCalls
<1> QED
  BY <1>1, <1>2, <1>3, <1>4 DEF LogsCallFits

LEMMA LoadPageAsks ==
  ASSUME DashInv, view \notin Charted, NEW p \in DashProjects, NEW records \in SUBSET Runs,
         NEW refresh \in BOOLEAN, NEW c \in FreeCalls(calls),
         calls' = [Superseded(calls) EXCEPT ![c] = PageCall(Scope(p, records), refresh)]
  PROVE  /\ calls' \in [Calls -> {NoCall} \cup LogsCalls \cup PageCalls]
         /\ c \in Calls /\ calls'[c] \in PageCalls /\ calls'[c].live
         /\ calls'[c].first = Scope(p, records) /\ calls'[c].second = NoScope
         /\ calls'[c].refresh = refresh
         /\ \A d \in Calls \ {c} :
               /\ calls'[d] \notin LogsCalls
               /\ calls'[d] \in PageCalls => /\ ~calls'[d].live /\ calls[d] \in PageCalls
                                             /\ calls'[d].refresh = calls[d].refresh
<1> DEFINE k == PageCall(Scope(p, records), refresh)
<1>1. c \in Calls
  BY DEF FreeCalls
<1>2. /\ k \in PageCalls /\ k.live /\ k.first = Scope(p, records) /\ k.second = NoScope
      /\ k.refresh = refresh
  BY DEF PageCall, PageCalls, Scope, Scopes, NoScope
<1> HIDE DEF k
<1>3. calls'[c] = k /\ \A d \in Calls \ {c} : calls'[d] = Superseded(calls)[d]
  BY <1>1 DEF Superseded, k
<1>4. ASSUME NEW d \in Calls \ {c}
      PROVE  /\ calls'[d] \in {NoCall} \cup PageCalls
             /\ calls'[d] \notin LogsCalls
             /\ calls'[d] \in PageCalls => /\ ~calls'[d].live /\ calls[d] \in PageCalls
                                           /\ calls'[d].refresh = calls[d].refresh
  <2>1. CASE calls[d].kind = "page"
    <3>1. calls[d] \in PageCalls
      BY <2>1, CallKinds
    <3>2. calls'[d] = [calls[d] EXCEPT !.live = FALSE]
      BY <1>3, <2>1 DEF Superseded
    <3>3. \A x \in PageCalls : [x EXCEPT !.live = FALSE] \in PageCalls
      BY DEF PageCalls
    <3>4. \A x \in PageCalls : LET m == [x EXCEPT !.live = FALSE] IN
                             m.live = FALSE /\ m.refresh = x.refresh /\ m.kind = "page"
      BY DEF PageCalls
    <3>5. /\ calls'[d] \in PageCalls /\ calls'[d].live = FALSE
          /\ calls'[d].refresh = calls[d].refresh /\ calls'[d].kind = "page"
      BY <3>1, <3>2, <3>3, <3>4
    <3> QED
      BY <3>1, <3>5 DEF LogsCalls
  <2>2. CASE calls[d].kind # "page"
    <3>1. calls'[d] = calls[d]
      BY <1>3, <2>2 DEF Superseded
    <3>2. calls[d] = NoCall /\ calls[d] \notin LogsCalls \cup PageCalls
      BY <2>2, CallKinds
    <3> QED
      BY <3>1, <3>2
  <2> QED
    BY <2>1, <2>2
<1>5. calls' = [d \in Calls |-> calls'[d]]
  BY DEF Superseded
<1>6. \A d \in Calls : calls'[d] \in {NoCall} \cup LogsCalls \cup PageCalls
  BY <1>2, <1>3, <1>4
<1> QED
  BY <1>1, <1>2, <1>3, <1>4, <1>5, <1>6

\* A page that starts to load shows what it will show.
LEMMA LoadingKeeps ==
  ASSUME DashInv, DashTyped', UNCHANGED <<view, charts>>, view \notin Charted,
         polled' = Unpolled, due' => view \in ByRuns,
         NEW p \in DashProjects, NEW records \in SUBSET Runs, NEW refresh \in BOOLEAN,
         refresh => /\ view = "artifacts" /\ UNCHANGED <<due, shown, failed>>
                    /\ Current' = Current
                    /\ ~\E c \in Calls : Live(c) /\ ~calls[c].refresh,
         NEW c \in FreeCalls(calls),
         calls' = [Superseded(calls) EXCEPT ![c] = PageCall(Scope(p, records), refresh)],
         Scope(p, records) = Current', ListFollows'
  PROVE  DashInv'
<1>1. /\ c \in Calls /\ calls'[c] \in PageCalls /\ calls'[c].live
      /\ calls'[c].first = Current' /\ calls'[c].second = NoScope
      /\ calls'[c].refresh = refresh
  BY LoadPageAsks, ZenonT(30)
<1>2. \A d \in Calls \ {c} : /\ calls'[d] \notin LogsCalls
                             /\ calls'[d] \in PageCalls => /\ ~calls'[d].live
                                                           /\ calls[d] \in PageCalls
                                                           /\ calls'[d].refresh = calls[d].refresh
  BY LoadPageAsks, ZenonT(30)
<1>3. calls'[c] \notin LogsCalls
  BY <1>1 DEF PageCalls, LogsCalls
<1>4. ASSUME NEW d \in Calls, calls'[d] \in PageCalls PROVE PageCallFits(calls[d])'
  <2>1. CASE d = c
    BY <1>1, <2>1 DEF PageCallFits
  <2>2. CASE d # c
    <3>1. ~calls'[d].live /\ calls[d] \in PageCalls /\ calls'[d].refresh = calls[d].refresh
      BY <1>2, <1>4, <2>2
    <3>2. calls[d].refresh => view = "artifacts"
      BY <3>1 DEF DashInv, CallFits, PageCallFits
    <3> QED
      BY <3>1, <3>2 DEF PageCallFits
  <2> QED
    BY <2>1, <2>2
<1>5. PageRests'
  <2>1. CASE ~refresh
    <3>1. Live(c)' /\ ~calls'[c].refresh
      BY <1>1, <2>1 DEF Live, PageCalls
    <3> QED
      BY <1>1, <3>1 DEF PageRests
  <2>2. CASE refresh
    BY <2>2 DEF DashInv, PageRests
  <2> QED
    BY <2>1, <2>2
<1>6. \A d, e \in Calls : calls'[d] \in PageCalls /\ calls'[d].live
                            /\ calls'[e] \in PageCalls /\ calls'[e].live => d = e
  BY <1>2
<1> QED
  BY <1>2, <1>3, <1>4, <1>5, <1>6, PagesKeeps

LEMMA CallsTyped ==
  ASSUME DashInv, NEW p \in DashProjects, NEW records \in SUBSET Runs, Follow(calls, p, records)
  PROVE  /\ calls' \in [Calls -> {NoCall} \cup LogsCalls \cup PageCalls]
         /\ due' \in BOOLEAN /\ shown' \in [first : Scopes, second : Scopes]
         /\ polled' \in [Runs -> Nat] /\ polled' = Unpolled
         /\ due' => view \in ByRuns
<1>1. /\ due' \in BOOLEAN /\ shown' \in [first : Scopes, second : Scopes]
      /\ polled' \in [Runs -> Nat] /\ polled' = Unpolled
      /\ due' => view \in ByRuns
  BY DEF Follow, DashInv, DashTyped, Nothing, NoScope, Scopes, Unpolled
<1>2. calls' \in [Calls -> {NoCall} \cup LogsCalls \cup PageCalls]
  <2>1. CASE calls' = calls
    BY <2>1 DEF DashInv, DashTyped
  <2>2. CASE view \in Charted /\ calls' # calls
    <3>1. PICK c \in FreeCalls(calls) :
             calls' = [calls EXCEPT ![c] = LogsCall("fetch", p, {run \in records : ~charts[run].held})]
      BY <2>2 DEF Follow, FetchNewRuns
    <3>2. LogsCall("fetch", p, {run \in records : ~charts[run].held}) \in LogsCalls
      BY FetchTyped
    <3> QED
      BY <3>1, <3>2 DEF DashInv, DashTyped
  <2>3. CASE view \notin Charted /\ calls' # calls
    <3>1. PICK c \in FreeCalls(calls) :
             calls' = [Superseded(calls) EXCEPT ![c] = PageCall(Scope(p, records), FALSE)]
      BY <2>3 DEF Follow, LoadPage
    <3> QED
      BY <2>3, <3>1, LoadPageAsks
  <2> QED
    BY <2>1, <2>2, <2>3
<1> QED
  BY <1>1, <1>2

\* The page follows a selection that has changed.
LEMMA FollowKeeps ==
  ASSUME DashInv, UNCHANGED <<view, charts, logged, failed>>, DashTyped',
         NEW p \in DashProjects, NEW records \in SUBSET Runs, Follow(calls, p, records),
         p = project', records = RecordsNow', ListFollows'
  PROVE  DashInv'
<1>1. /\ calls' \in [Calls -> {NoCall} \cup LogsCalls \cup PageCalls] /\ polled' = Unpolled
      /\ due' => view \in ByRuns
  BY CallsTyped
<1>2. Scope(p, records) = Current'
  BY DEF Current, Scope
<1>3. CASE view \in Charted
  <2>1. UNCHANGED due /\ FetchNewRuns(calls, p, records)
    BY <1>3 DEF Follow
  <2>2. ChartsFollow'
    BY <1>1 DEF ChartsFollow, Unpolled, RecordsNow, SelectedRecords, DashTyped
  <2> DEFINE lacking == {run \in records : ~charts[run].held}
  <2>3. ASSUME NEW c \in Calls
        PROVE  /\ calls'[c] \notin PageCalls
               /\ calls'[c] \in LogsCalls => LogsCallFits(calls[c])'
    <3>1. CASE calls'[c] = calls[c]
      BY <1>3, <3>1, CallKinds DEF DashInv, CallFits, LogsCallFits
    <3>2. CASE calls'[c] = LogsCall("fetch", p, lacking)
      <4> DEFINE k == LogsCall("fetch", p, lacking)
      <4>1. k \in LogsCalls /\ LogsCallFits(k)
        BY <1>3, FetchTyped
      <4> HIDE DEF k
      <4>2. k \notin PageCalls
        BY <4>1 DEF LogsCalls, PageCalls
      <4>3. LogsCallFits(calls[c])'
        BY <3>2, <4>1 DEF LogsCallFits, k
      <4> QED
        BY <3>2, <4>2, <4>3 DEF k
    <3> QED
      BY <2>1, <3>1, <3>2 DEF FetchNewRuns, DashInv, DashTyped
  <2> QED
    BY <1>3, <2>1, <2>2, <2>3, ChartedKeeps
<1>4. CASE view \in ByRuns
  <2>1. due' /\ calls' = calls /\ view \notin Charted
    BY <1>4 DEF Follow, ByRuns, Charted
  <2>2. PageRests'
    BY <2>1 DEF PageRests
  <2>3. \A c \in Calls : calls[c] \in PageCalls => PageCallFits(calls[c])'
    BY <1>4, <2>1 DEF DashInv, CallFits, PageCallFits, ByRuns
  <2>4. \A c, d \in Calls : calls[c] \in PageCalls /\ calls[c].live
                               /\ calls[d] \in PageCalls /\ calls[d].live => c = d
    BY CallKinds DEF DashInv
  <2> QED
    BY <1>1, <2>1, <2>2, <2>3, <2>4, CallKinds, PagesKeeps
<1>5. CASE view \notin Charted \cup ByRuns
  <2>1. PICK c \in FreeCalls(calls) :
           calls' = [Superseded(calls) EXCEPT ![c] = PageCall(Scope(p, records), FALSE)]
    BY <1>5 DEF Follow, LoadPage
  <2>2. UNCHANGED shown /\ ~due'
    BY <1>1, <1>5 DEF Follow, ByRuns
  <2>3. UNCHANGED <<view, charts>> /\ FALSE \in BOOLEAN /\ view \notin Charted
    BY <1>5, <2>2
  <2> QED
    BY <1>1, <1>2, <2>1, <2>2, <2>3, LoadingKeeps
<1> QED
  BY <1>3, <1>4, <1>5

----------------------------------------------------------------------------

LEMMA SelectProjectKeeps ==
  ASSUME DashInv, NEW p \in DashProjects, SelectProject(p) PROVE DashInv'
<1>1. /\ Follow(calls, p, RecordsNow) /\ project' = p /\ lists' = lists \cup {p}
      /\ UNCHANGED <<serverVars, view, runs, selected, charts, failed>>
  BY DEF SelectProject
<1>2. RecordsNow \in SUBSET Runs /\ RecordsNow' = RecordsNow
  BY <1>1, CurrentTyped DEF RecordsNow, SelectedRecords
<1>3. DashTyped'
  BY <1>1, <1>2, CallsTyped DEF DashInv, DashTyped, serverVars
<1>4. ListFollows'
  BY <1>1 DEF ListFollows
<1>5. PICK records : records = RecordsNow
  OBVIOUS
<1> QED
  BY <1>1, <1>2, <1>3, <1>4, <1>5, FollowKeeps DEF serverVars

LEMMA SelectRunsKeeps ==
  ASSUME DashInv, NEW choice \in SUBSET runs, SelectRuns(choice) PROVE DashInv'
<1>1. /\ selected' = choice
      /\ UNCHANGED <<serverVars, view, project, runs, charts, lists, runsOf, missed, failed>>
  BY DEF SelectRuns
<1>2. PICK records \in SUBSET Runs : records = SelectedRecords(runs, choice)
  BY DEF SelectedRecords, DashInv, DashTyped
<1>3. records = RecordsNow' /\ ListFollows'
  BY <1>1, <1>2 DEF RecordsNow, SelectedRecords, DashInv, ListFollows
<1>4. CASE view \in Charted \cup ByRuns
  <2>1. Follow(calls, project, records) /\ project \in DashProjects
    BY <1>2, <1>4 DEF SelectRuns, DashInv, DashTyped
  <2>2. DashTyped'
    BY <1>1, <2>1, CallsTyped DEF DashInv, DashTyped, serverVars
  <2>3. PICK p \in DashProjects : p = project
    BY <2>1
  <2> QED
    BY <1>1, <1>3, <2>1, <2>2, <2>3, FollowKeeps DEF serverVars
<1>5. CASE view \notin Charted \cup ByRuns
  <2>1. UNCHANGED <<calls, due, shown, polled>>
    BY <1>5 DEF SelectRuns
  <2>2. DashTyped'
    BY <1>1, <2>1 DEF DashInv, DashTyped, serverVars
  <2>3. Current' = Current
    BY <1>1, <1>5 DEF Current, Scope
  <2>4. \A p \in DashProjects, run \in Runs : logged[p][run] <= logged'[p][run]
    BY <1>1 DEF DashInv, DashTyped, serverVars
  <2> QED
    BY <1>1, <1>3, <1>5, <2>1, <2>2, <2>3, <2>4, StillKeeps DEF serverVars
<1> QED
  BY <1>4, <1>5

\* Steps that change nothing but the list of runs asked for, and the server.
LEMMA AsideKeeps ==
  ASSUME DashInv, UNCHANGED <<view, project, runs, selected, charts, calls, due, shown, failed,
                              polled>>,
         onServer' \in [DashProjects -> SUBSET Runs],
         \A p \in DashProjects : onServer'[p] \subseteq RunsOf[p],
         logged' \in [DashProjects -> [Runs -> Nat]],
         \A p \in DashProjects, run \in Runs : logged[p][run] <= logged'[p][run],
         ListFollows'
  PROVE  DashInv'
<1>1. Current' = Current /\ RecordsNow' = RecordsNow
  BY DEF Current, Scope, RecordsNow, SelectedRecords
<1>2. DashTyped'
  BY DEF DashInv, DashTyped
<1> QED
  BY <1>1, <1>2, StillKeeps

LEMMA ReplaceKeeps ==
  ASSUME DashInv, NEW p \in DashProjects, p = project, Replace(onServer[p]), ListFollows',
         UNCHANGED <<serverVars, view, project, charts, failed>>
  PROVE  DashInv'
<1> DEFINE list == onServer[p]
<1>1. list \subseteq Runs
  BY DEF DashInv, DashTyped
<1>2. \A q \in DashProjects, run \in Runs : logged[q][run] <= logged[q][run]
  BY DEF DashInv, DashTyped
<1>3. CASE list = runs
  BY <1>2, <1>3, AsideKeeps DEF Replace, DashInv, DashTyped, serverVars
<1>4. CASE list # runs
  <2>1. runs' = list /\ selected' = Reconciled(selected, list, runs)
    BY <1>4 DEF Replace
  <2>2. selected' \subseteq list
    BY <2>1 DEF Reconciled
  <2>3. PICK records \in SUBSET Runs : records = SelectedRecords(list, selected')
    BY <1>1 DEF SelectedRecords
  <2>4. records = RecordsNow'
    BY <2>1, <2>3 DEF RecordsNow, SelectedRecords
  <2>5. CASE view \in Charted \cup ByRuns \cup {"tabs"}
    <3>1. Follow(calls, p, records)
      BY <1>4, <2>3, <2>5 DEF Replace
    <3>2. DashTyped'
      BY <1>1, <2>1, <2>2, <3>1, CallsTyped DEF DashInv, DashTyped, serverVars
    <3> QED
      BY <2>4, <3>1, <3>2, FollowKeeps DEF serverVars
  <2>6. CASE view \notin Charted \cup ByRuns \cup {"tabs"}
    <3>1. UNCHANGED <<calls, due, shown, polled>>
      BY <1>4, <2>6 DEF Replace
    <3>2. DashTyped'
      BY <1>1, <2>1, <2>2, <3>1 DEF DashInv, DashTyped, serverVars
    <3>3. Current' = Current
      BY <2>6 DEF Current, Scope
    <3> QED
      BY <1>2, <2>6, <3>1, <3>2, <3>3, StillKeeps DEF serverVars
  <2> QED
    BY <2>5, <2>6
<1> QED
  BY <1>3, <1>4

LEMMA ListsKeep ==
  ASSUME DashInv, RefreshRuns \/ \E p \in DashProjects : ShowList(p) \/ ListFails(p)
  PROVE  DashInv'
<1>1. \A p \in DashProjects, run \in Runs : logged[p][run] <= logged[p][run]
  BY DEF DashInv, DashTyped
<1>2. CASE RefreshRuns
  <2>1. ListFollows'
    BY <1>2 DEF RefreshRuns, ListFollows, DashInv
  <2> QED
    BY <1>1, <1>2, <2>1, AsideKeeps DEF RefreshRuns, serverVars, DashInv, DashTyped
<1>3. ASSUME NEW p \in DashProjects, ListFails(p) PROVE DashInv'
  <2>1. ListFollows'
    BY <1>3 DEF ListFails, ListFollows, DashInv
  <2> QED
    BY <1>1, <1>3, <2>1, AsideKeeps DEF ListFails, serverVars, DashInv, DashTyped
<1>4. ASSUME NEW p \in DashProjects, ShowList(p), p # project PROVE DashInv'
  <2>1. ListFollows'
    BY <1>4 DEF ShowList, ListFollows, DashInv
  <2> QED
    BY <1>1, <1>4, <2>1, AsideKeeps DEF ShowList, serverVars, DashInv, DashTyped
<1>5. ASSUME NEW p \in DashProjects, ShowList(p), p = project PROVE DashInv'
  <2>1. Replace(onServer[p]) /\ ListFollows'
    BY <1>5 DEF ShowList, ListFollows
  <2> QED
    BY <1>5, <2>1, ReplaceKeeps DEF ShowList
<1> QED
  BY <1>2, <1>3, <1>4, <1>5

LEMMA ServerKeeps ==
  ASSUME DashInv, NEW p \in DashProjects, NEW run \in Runs, StartRun(p, run) \/ AddRow(p, run)
  PROVE  DashInv'
<1>1. ListFollows'
  BY DEF StartRun, AddRow, ListFollows, DashInv
<1>2. CASE StartRun(p, run)
  <2>1. \A q \in DashProjects, r \in Runs : logged[q][r] <= logged[q][r]
    BY DEF DashInv, DashTyped
  <2>2. /\ onServer' \in [DashProjects -> SUBSET Runs]
        /\ \A q \in DashProjects : onServer'[q] \subseteq RunsOf[q]
    BY <1>2 DEF StartRun, DashInv, DashTyped
  <2> QED
    BY <1>1, <1>2, <2>1, <2>2, AsideKeeps DEF StartRun, DashInv, DashTyped
<1>3. CASE AddRow(p, run)
  <2>1. logged[p][run] \in Nat /\ logged' = [logged EXCEPT ![p][run] = @ + 1]
    BY <1>3 DEF AddRow, DashInv, DashTyped
  <2>2. logged' \in [DashProjects -> [Runs -> Nat]]
    BY <2>1 DEF DashInv, DashTyped
  <2>3. \A q \in DashProjects, r \in Runs : logged[q][r] <= logged'[q][r]
    BY <2>1 DEF DashInv, DashTyped
  <2> QED
    BY <1>1, <1>3, <2>2, <2>3, AsideKeeps DEF AddRow, DashInv, DashTyped
<1> QED
  BY <1>2, <1>3

----------------------------------------------------------------------------
\* The pages with a cache.

LEMMA AskedKeeps ==
  ASSUME DashInv, NEW c \in Calls, view \in Charted, NEW k, calls' = [calls EXCEPT ![c] = k],
         k = NoCall \/ (k \in LogsCalls /\ LogsCallFits(k)),
         UNCHANGED <<serverVars, view, project, runs, selected, lists, due, shown, runsOf, missed,
                     failed>>,
         charts' \in [Runs -> HeldLogs], polled' \in [Runs -> Nat], ChartsFollow'
  PROVE  DashInv'
<1>1. DashTyped'
  BY DEF DashInv, DashTyped, serverVars
<1>2. ListFollows'
  BY DEF DashInv, ListFollows
<1>3. ASSUME NEW d \in Calls
      PROVE  /\ calls'[d] \notin PageCalls
             /\ calls'[d] \in LogsCalls => LogsCallFits(calls[d])'
  <2>1. CASE d # c
    <3>1. calls'[d] = calls[d] /\ (calls[d] \in LogsCalls => LogsCallFits(calls[d]))
      BY <2>1 DEF DashInv, DashTyped, CallFits
    <3>2. LogsCallFits(calls[d]) => LogsCallFits(calls[d])'
      BY <3>1 DEF LogsCallFits, serverVars
    <3> QED
      BY <3>1, <3>2, CallKinds
  <2>2. CASE d = c
    <3>1. calls'[d] = k
      BY <2>2 DEF DashInv, DashTyped
    <3>2. k \notin PageCalls /\ (k = NoCall => k \notin LogsCalls)
      BY DEF NoCall, PageCalls, LogsCalls
    <3>3. LogsCallFits(k) => LogsCallFits(calls[d])'
      BY <3>1 DEF LogsCallFits, serverVars
    <3> QED
      BY <3>1, <3>2, <3>3
  <2> QED
    BY <2>1, <2>2
<1> QED
  BY <1>1, <1>2, <1>3, ChartedKeeps

LEMMA PollLogsKeeps == ASSUME DashInv, PollLogs PROVE DashInv'
<1>1. PICK c \in FreeCalls(calls) : calls' = [calls EXCEPT ![c] = LogsCall("poll", project, RecordsNow)]
  BY DEF PollLogs
<1>2. c \in Calls /\ view \in Charted
  BY DEF FreeCalls, PollLogs
<1>3. PICK k : k = LogsCall("poll", project, RecordsNow)
  OBVIOUS
<1>4. k \in LogsCalls /\ LogsCallFits(k)
  BY <1>2, <1>3, FetchTyped, CurrentTyped DEF DashInv, DashTyped
<1>5. ChartsFollow' /\ charts' \in [Runs -> HeldLogs] /\ polled' \in [Runs -> Nat]
  BY DEF PollLogs, DashInv, DashTyped, ChartsFollow, RecordsNow, SelectedRecords
<1> QED
  BY <1>1, <1>2, <1>3, <1>4, <1>5, AskedKeeps DEF PollLogs

\* The answer to a request holds what the server had when it was asked.
LEMMA LogsReach ==
  ASSUME DashInv, NEW p \in DashProjects, NEW run \in Runs, NEW n \in Nat, n <= logged[p][run]
  PROVE  Logs(p, run) \in HeldLogs /\ Reaches(run, p, n, Logs(p, run))
<1>1. logged[p][run] \in Nat /\ MaxReturned \in Nat \ {0}
  BY DashboardAssumption DEF DashInv, DashTyped
<1> DEFINE k == Logs(p, run)
<1>2. /\ k.of = IF logged[p][run] = 0 THEN NoProject ELSE p
      /\ k.last = logged[p][run] /\ k.held = TRUE
      /\ k.length = IF logged[p][run] < MaxReturned THEN logged[p][run] ELSE MaxReturned
  BY DEF Logs
<1>3. k \in HeldLogs
  BY <1>1 DEF Logs, HeldLogs
<1> QED
  BY <1>1, <1>2, <1>3 DEF Reaches

LEMMA ServeLogsKeeps == ASSUME DashInv, NEW c \in Calls, ServeLogs(c) PROVE DashInv'
<1>1. /\ calls[c] \in LogsCalls /\ LogsCallFits(calls[c]) /\ ~calls[c].answered
      /\ view \in Charted
  BY CallKinds DEF ServeLogs, DashInv, CallFits
<1>2. PICK answer : answer = [run \in calls[c].about |-> Logs(calls[c].of, run)]
  OBVIOUS
<1>3. PICK k : k = [calls[c] EXCEPT !.answered = TRUE, !.answer = answer]
  OBVIOUS
<1>4. /\ calls[c].of \in DashProjects /\ calls[c].about \in SUBSET Runs
      /\ calls[c].floor \in [calls[c].about -> Nat]
      /\ \A run \in calls[c].about : calls[c].floor[run] <= logged[calls[c].of][run]
  BY <1>1 DEF LogsCalls, LogsCallFits
<1>5. ASSUME NEW run \in calls[c].about
      PROVE  answer[run] \in HeldLogs /\ Reaches(run, calls[c].of, calls[c].floor[run], answer[run])
  <2>1. run \in Runs /\ calls[c].floor[run] \in Nat
    BY <1>4
  <2> QED
    BY <1>2, <1>4, <2>1, LogsReach
<1>6. answer \in [calls[c].about -> HeldLogs]
  BY <1>2, <1>5
<1>11. answer \in UNION {[A -> HeldLogs] : A \in SUBSET Runs}
  BY <1>4, <1>6
<1>7. /\ k \in LogsCalls /\ k.answered = TRUE /\ k.answer = answer /\ k.of = calls[c].of
      /\ k.about = calls[c].about /\ k.floor = calls[c].floor
  BY <1>1, <1>3, <1>11 DEF LogsCalls
<1>8. LogsCallFits(k)
  BY <1>1, <1>4, <1>5, <1>6, <1>7 DEF LogsCallFits
<1>9. calls' = [calls EXCEPT ![c] = k]
  BY <1>2, <1>3 DEF ServeLogs, DashInv, DashTyped
<1>10. ChartsFollow' /\ charts' \in [Runs -> HeldLogs] /\ polled' \in [Runs -> Nat]
  BY DEF ServeLogs, DashInv, DashTyped, ChartsFollow, RecordsNow, SelectedRecords
<1> QED
  BY <1>1, <1>7, <1>8, <1>9, <1>10, AskedKeeps DEF ServeLogs

LEMMA HoldLogsKeeps == ASSUME DashInv, NEW c \in Calls, HoldLogs(c) PROVE DashInv'
<1>1. /\ calls[c] \in LogsCalls /\ LogsCallFits(calls[c]) /\ calls[c].answered
      /\ view \in Charted
  BY CallKinds DEF HoldLogs, DashInv, CallFits
<1>2. /\ calls[c].of \in DashProjects /\ calls[c].about \in SUBSET Runs
      /\ calls[c].floor \in [calls[c].about -> Nat]
      /\ calls[c].answer \in [calls[c].about -> HeldLogs]
      /\ \A run \in calls[c].about :
            Reaches(run, calls[c].of, calls[c].floor[run], calls[c].answer[run])
  BY <1>1 DEF LogsCalls, LogsCallFits
<1>3. charts' \in [Runs -> HeldLogs]
  BY <1>2 DEF HoldLogs, DashInv, DashTyped
<1>4. polled' \in [Runs -> Nat]
  BY <1>2, CurrentTyped DEF HoldLogs, Unpolled
<1>5. ChartsFollow'
  <2> SUFFICES ASSUME NEW run \in RecordsNow, polled'[run] > 0
               PROVE  charts'[run].of = project /\ charts'[run].last >= polled'[run]
    BY DEF ChartsFollow, HoldLogs, RecordsNow, SelectedRecords
  <2>1. run \in Runs
    BY CurrentTyped
  <2>2. /\ calls[c].of = project /\ RecordsNow \subseteq calls[c].about
        /\ polled'[run] = calls[c].floor[run]
    BY <2>1 DEF HoldLogs, Unpolled
  <2> DEFINE next == calls[c].answer[run]
  <2>3. /\ next.of = project /\ next.last >= calls[c].floor[run] /\ next.length # 0
        /\ next \in HeldLogs
    BY <1>2, <2>2 DEF Reaches
  <2>4. CASE charts'[run] = next
    BY <2>2, <2>3, <2>4
  <2>5. CASE charts'[run] # next
    <3>1. charts'[run] = charts[run] /\ ~HasNewData(charts[run], next)
      BY <2>1, <2>2, <2>5 DEF HoldLogs
    <3>2. charts[run].of = next.of /\ charts[run].last = next.last
      BY <2>3, <3>1 DEF HasNewData
    <3> QED
      BY <2>2, <2>3, <3>1, <3>2
  <2> QED
    BY <2>4, <2>5
<1>6. calls' = [calls EXCEPT ![c] = NoCall]
  BY DEF HoldLogs
<1> QED
  BY <1>1, <1>3, <1>4, <1>5, <1>6, AskedKeeps DEF HoldLogs

LEMMA LogsFailKeeps == ASSUME DashInv, NEW c \in Calls, LogsFail(c) PROVE DashInv'
<1>1. view \in Charted /\ calls' = [calls EXCEPT ![c] = NoCall]
  BY CallKinds DEF LogsFail
<1>2. ChartsFollow' /\ charts' \in [Runs -> HeldLogs] /\ polled' \in [Runs -> Nat]
  BY DEF LogsFail, DashInv, DashTyped, ChartsFollow, RecordsNow, SelectedRecords
<1> QED
  BY <1>1, <1>2, AskedKeeps DEF LogsFail

----------------------------------------------------------------------------
\* The other pages.

\* What a step of the page leaves alone.
Elsewhere == <<serverVars, view, project, runs, selected, charts, lists, runsOf, missed, polled>>

LEMMA ElsewhereStays ==
  ASSUME DashInv, UNCHANGED Elsewhere
  PROVE  /\ Current' = Current /\ RecordsNow' = RecordsNow /\ ListFollows'
         /\ view \notin Charted => polled' = Unpolled
         /\ (calls' \in [Calls -> {NoCall} \cup LogsCalls \cup PageCalls] /\ due' \in BOOLEAN
               /\ shown' \in [first : Scopes, second : Scopes]) => DashTyped'
  BY DEF Elsewhere, serverVars, DashInv, DashTyped, ListFollows, Current, Scope, RecordsNow,
     SelectedRecords

LEMMA LoadedKeeps ==
  ASSUME DashInv, LoadPage(calls, project, RecordsNow), UNCHANGED Elsewhere, view \notin Charted,
         shown' \in [first : Scopes, second : Scopes], due' = due \/ due' = FALSE
  PROVE  DashInv'
<1>1. PICK c \in FreeCalls(calls) :
         calls' = [Superseded(calls) EXCEPT ![c] = PageCall(Scope(project, RecordsNow), FALSE)]
  BY DEF LoadPage
<1>2. PICK p \in DashProjects : p = project
  BY DEF DashInv, DashTyped
<1>3. PICK records \in SUBSET Runs : records = RecordsNow
  BY CurrentTyped
<1>4. calls' \in [Calls -> {NoCall} \cup LogsCalls \cup PageCalls]
  BY <1>1, <1>2, <1>3, LoadPageAsks
<1>5. (due' => view \in ByRuns) /\ due' \in BOOLEAN
  <2>1. due \in BOOLEAN /\ (due => view \in ByRuns)
    BY DEF DashInv, DashTyped
  <2>2. CASE due' = due
    BY <2>1, <2>2
  <2>3. CASE due' = FALSE
    BY <2>3
  <2> QED
    BY <2>2, <2>3
<1>6. /\ DashTyped' /\ polled' = Unpolled /\ ListFollows' /\ UNCHANGED <<view, charts>>
      /\ Scope(p, records) = Current'
  BY <1>2, <1>3, <1>4, <1>5, ElsewhereStays DEF Elsewhere, Current, DashInv, DashTyped
<1> QED
  BY <1>1, <1>2, <1>3, <1>5, <1>6, LoadingKeeps

\* A step that changes one request of the page, or ends it.
LEMMA RequestKeeps ==
  ASSUME DashInv, NEW c \in Calls, calls[c] \in PageCalls, NEW k, calls' = [calls EXCEPT ![c] = k],
         UNCHANGED Elsewhere, UNCHANGED due, shown' \in [first : Scopes, second : Scopes],
         \/ k = NoCall
         \/ k \in PageCalls /\ PageCallFits(k)' /\ (k.live => calls[c].live),
         ~Live(c) => UNCHANGED <<shown, failed>>,
         PageRests'
  PROVE  DashInv'
<1>1. /\ calls' \in [Calls -> {NoCall} \cup LogsCalls \cup PageCalls] /\ due' \in BOOLEAN
      /\ view \notin Charted
  BY CallKinds DEF DashInv, DashTyped
<1>2. DashTyped'
  BY <1>1, ElsewhereStays
<1>3. calls'[c] = k /\ \A d \in Calls \ {c} : calls'[d] = calls[d]
  BY DEF DashInv, DashTyped
<1>4. k \notin LogsCalls /\ NoCall \notin PageCalls
  BY DEF NoCall, PageCalls, LogsCalls
<1>5. ASSUME NEW d \in Calls, calls'[d] \in PageCalls PROVE PageCallFits(calls[d])'
  <2>1. CASE d = c
    <3>1. k = calls'[d] /\ k \in PageCalls
      BY <1>3, <1>5, <2>1
    <3> QED
      BY <1>4, <3>1 DEF PageCallFits
  <2>2. CASE d # c
    <3>1. calls'[d] = calls[d] /\ PageCallFits(calls[d]) /\ Current' = Current
      BY <1>3, <1>5, <2>2, ElsewhereStays DEF DashInv, CallFits
    <3>2. Live(d) => ~Live(c)
      BY <2>2 DEF DashInv
    <3>3. calls[d].live => Live(d)
      BY <1>5, <3>1, CallKinds
    <3> QED
      BY <3>1, <3>2, <3>3 DEF PageCallFits, Elsewhere
  <2> QED
    BY <2>1, <2>2
<1>6. ASSUME NEW d \in Calls, NEW e \in Calls, calls'[d] \in PageCalls, calls'[d].live,
             calls'[e] \in PageCalls, calls'[e].live
      PROVE  d = e
  <2>1. Live(d) /\ Live(e)
    BY <1>3, <1>4, <1>6, CallKinds
  <2> QED
    BY <2>1 DEF DashInv
<1> QED
  BY <1>1, <1>2, <1>3, <1>4, <1>5, <1>6, CallKinds, ElsewhereStays, PagesKeeps DEF Elsewhere, DashInv

LEMMA LoadWhenDueKeeps == ASSUME DashInv, LoadWhenDue PROVE DashInv'
<1>1. /\ due /\ due' = FALSE /\ UNCHANGED Elsewhere /\ view \in ByRuns /\ view \notin Charted
  BY DEF LoadWhenDue, Elsewhere, serverVars, DashInv, ByRuns, Charted
<1>2. CASE RecordsNow # {}
  <2>1. LoadPage(calls, project, RecordsNow) /\ shown' \in [first : Scopes, second : Scopes]
    BY <1>2 DEF LoadWhenDue, DashInv, DashTyped
  <2> QED
    BY <1>1, <2>1, LoadedKeeps
<1>3. CASE RecordsNow = {}
  <2>1. calls' = Superseded(calls) /\ shown' = Nothing /\ failed' = FALSE
    BY <1>3 DEF LoadWhenDue
  <2>2. ASSUME NEW d \in Calls
        PROVE  /\ calls'[d] \in {NoCall} \cup PageCalls /\ calls'[d] \notin LogsCalls
               /\ calls'[d] \in PageCalls => ~calls'[d].live /\ PageCallFits(calls[d])'
    <3>1. CASE calls[d].kind = "page"
      <4>1. calls[d] \in PageCalls /\ PageCallFits(calls[d])
        BY <3>1, CallKinds DEF DashInv, CallFits
      <4>2. calls'[d] = [calls[d] EXCEPT !.live = FALSE]
        BY <2>1, <3>1 DEF Superseded
      <4>3. /\ calls'[d] \in PageCalls /\ calls'[d].live = FALSE /\ calls'[d].kind = "page"
            /\ calls'[d].refresh = calls[d].refresh
        BY <4>1, <4>2 DEF PageCalls
      <4> QED
        BY <1>1, <4>1, <4>3 DEF LogsCalls, PageCallFits, Elsewhere
    <3>2. CASE calls[d].kind # "page"
      <4>1. calls'[d] = calls[d]
        BY <2>1, <3>2 DEF Superseded
      <4>2. calls[d] = NoCall /\ calls[d] \notin LogsCalls \cup PageCalls
        BY <1>1, <3>2, CallKinds
      <4> QED
        BY <4>1, <4>2
    <3> QED
      BY <3>1, <3>2
  <2>3. calls' \in [Calls -> {NoCall} \cup LogsCalls \cup PageCalls]
    BY <2>1, <2>2 DEF Superseded
  <2>4. shown' \in [first : Scopes, second : Scopes] /\ PageRests' /\ due' \in BOOLEAN
    BY <1>1, <2>1 DEF Nothing, NoScope, Scopes, PageRests
  <2> QED
    BY <1>1, <2>2, <2>3, <2>4, ElsewhereStays, PagesKeeps DEF Elsewhere
<1> QED
  BY <1>2, <1>3

LEMMA SearchTracesKeeps == ASSUME DashInv, SearchTraces PROVE DashInv'
<1>1. /\ due' = TRUE /\ view \in ByRuns /\ view \notin Charted /\ UNCHANGED Elsewhere
      /\ UNCHANGED <<calls, shown, failed>>
  BY DEF SearchTraces, Elsewhere, serverVars, ByRuns, Charted
<1>2. DashTyped' /\ ListFollows' /\ polled' = Unpolled
  BY <1>1, ElsewhereStays DEF DashInv, DashTyped
<1>3. PageRests'
  BY <1>1 DEF PageRests
<1>4. \A c \in Calls : /\ calls'[c] \notin LogsCalls
                       /\ calls'[c] \in PageCalls => PageCallFits(calls[c])'
  BY <1>1, CallKinds DEF DashInv, CallFits, PageCallFits, Elsewhere, ByRuns
<1>5. \A c, d \in Calls : calls'[c] \in PageCalls /\ calls'[c].live
                            /\ calls'[d] \in PageCalls /\ calls'[d].live => c = d
  BY <1>1, CallKinds DEF DashInv
<1> QED
  BY <1>1, <1>2, <1>3, <1>4, <1>5, PagesKeeps DEF Elsewhere

LEMMA ReloadsKeep == ASSUME DashInv, ReloadPage \/ RefreshArtifacts PROVE DashInv'
<1>1. CASE ReloadPage
  <2>1. /\ LoadPage(calls, project, RecordsNow) /\ UNCHANGED Elsewhere /\ view \notin Charted
        /\ shown' \in [first : Scopes, second : Scopes] /\ due' = due
    BY <1>1 DEF ReloadPage, Elsewhere, serverVars, Charted, DashInv, DashTyped
  <2> QED
    BY <2>1, LoadedKeeps
<1>2. CASE RefreshArtifacts
  <2>1. PICK c \in FreeCalls(calls) :
           calls' = [Superseded(calls) EXCEPT ![c] = PageCall(Scope(project, RecordsNow), TRUE)]
    BY <1>2 DEF RefreshArtifacts
  <2>2. /\ UNCHANGED Elsewhere /\ UNCHANGED <<shown, failed, due>> /\ view = "artifacts"
        /\ view \notin Charted /\ ~\E d \in Calls : Live(d) /\ ~calls[d].refresh
    BY <1>2 DEF RefreshArtifacts, Elsewhere, serverVars, Charted
  <2>3. PICK p \in DashProjects : p = project
    BY DEF DashInv, DashTyped
  <2>4. PICK records \in SUBSET Runs : records = RecordsNow
    BY CurrentTyped
  <2>5. calls' \in [Calls -> {NoCall} \cup LogsCalls \cup PageCalls]
    BY <2>1, <2>2, <2>3, <2>4, LoadPageAsks
  <2>6. /\ DashTyped' /\ polled' = Unpolled /\ ListFollows' /\ UNCHANGED <<view, charts>>
        /\ Scope(p, records) = Current' /\ Current' = Current /\ (due' => view \in ByRuns)
    BY <2>2, <2>3, <2>4, <2>5, ElsewhereStays DEF Elsewhere, Current, DashInv, DashTyped
  <2> QED
    BY <2>1, <2>2, <2>3, <2>4, <2>6, LoadingKeeps
<1> QED
  BY <1>1, <1>2

LEMMA ReadSecondKeeps == ASSUME DashInv, NEW c \in Calls, ReadSecond(c) PROVE DashInv'
<1>1. /\ calls[c] \in PageCalls /\ view \in TwoReads /\ UNCHANGED Elsewhere
      /\ UNCHANGED <<due, shown, failed>> /\ PageCallFits(calls[c]) /\ calls[c].second = NoScope
  BY CallKinds DEF ReadSecond, Elsewhere, serverVars, DashInv, CallFits
<1>2. PICK k : k = [calls[c] EXCEPT !.second = Current]
  OBVIOUS
<1>3. /\ k \in PageCalls /\ k.live = calls[c].live /\ k.first = calls[c].first
      /\ k.second = Current /\ k.refresh = calls[c].refresh
  BY <1>1, <1>2, CurrentTyped DEF PageCalls
<1>4. calls' = [calls EXCEPT ![c] = k] /\ Current' = Current
  BY <1>1, <1>2, ElsewhereStays DEF ReadSecond, Current, DashInv, DashTyped
<1>5. PageCallFits(k)'
  BY <1>1, <1>3, <1>4 DEF PageCallFits, TwoReads, Elsewhere
<1>7. \A d \in Calls : Live(d) => Live(d)' /\ calls'[d].refresh = calls[d].refresh
  BY <1>1, <1>3, <1>4 DEF Live, PageCalls, DashInv, DashTyped
<1>8. PageRests'
  BY <1>1, <1>4, <1>7 DEF DashInv, PageRests, Elsewhere
<1>9. shown' \in [first : Scopes, second : Scopes]
  BY <1>1 DEF DashInv, DashTyped
<1>10. k.live => calls[c].live
  BY <1>3
<1> QED
  BY <1>1, <1>3, <1>4, <1>5, <1>8, <1>9, <1>10, RequestKeeps

\* A request that ends: what it shows is current, unless the page is to load again.
LEMMA EndedKeeps ==
  ASSUME DashInv, NEW c \in Calls, calls[c] \in PageCalls, calls' = [calls EXCEPT ![c] = NoCall],
         UNCHANGED Elsewhere, UNCHANGED due, shown' \in [first : Scopes, second : Scopes],
         ~Live(c) => UNCHANGED <<shown, failed>>,
         Live(c) => \/ due \/ failed' \/ shown' = Nothing
                    \/ shown' = [first |-> Current, second |-> Current]
                    \/ calls[c].refresh /\ UNCHANGED <<shown, failed>>
  PROVE  DashInv'
<1>1. \A d \in Calls : Live(d)' <=> Live(d) /\ d # c
  BY DEF Live, NoCall, DashInv, DashTyped
<1>2. \A d \in Calls : Live(d)' => calls'[d] = calls[d]
  BY <1>1 DEF DashInv, DashTyped
<1>3. Current' = Current /\ view' = view
  BY ElsewhereStays DEF Elsewhere
<1>4. PageRests'
  <2>1. CASE Live(c)
    <3>1. CASE calls[c].refresh /\ UNCHANGED <<shown, failed>>
      <4>1. (\E d \in Calls : Live(d) /\ ~calls[d].refresh)
              => \E d \in Calls : Live(d)' /\ ~calls'[d].refresh
        BY <1>1, <1>2, <3>1
      <4> QED
        BY <1>3, <3>1, <4>1 DEF DashInv, PageRests
    <3> QED
      BY <1>3, <2>1, <3>1 DEF PageRests, Nothing
  <2>2. CASE ~Live(c)
    <3>1. (\E d \in Calls : Live(d) /\ ~calls[d].refresh)
            => \E d \in Calls : Live(d)' /\ ~calls'[d].refresh
      BY <1>1, <1>2, <2>2
    <3> QED
      BY <1>3, <2>2, <3>1 DEF DashInv, PageRests
  <2> QED
    BY <2>1, <2>2
<1>5. PICK k : k = NoCall
  OBVIOUS
<1> QED
  BY <1>4, <1>5, RequestKeeps

LEMMA ShowPageKeeps == ASSUME DashInv, NEW c \in Calls, ShowPage(c) \/ PageFails(c) PROVE DashInv'
<1>1. /\ calls[c] \in PageCalls /\ UNCHANGED Elsewhere /\ UNCHANGED due
      /\ calls' = [calls EXCEPT ![c] = NoCall] /\ PageCallFits(calls[c])
  BY CallKinds DEF ShowPage, PageFails, Elsewhere, serverVars, DashInv, CallFits
<1>2. shown \in [first : Scopes, second : Scopes] /\ Nothing \in [first : Scopes, second : Scopes]
  BY DEF DashInv, DashTyped, Nothing, NoScope, Scopes
<1>3. CASE PageFails(c)
  <2>1. shown' \in [first : Scopes, second : Scopes]
    BY <1>2, <1>3 DEF PageFails
  <2>2. ~Live(c) => UNCHANGED <<shown, failed>>
    BY <1>3 DEF PageFails
  <2>3. Live(c) => failed' \/ (calls[c].refresh /\ UNCHANGED <<shown, failed>>)
    BY <1>3 DEF PageFails
  <2> QED
    BY <1>1, <2>1, <2>2, <2>3, EndedKeeps
<1>4. CASE ShowPage(c) /\ ~Live(c)
  <2>1. UNCHANGED <<shown, failed>>
    BY <1>4 DEF ShowPage
  <2> QED
    BY <1>1, <1>2, <1>4, <2>1, EndedKeeps
<1>5. CASE ShowPage(c) /\ Live(c)
  <2>1. shown' = [first |-> calls[c].first,
                  second |-> IF view \in TwoReads THEN calls[c].second ELSE calls[c].first]
    BY <1>5 DEF ShowPage
  <2>2. calls[c].first \in Scopes /\ calls[c].second \in Scopes
    BY <1>1 DEF PageCalls
  <2>3. due \/ shown' = [first |-> Current, second |-> Current]
    <3> SUFFICES ASSUME ~due PROVE shown' = [first |-> Current, second |-> Current]
      OBVIOUS
    <3>1. calls[c].first = Current /\ calls[c].second \in {NoScope, Current}
      BY <1>1, <1>5 DEF PageCallFits, Live
    <3>2. view \in TwoReads => calls[c].second = Current
      BY <1>5, <3>1 DEF ShowPage
    <3> QED
      BY <2>1, <3>1, <3>2
  <2>4. shown' \in [first : Scopes, second : Scopes]
    BY <2>1, <2>2
  <2> QED
    BY <1>1, <1>5, <2>3, <2>4, EndedKeeps
<1> QED
  BY <1>3, <1>4, <1>5

\* The page of one run waits for nothing but its requests.
LEMMA DetailRests == ASSUME DashInv, view = "detail" PROVE ~due /\ view \notin Charted /\ view # "artifacts"
  BY DEF DashInv, ByRuns, Charted

LEMMA ShowArtifactsKeeps == ASSUME DashInv, NEW c \in Calls, ShowArtifacts(c) PROVE DashInv'
<1>1. /\ calls[c] \in PageCalls /\ UNCHANGED Elsewhere /\ UNCHANGED <<due, failed>>
      /\ calls' = [calls EXCEPT ![c] = NoCall] /\ PageCallFits(calls[c]) /\ view = "detail"
      /\ calls[c].second # NoScope
  BY CallKinds DEF ShowArtifacts, Elsewhere, serverVars, DashInv, CallFits
<1>2. shown \in [first : Scopes, second : Scopes] /\ calls[c].second \in Scopes
  BY <1>1 DEF DashInv, DashTyped, PageCalls
<1>3. CASE ~Live(c)
  <2>1. UNCHANGED shown
    BY <1>3 DEF ShowArtifacts
  <2> QED
    BY <1>1, <1>2, <1>3, <2>1, EndedKeeps
<1>4. CASE Live(c)
  <2>1. shown' = [shown EXCEPT !.second = calls[c].second]
    BY <1>4 DEF ShowArtifacts
  <2>2. shown' \in [first : Scopes, second : Scopes]
    BY <1>2, <2>1
  <2>3. failed' \/ shown' = [first |-> Current, second |-> Current]
    <3> SUFFICES ASSUME ~failed PROVE shown' = [first |-> Current, second |-> Current]
      BY <1>1
    <3>1. calls[c].second = Current /\ shown.first = Current
      BY <1>1, <1>4, DetailRests DEF PageCallFits, Live
    <3> QED
      BY <1>2, <2>1, <3>1
  <2> QED
    BY <1>1, <1>4, <2>2, <2>3, EndedKeeps
<1> QED
  BY <1>3, <1>4

LEMMA ShowSummaryKeeps ==
  ASSUME DashInv, NEW c \in Calls, NEW fails \in BOOLEAN, ShowSummary(c, fails) PROVE DashInv'
<1>1. /\ calls[c] \in PageCalls /\ UNCHANGED Elsewhere /\ UNCHANGED due
      /\ PageCallFits(calls[c]) /\ view = "detail" /\ calls[c].second = NoScope
  BY CallKinds DEF ShowSummary, Elsewhere, serverVars, DashInv, CallFits
<1>2. shown \in [first : Scopes, second : Scopes] /\ calls[c].first \in Scopes
  BY <1>1 DEF DashInv, DashTyped, PageCalls
<1>3. CASE ~Live(c)
  <2>1. UNCHANGED <<shown, failed>> /\ calls' = [calls EXCEPT ![c] = NoCall]
    BY <1>3 DEF ShowSummary
  <2> QED
    BY <1>1, <1>2, <1>3, <2>1, EndedKeeps
<1>4. CASE Live(c)
  <2>1. /\ shown' = (IF fails THEN shown ELSE [shown EXCEPT !.first = calls[c].first])
        /\ failed' = fails
    BY <1>4 DEF ShowSummary
  <2>2. shown' \in [first : Scopes, second : Scopes] /\ (~fails => shown'.first = calls[c].first)
    BY <1>2, <2>1
  <2>3. CASE LoadPage(calls, project, RecordsNow)
    <3>1. view \notin Charted /\ due' = due
      BY <1>1, DetailRests
    <3> QED
      BY <1>1, <2>2, <2>3, <3>1, LoadedKeeps
  <2>4. CASE calls' = [calls EXCEPT ![c].second = calls[c].first]
    <3>1. PICK k : k = [calls[c] EXCEPT !.second = calls[c].first]
      OBVIOUS
    <3>2. /\ k \in PageCalls /\ k.live = calls[c].live /\ k.first = calls[c].first
          /\ k.second = calls[c].first /\ k.refresh = calls[c].refresh /\ k.kind = "page"
      BY <1>1, <1>2, <3>1 DEF PageCalls
    <3>3. calls' = [calls EXCEPT ![c] = k] /\ Current' = Current /\ view' = view
      BY <1>1, <2>4, <3>1, ElsewhereStays DEF DashInv, DashTyped, Elsewhere
    <3>4. calls[c].first = Current /\ calls[c].live /\ ~calls[c].refresh
      BY <1>1, <1>4, DetailRests DEF PageCallFits, Live
    <3>5. PageCallFits(k)'
      <4>1. view' \notin Charted /\ ~k.refresh /\ k.first = Current' /\ k.second = Current'
        BY <1>1, <3>2, <3>3, <3>4, DetailRests
      <4>2. ~failed' => shown'.first = Current'
        BY <2>1, <2>2, <3>3, <3>4
      <4> QED
        BY <4>1, <4>2 DEF PageCallFits
    <3>6. PageRests'
      <4>1. calls'[c] = k
        BY <3>3 DEF DashInv, DashTyped
      <4>2. Live(c)' /\ ~calls'[c].refresh
        BY <3>2, <3>4, <4>1 DEF Live
      <4> QED
        BY <4>2 DEF PageRests
    <3>7. k.live => calls[c].live
      BY <3>2
    <3> QED
      BY <1>1, <1>4, <2>2, <3>2, <3>3, <3>5, <3>6, <3>7, RequestKeeps
  <2> QED
    BY <1>4, <2>3, <2>4 DEF ShowSummary
<1> QED
  BY <1>3, <1>4

----------------------------------------------------------------------------

LEMMA DashInvNext == DashInv /\ [DashboardNext]_dashboardVars => DashInv'
<1> SUFFICES ASSUME DashInv, [DashboardNext]_dashboardVars PROVE DashInv'
  OBVIOUS
<1>1. CASE UNCHANGED dashboardVars
  <2>1. ListFollows'
    BY <1>1 DEF dashboardVars, DashInv, ListFollows
  <2>2. \A p \in DashProjects, run \in Runs : logged[p][run] <= logged[p][run]
    BY DEF DashInv, DashTyped
  <2> QED
    BY <1>1, <2>1, <2>2, AsideKeeps DEF dashboardVars, DashInv, DashTyped
<1>2. CASE DashboardNext
  <2>1. CASE \E p \in DashProjects : \/ SelectProject(p) \/ ShowList(p) \/ ListFails(p)
                                     \/ \E run \in Runs : StartRun(p, run) \/ AddRow(p, run)
    BY <2>1, SelectProjectKeeps, ListsKeep, ServerKeeps
  <2>2. CASE \E choice \in SUBSET runs : SelectRuns(choice)
    BY <2>2, SelectRunsKeeps
  <2>3. CASE RefreshRuns \/ PollLogs \/ LoadWhenDue \/ SearchTraces \/ ReloadPage \/ RefreshArtifacts
    BY <2>3, ListsKeep, PollLogsKeeps, LoadWhenDueKeeps, SearchTracesKeeps, ReloadsKeep
  <2>4. CASE \E c \in Calls : \/ ServeLogs(c) \/ HoldLogs(c) \/ LogsFail(c)
                              \/ ReadSecond(c) \/ ShowPage(c) \/ PageFails(c) \/ ShowArtifacts(c)
                              \/ \E fails \in BOOLEAN : ShowSummary(c, fails)
    BY <2>4, ServeLogsKeeps, HoldLogsKeeps, LogsFailKeeps, ReadSecondKeeps, ShowPageKeeps,
       ShowArtifactsKeeps, ShowSummaryKeeps
  <2> QED
    BY <1>2, <2>1, <2>2, <2>3, <2>4 DEF DashboardNext
<1> QED
  BY <1>1, <1>2

LEMMA DashInvGives == DashInv => DashboardTypeOK /\ DashboardFollows
<1> SUFFICES ASSUME DashInv PROVE DashboardTypeOK /\ PageFollows
  BY DEF DashInv, DashboardFollows
<1>1. DashboardTypeOK
  BY DEF DashInv, DashTyped, DashboardTypeOK
<1>2. PageFollows
  BY DEF DashInv, PageRests, PageFollows, Current
<1> QED
  BY <1>1, <1>2

\* The dashboard shows what is selected, whatever number of requests are under
\* way, in whatever order their answers come and however many of them fail.
THEOREM DashboardKept == DashboardSpec => [](DashboardTypeOK /\ DashboardFollows)
<1> QED
  BY DashInvInit, DashInvNext, DashInvGives, PTL DEF DashboardSpec

-----------------------------------------------------------------------------
(* The readers (RunReaders).  Both engines tell runs by the same rules, a  *)
(* run has one name, and a row of a history that a client has not come to  *)
(* is never moved to a page it has read.                                   *)

\* The numbers of predecessors of a finite set's elements are 0, 1, ... in some order.
LEMMA Ranks ==
  ASSUME NEW S, IsFiniteSet(S), NEW B,
         \A x \in S : B[x] \subseteq S /\ x \notin B[x],
         \A x, y \in S : x # y => x \in B[y] \/ y \in B[x],
         \A x, y \in S : x \in B[y] => B[x] \subseteq B[y]
  PROVE  /\ Cardinality(S) \in Nat
         /\ \A x \in S : Cardinality(B[x]) \in 0..(Cardinality(S) - 1)
         /\ \A x, y \in S : Cardinality(B[x]) = Cardinality(B[y]) => x = y
         /\ \A k \in 1..Cardinality(S) : \E x \in S : Cardinality(B[x]) = k - 1
<1> DEFINE n == Cardinality(S)
<1>1. n \in Nat
  BY FS_CardinalityType
<1>2. ASSUME NEW x \in S
      PROVE  IsFiniteSet(B[x]) /\ Cardinality(B[x]) \in Nat /\ Cardinality(B[x]) < n
  <2>1. B[x] \in SUBSET S /\ B[x] # S
    OBVIOUS
  <2>2. /\ IsFiniteSet(B[x]) /\ Cardinality(B[x]) <= n
        /\ (n = Cardinality(B[x]) => S = B[x])
    BY <2>1, FS_Subset
  <2>3. Cardinality(B[x]) \in Nat
    BY <2>2, FS_CardinalityType
  <2> QED
    BY <1>1, <2>1, <2>2, <2>3
<1>3. ASSUME NEW x \in S, NEW y \in S, x \in B[y]
      PROVE  Cardinality(B[x]) # Cardinality(B[y])
  <2>1. B[x] \in SUBSET B[y] /\ B[x] # B[y]
    BY <1>3
  <2>2. Cardinality(B[y]) = Cardinality(B[x]) => B[y] = B[x]
    BY <1>2, <2>1, FS_Subset
  <2> QED
    BY <2>1, <2>2
<1>4. \A x, y \in S : Cardinality(B[x]) = Cardinality(B[y]) => x = y
  BY <1>3
<1> DEFINE f == [x \in S |-> Cardinality(B[x]) + 1]
<1>5. f \in Injection(S, 1..n)
  <2>1. \A x \in S : Cardinality(B[x]) + 1 \in 1..n
    BY <1>1, <1>2
  <2>2. f \in [S -> 1..n]
    BY <2>1
  <2>3. \A x, y \in S : f[x] = f[y] => x = y
    <3>1. ASSUME NEW x \in S, NEW y \in S, f[x] = f[y] PROVE x = y
      <4>1. Cardinality(B[x]) \in Nat /\ Cardinality(B[y]) \in Nat
        BY <1>2
      <4>2. Cardinality(B[x]) = Cardinality(B[y])
        BY <3>1, <4>1
      <4> QED
        BY <1>4, <4>2
    <3> QED
      BY <3>1
  <2> HIDE DEF f
  <2> QED
    BY <2>2, <2>3 DEF Injection, IsInjective
<1>6. IsFiniteSet(1..n) /\ Cardinality(1..n) = n
  BY <1>1, FS_Interval
<1>7. f \in Surjection(S, 1..n)
  <2> HIDE DEF f
  <2> QED
    BY <1>5, <1>6, FS_Injection
<1>8. ASSUME NEW k \in 1..n
      PROVE  \E x \in S : Cardinality(B[x]) = k - 1
  <2>1. PICK x \in S : f[x] = k
    <3> HIDE DEF f
    <3> QED
      BY <1>7 DEF Surjection
  <2>2. Cardinality(B[x]) \in Nat /\ Cardinality(B[x]) + 1 = k
    BY <1>2, <2>1
  <2> QED
    BY <2>2
<1>9. \A x \in S : Cardinality(B[x]) \in 0..(n - 1)
  BY <1>1, <1>2
<1> QED
  BY <1>1, <1>4, <1>8, <1>9

\* The places of s that are kept, in their order, are elements of s.
LEMMA PlacesKept ==
  ASSUME NEW T, NEW s \in Seq(T), NEW S \in SUBSET DOMAIN s
  PROVE  /\ AtPlaces(s, S) \in Seq(T) /\ Len(AtPlaces(s, S)) <= Len(s) /\ Len(AtPlaces(s, S)) \in Nat
         /\ \A k \in DOMAIN AtPlaces(s, S) : \E i \in S : AtPlaces(s, S)[k] = s[i]
<1> DEFINE B == [x \in S |-> {y \in S : y < x}]
           n == Cardinality(S)
           order == Ordered(S, <)
<1>1. DOMAIN s = 1..Len(s) /\ Len(s) \in Nat /\ S \subseteq Nat
  OBVIOUS
<1>2. IsFiniteSet(DOMAIN s) /\ Cardinality(DOMAIN s) = Len(s)
  BY <1>1, FS_Interval
<1>3. IsFiniteSet(S) /\ n <= Len(s) /\ n \in Nat
  BY <1>2, FS_Subset, FS_CardinalityType
<1>4. \A k \in 1..n : \E x \in S : Cardinality(B[x]) = k - 1
  <2>1. \A x \in S : B[x] \subseteq S /\ x \notin B[x]
    BY <1>1
  <2>2. \A x, y \in S : x # y => x \in B[y] \/ y \in B[x]
    BY <1>1
  <2>3. \A x, y \in S : x \in B[y] => B[x] \subseteq B[y]
    BY <1>1
  <2> HIDE DEF B
  <2> QED
    BY <1>3, <2>1, <2>2, <2>3, Ranks
<1>5. DOMAIN order = 1..n /\ \A k \in 1..n : order[k] \in S
  <2>1. DOMAIN order = 1..n
    BY DEF Ordered
  <2>2. ASSUME NEW k \in 1..n PROVE order[k] \in S
    <3>1. order[k] = CHOOSE x \in S : Cardinality({y \in S : y < x}) = k - 1
      BY DEF Ordered
    <3>2. \E x \in S : Cardinality({y \in S : y < x}) = k - 1
      BY <1>4
    <3> QED
      BY <3>1, <3>2
  <2> QED
    BY <2>1, <2>2
<1>6. AtPlaces(s, S) = [k \in 1..n |-> s[order[k]]]
  BY <1>5 DEF AtPlaces
<1> HIDE DEF order
<1>7. \A k \in 1..n : s[order[k]] \in T
  BY <1>1, <1>5
<1>8. AtPlaces(s, S) \in Seq(T) /\ Len(AtPlaces(s, S)) = n /\ DOMAIN AtPlaces(s, S) = 1..n
  BY <1>3, <1>6, <1>7
<1>9. \A k \in 1..n : AtPlaces(s, S)[k] = s[order[k]]
  BY <1>6
<1> QED
  BY <1>3, <1>5, <1>8, <1>9

\* The rows of a run, those before one of them in its history, and those after.
RowsOf(r)   == {i \in DOMAIN metrics : metrics[i].id = r}
Earlier(i, j) == \/ metrics[i].time < metrics[j].time
                 \/ metrics[i].time = metrics[j].time /\ i < j
RowsBefore(i) == {j \in RowsOf(metrics[i].id) : Earlier(j, i)}
RowsAfter(i)  == {j \in RowsOf(metrics[i].id) : Earlier(i, j)}

LEMMA RunFinite ==
  ASSUME metrics \in Seq(MetricRow), NEW r
  PROVE  /\ RowsOf(r) \subseteq DOMAIN metrics /\ DOMAIN metrics = 1..Len(metrics)
         /\ Len(metrics) \in Nat /\ IsFiniteSet(RowsOf(r)) /\ Cardinality(RowsOf(r)) \in Nat
         /\ \A i \in DOMAIN metrics : metrics[i] \in MetricRow /\ metrics[i].time \in Int /\ i \in Nat
<1>1. DOMAIN metrics = 1..Len(metrics) /\ Len(metrics) \in Nat
  OBVIOUS
<1>2. IsFiniteSet(DOMAIN metrics)
  BY <1>1, FS_Interval
<1>3. RowsOf(r) \subseteq DOMAIN metrics
  BY DEF RowsOf
<1>4. IsFiniteSet(RowsOf(r)) /\ Cardinality(RowsOf(r)) \in Nat
  BY <1>2, <1>3, FS_Subset, FS_CardinalityType
<1>5. \A i \in DOMAIN metrics : metrics[i] \in MetricRow /\ i \in Nat
  BY <1>1
<1>6. \A m \in MetricRow : m.time \in Int
  BY DEF MetricRow, Times
<1> QED
  BY <1>1, <1>3, <1>4, <1>5, <1>6

\* A row is in the history of its run after those before it, and counted from the end,
\* after those after it.
LEMMA HistoryPlaces ==
  ASSUME metrics \in Seq(MetricRow), NEW r
  PROVE  LET n == Cardinality(RowsOf(r)) IN
         /\ History(r) \in [1..n -> RowsOf(r)]
         /\ \A i \in RowsOf(r) : /\ Cardinality(RowsBefore(i)) \in 0..(n - 1)
                                 /\ History(r)[Cardinality(RowsBefore(i)) + 1] = i
                                 /\ Cardinality(RowsAfter(i)) = n - 1 - Cardinality(RowsBefore(i))
<1> DEFINE S == RowsOf(r)
           n == Cardinality(S)
           B == [x \in S |-> {y \in S : Earlier(y, x)}]
<1>1. /\ IsFiniteSet(S) /\ n \in Nat
      /\ \A i \in S : i \in Nat /\ metrics[i].time \in Int /\ metrics[i].id = r
  BY RunFinite DEF RowsOf
<1>2. \A x \in S : /\ B[x] = {y \in S : Earlier(y, x)} /\ B[x] = RowsBefore(x)
                   /\ RowsAfter(x) = {y \in S : Earlier(x, y)}
  BY <1>1 DEF RowsBefore, RowsAfter
<1> HIDE DEF S, B
<1>3. \A x \in S : B[x] \subseteq S /\ x \notin B[x]
  BY <1>1, <1>2 DEF Earlier
<1>4. \A x, y \in S : x # y => x \in B[y] \/ y \in B[x]
  BY <1>1, <1>2 DEF Earlier
<1>5. \A x, y \in S : x \in B[y] => B[x] \subseteq B[y]
  BY <1>1, <1>2 DEF Earlier
<1>6. /\ \A x \in S : Cardinality(B[x]) \in 0..(n - 1)
      /\ \A x, y \in S : Cardinality(B[x]) = Cardinality(B[y]) => x = y
      /\ \A k \in 1..n : \E x \in S : Cardinality(B[x]) = k - 1
  BY <1>1, <1>3, <1>4, <1>5, Ranks
<1>7. History(r) = [k \in 1..n |-> CHOOSE x \in S : Cardinality({y \in S : Earlier(y, x)}) = k - 1]
  BY DEF History, Ordered, Earlier, S, RowsOf
<1>8. ASSUME NEW k \in 1..n
      PROVE  History(r)[k] \in S /\ Cardinality(B[History(r)[k]]) = k - 1
  <2>1. History(r)[k] = CHOOSE x \in S : Cardinality({y \in S : Earlier(y, x)}) = k - 1
    BY <1>7
  <2>2. \E x \in S : Cardinality({y \in S : Earlier(y, x)}) = k - 1
    BY <1>2, <1>6
  <2>3. /\ History(r)[k] \in S
        /\ Cardinality({y \in S : Earlier(y, History(r)[k])}) = k - 1
    BY <2>1, <2>2
  <2> QED
    BY <1>2, <2>3
<1>9. History(r) \in [1..n -> S]
  BY <1>7, <1>8
<1>10. ASSUME NEW i \in S
       PROVE  /\ Cardinality(RowsBefore(i)) \in 0..(n - 1)
              /\ History(r)[Cardinality(RowsBefore(i)) + 1] = i
              /\ Cardinality(RowsAfter(i)) = n - 1 - Cardinality(RowsBefore(i))
  <2> DEFINE b == Cardinality(B[i])
  <2>1. b \in 0..(n - 1) /\ Cardinality(RowsBefore(i)) = b
    BY <1>2, <1>6
  <2>2. b + 1 \in 1..n /\ (b + 1) - 1 = b
    BY <1>1, <2>1
  <2>3. History(r)[b + 1] = i
    BY <1>6, <1>8, <2>2
  <2>4. IsFiniteSet(B[i]) /\ IsFiniteSet(RowsAfter(i))
    BY <1>1, <1>2, <1>3, FS_Subset
  <2>5. /\ S = (B[i] \cup RowsAfter(i)) \cup {i} /\ i \notin B[i] \cup RowsAfter(i)
        /\ B[i] \cap RowsAfter(i) = {}
    <3>1. \A x \in S : x \in RowsAfter(i) <=> i \in B[x]
      BY <1>2
    <3>2. RowsAfter(i) \subseteq S
      BY <1>2
    <3>3. \A x \in S : ~(x \in B[i] /\ i \in B[x])
      BY <1>3, <1>5
    <3> QED
      BY <1>3, <1>4, <3>1, <3>2, <3>3
  <2> DEFINE U == B[i] \cup RowsAfter(i)
  <2>6. IsFiniteSet(U) /\ Cardinality(U) = b + Cardinality(RowsAfter(i)) - Cardinality({})
    BY <2>4, <2>5, FS_Union
  <2>7. Cardinality({}) = 0 /\ Cardinality(RowsAfter(i)) \in Nat /\ Cardinality(U) \in Nat
    BY <2>4, <2>6, FS_EmptySet, FS_CardinalityType
  <2>8. i \notin U /\ S = U \cup {i}
    BY <2>5
  <2> HIDE DEF U
  <2>9. Cardinality(S) = Cardinality(U) + 1
    BY <2>6, <2>8, FS_AddElement
  <2> HIDE DEF b
  <2>10. Cardinality(RowsAfter(i)) = n - 1 - b
    BY <1>1, <2>1, <2>6, <2>7, <2>9
  <2> QED
    BY <2>1, <2>3, <2>10 DEF b
<1> QED
  BY <1>9, <1>10 DEF S

LEMMA MinOfTwo ==
  ASSUME NEW a \in Int, NEW b \in Int
  PROVE  MinOf({a, b}) = IF a <= b THEN a ELSE b
<1>1. \E x \in {a, b} : \A y \in {a, b} : x <= y
  OBVIOUS
<1>2. MinOf({a, b}) \in {a, b} /\ \A y \in {a, b} : MinOf({a, b}) <= y
  BY <1>1 DEF MinOf
<1> QED
  BY <1>2

\* A page has the elements at its places, and is full unless the history ends in it.
LEMMA PageIs ==
  ASSUME NEW n \in Nat, NEW T, NEW s \in [1..n -> T], NEW offset \in Nat, NEW limit \in Nat \ {0}
  PROVE  LET page == Page(s, offset, limit) IN
         /\ ToSet(page) \subseteq T
         /\ Len(page) = limit <=> offset + limit <= n
         /\ \A k \in 1..n : offset < k /\ k <= offset + limit => s[k] \in ToSet(page)
<1>1. s \in Seq(T) /\ Len(s) = n
  OBVIOUS
<1> DEFINE hi == IF n <= offset + limit THEN n ELSE offset + limit
           page == SubSeq(s, offset + 1, hi)
<1>2. Page(s, offset, limit) = page
  BY <1>1, MinOfTwo DEF Page
<1>3. hi \in Nat /\ hi <= n /\ \A i \in (offset + 1)..hi : s[i] \in T
  OBVIOUS
<1>4. /\ page \in Seq(T)
      /\ Len(page) = IF offset + 1 <= hi THEN hi - (offset + 1) + 1 ELSE 0
      /\ \A i \in 1..(hi - (offset + 1) + 1) : page[i] = s[(offset + 1) + i - 1]
  BY <1>3, SubSeqProperties
<1> HIDE DEF page
<1>5. ToSet(page) \subseteq T
  BY <1>4 DEF ToSet
<1>6. Len(page) = limit <=> offset + limit <= n
  BY <1>4
<1>7. ASSUME NEW k \in 1..n, offset < k, k <= offset + limit
      PROVE  s[k] \in ToSet(page)
  <2>1. k <= hi /\ offset + 1 <= hi /\ k - offset \in 1..(hi - (offset + 1) + 1)
    BY <1>7
  <2>2. page[k - offset] = s[k]
    BY <1>4, <2>1
  <2>3. k - offset \in DOMAIN page
    BY <1>4, <2>1
  <2> QED
    BY <2>2, <2>3 DEF ToSet
<1> QED
  BY <1>2, <1>5, <1>6, <1>7

\* The invariant.

PagerStates == [on : BOOLEAN, traces : BOOLEAN, name : ReadNames \cup {"none"},
                id : ReadIds \cup {NoId}, run : ReadIds, offset : Nat,
                expected : SUBSET Nat, read : SUBSET Nat, moved : BOOLEAN]

RowsLogged ==
  /\ metrics \in Seq(MetricRow) /\ links \in Seq(LinkRow)
  /\ Len(metrics) + Len(links) <= MaxRows
  /\ \A i, j \in DOMAIN metrics : metrics[i].id = metrics[j].id => metrics[i].name = metrics[j].name

\* The rows of the history that come before a row, in the order the client reads it.
ReadAhead(i) == IF pager.traces THEN RowsAfter(i) ELSE RowsBefore(i)

PagerReads ==
  /\ pager = NoPager \/ pager \in PagerStates
  /\ pager.expected \subseteq DOMAIN metrics /\ pager.read \subseteq DOMAIN metrics
  /\ pager.on /\ ~pager.moved =>
       \A i \in pager.expected : /\ metrics[i].id = pager.run
                                 /\ Cardinality(ReadAhead(i)) < pager.offset => i \in pager.read
  /\ ~pager.on /\ ~pager.moved => pager.expected \subseteq pager.read

ReadInv == RowsLogged /\ PagerReads

LEMMA ReadInvInit == ReadersInit => ReadInv
BY ReadersAssumption DEF ReadersInit, ReadInv, RowsLogged, PagerReads, NoPager

\* A row that is added puts no row of a run before another than was before it.
LEMMA LogRowKeeps ==
  ASSUME ReadInv, NEW row \in MetricRow, LogRow(row)
  PROVE  ReadInv'
<1> USE DEF ReadInv
<1>1. /\ metrics' = Append(metrics, row) /\ UNCHANGED <<links, pager>>
      /\ Len(metrics) + Len(links) < MaxRows
      /\ \A m \in ToSet(metrics) : m.id = row.id => m.name = row.name
  BY DEF LogRow
<1>2. metrics \in Seq(MetricRow) /\ links \in Seq(LinkRow) /\ Len(metrics) \in Nat /\ Len(links) \in Nat
  BY DEF RowsLogged
<1>3. /\ metrics' \in Seq(MetricRow) /\ Len(metrics') = Len(metrics) + 1
      /\ DOMAIN metrics' = DOMAIN metrics \cup {Len(metrics) + 1}
      /\ \A i \in DOMAIN metrics : metrics'[i] = metrics[i]
      /\ metrics'[Len(metrics) + 1] = row
  BY <1>1, <1>2
<1>4. \A i \in DOMAIN metrics : metrics[i].id = row.id => metrics[i].name = row.name
  BY <1>1 DEF ToSet
<1>5. RowsLogged'
  <2>1. Len(metrics') + Len(links') <= MaxRows
    BY <1>1, <1>2, <1>3, ReadersAssumption
  <2>2. \A i, j \in DOMAIN metrics' :
           metrics'[i].id = metrics'[j].id => metrics'[i].name = metrics'[j].name
    BY <1>3, <1>4 DEF RowsLogged
  <2> QED
    BY <1>1, <1>2, <1>3, <2>1, <2>2 DEF RowsLogged
<1>6. ASSUME NEW i \in DOMAIN metrics
      PROVE  Cardinality(ReadAhead(i)') \in Nat /\ Cardinality(ReadAhead(i)) <= Cardinality(ReadAhead(i)')
  <2> DEFINE r == metrics[i].id
  <2>0. metrics'[i].id = r
    BY <1>3
  <2>1. \A j \in DOMAIN metrics : /\ Earlier(i, j)' <=> Earlier(i, j)
                                  /\ Earlier(j, i)' <=> Earlier(j, i)
    BY <1>3 DEF Earlier
  <2>2. \A j \in DOMAIN metrics : j \in DOMAIN metrics' /\ metrics'[j] = metrics[j]
    BY <1>3
  <2>3. /\ ReadAhead(i) = {j \in {k \in DOMAIN metrics : metrics[k].id = r} :
                         IF pager.traces THEN Earlier(i, j) ELSE Earlier(j, i)}
        /\ ReadAhead(i)' = {j \in {k \in DOMAIN metrics' : metrics'[k].id = r} :
                         IF pager.traces THEN Earlier(i, j)' ELSE Earlier(j, i)'}
    BY <1>1, <2>0 DEF ReadAhead, RowsBefore, RowsAfter, RowsOf
  <2>4. ReadAhead(i) \subseteq ReadAhead(i)' /\ ReadAhead(i)' \subseteq DOMAIN metrics'
    BY <2>1, <2>2, <2>3
  <2>5. IsFiniteSet(DOMAIN metrics')
    BY <1>2, <1>3, FS_Interval
  <2>6. IsFiniteSet(ReadAhead(i)')
    BY <2>4, <2>5, FS_Subset
  <2> QED
    BY <2>4, <2>6, FS_Subset, FS_CardinalityType
<1>7. ASSUME NEW i \in DOMAIN metrics
      PROVE  Cardinality(ReadAhead(i)) \in Nat
  <2>1. ReadAhead(i) \subseteq RowsOf(metrics[i].id)
    BY DEF ReadAhead, RowsBefore, RowsAfter
  <2>2. IsFiniteSet(RowsOf(metrics[i].id))
    BY <1>2, RunFinite
  <2> QED
    BY <2>1, <2>2, FS_Subset, FS_CardinalityType
<1>8. PagerReads'
  <2>1. pager.expected \subseteq DOMAIN metrics' /\ pager.read \subseteq DOMAIN metrics'
    BY <1>3 DEF PagerReads
  <2>2. ASSUME pager.on, ~pager.moved, NEW i \in pager.expected
        PROVE  metrics'[i].id = pager.run /\ (Cardinality(ReadAhead(i)') < pager.offset => i \in pager.read)
    <3>1. /\ i \in DOMAIN metrics /\ metrics[i].id = pager.run
          /\ Cardinality(ReadAhead(i)) < pager.offset => i \in pager.read
      BY <2>2 DEF PagerReads
    <3>2. pager.offset \in Nat
      BY DEF PagerReads, PagerStates, NoPager
    <3> QED
      BY <1>3, <1>6, <1>7, <3>1, <3>2
  <2> QED
    BY <1>1, <2>1, <2>2 DEF PagerReads
<1> QED
  BY <1>5, <1>8

LEMMA LinkVersionKeeps ==
  ASSUME ReadInv, NEW row \in LinkRow, LinkVersion(row)
  PROVE  ReadInv'
<1>1. /\ links' = Append(links, row) /\ UNCHANGED <<metrics, pager>>
      /\ Len(metrics) + Len(links) < MaxRows
  BY DEF LinkVersion
<1>2. links \in Seq(LinkRow) /\ Len(links) \in Nat /\ Len(metrics) \in Nat
  BY DEF ReadInv, RowsLogged
<1>3. links' \in Seq(LinkRow) /\ Len(links') = Len(links) + 1
  BY <1>1, <1>2
<1>4. RowsLogged'
  BY <1>1, <1>2, <1>3, ReadersAssumption DEF ReadInv, RowsLogged
<1>5. PagerReads'
  BY <1>1 DEF ReadInv, PagerReads, ReadAhead, RowsBefore, RowsAfter, RowsOf, Earlier
<1> QED
  BY <1>4, <1>5 DEF ReadInv

LEMMA EraseRunKeeps ==
  ASSUME ReadInv, NEW r \in ReadIds, EraseRun(r)
  PROVE  ReadInv'
<1> DEFINE S == {i \in DOMAIN metrics : metrics[i].id # r}
           U == {i \in DOMAIN links : links[i].id # r}
<1>1. metrics' = AtPlaces(metrics, S) /\ links' = AtPlaces(links, U) /\ pager' = NoPager
  BY DEF EraseRun
<1>2. /\ metrics \in Seq(MetricRow) /\ links \in Seq(LinkRow)
      /\ Len(metrics) \in Nat /\ Len(links) \in Nat /\ Len(metrics) + Len(links) <= MaxRows
  BY DEF ReadInv, RowsLogged
<1>3. S \in SUBSET DOMAIN metrics /\ U \in SUBSET DOMAIN links
  OBVIOUS
<1> HIDE DEF S, U
<1>4. /\ metrics' \in Seq(MetricRow) /\ Len(metrics') <= Len(metrics) /\ Len(metrics') \in Nat
      /\ \A k \in DOMAIN metrics' : \E i \in S : metrics'[k] = metrics[i]
  BY <1>1, <1>2, <1>3, PlacesKept
<1>5. links' \in Seq(LinkRow) /\ Len(links') <= Len(links) /\ Len(links') \in Nat
  BY <1>1, <1>2, <1>3, PlacesKept
<1>6. Len(metrics') + Len(links') <= MaxRows
  BY <1>2, <1>4, <1>5, ReadersAssumption
<1>7. ASSUME NEW i \in DOMAIN metrics', NEW j \in DOMAIN metrics', metrics'[i].id = metrics'[j].id
      PROVE  metrics'[i].name = metrics'[j].name
  <2>1. PICK k \in DOMAIN metrics, l \in DOMAIN metrics :
           metrics'[i] = metrics[k] /\ metrics'[j] = metrics[l]
    BY <1>3, <1>4
  <2> QED
    BY <1>7, <2>1 DEF ReadInv, RowsLogged
<1>8. RowsLogged'
  BY <1>4, <1>5, <1>6, <1>7 DEF RowsLogged
<1>9. PagerReads'
  BY <1>1 DEF PagerReads, NoPager
<1> QED
  BY <1>8, <1>9 DEF ReadInv

LEMMA IdentityIsRun ==
  ASSUME metrics \in Seq(MetricRow), NEW name, NEW id \in ReadIds \cup {NoId}
  PROVE  SqliteIdentity(name, id) \subseteq ReadIds
<1>1. \A m \in ToSet(metrics) : m.id \in ReadIds
  BY RunFinite DEF ToSet, MetricRow
<1> QED
  BY <1>1 DEF SqliteIdentity

LEMMA OpenHistoryKeeps ==
  ASSUME ReadInv, NEW name \in ReadNames \cup {"none"}, NEW id \in ReadIds \cup {NoId},
         OpenHistory(name, id)
  PROVE  ReadInv'
<1>1. PICK r \in SqliteIdentity(name, id), traces \in BOOLEAN :
         /\ pager' = [NoPager EXCEPT !.on = TRUE, !.traces = traces, !.name = name, !.id = id,
                                     !.run = r, !.expected = ToSet(History(r))]
         /\ UNCHANGED <<metrics, links>>
  BY DEF OpenHistory
<1>2. metrics \in Seq(MetricRow)
  BY DEF ReadInv, RowsLogged
<1>3. r \in ReadIds
  BY <1>1, <1>2, IdentityIsRun
<1>4. ToSet(History(r)) \subseteq RowsOf(r)
  <2>1. History(r) \in [1..Cardinality(RowsOf(r)) -> RowsOf(r)]
    BY <1>2, HistoryPlaces
  <2> QED
    BY <2>1 DEF ToSet
<1>5. RowsOf(r) \subseteq DOMAIN metrics /\ DOMAIN metrics \subseteq Nat
  BY <1>2, RunFinite
<1>6. pager' = [on |-> TRUE, traces |-> traces, name |-> name, id |-> id, run |-> r,
                offset |-> 0, expected |-> ToSet(History(r)), read |-> {}, moved |-> FALSE]
  BY <1>1 DEF NoPager
<1>7. pager' \in PagerStates
  BY <1>3, <1>4, <1>5, <1>6 DEF PagerStates
<1>8. \A i \in DOMAIN metrics : Cardinality(ReadAhead(i)') \in Nat
  <2>1. ASSUME NEW i \in DOMAIN metrics PROVE Cardinality(ReadAhead(i)') \in Nat
    <3>1. ReadAhead(i)' \subseteq RowsOf(metrics[i].id)
      BY <1>1 DEF ReadAhead, RowsBefore, RowsAfter, RowsOf
    <3>2. IsFiniteSet(RowsOf(metrics[i].id))
      BY <1>2, RunFinite
    <3> QED
      BY <3>1, <3>2, FS_Subset, FS_CardinalityType
  <2> QED
    BY <2>1
<1>9. ASSUME NEW i \in pager'.expected
      PROVE  metrics'[i].id = pager'.run /\ ~(Cardinality(ReadAhead(i)') < pager'.offset)
  <2>1. i \in RowsOf(r) /\ pager'.run = r /\ pager'.offset = 0
    BY <1>4, <1>6
  <2>2. i \in DOMAIN metrics /\ metrics'[i].id = r
    BY <1>1, <2>1 DEF RowsOf
  <2>3. ~(Cardinality(ReadAhead(i)') < 0)
    BY <1>8, <2>2
  <2> QED
    BY <2>1, <2>2, <2>3
<1>10. PagerReads'
  <2>0. pager'.expected = ToSet(History(r)) /\ pager'.read = {} /\ pager'.on = TRUE
    BY <1>6
  <2>1. pager'.expected \subseteq DOMAIN metrics' /\ pager'.read \subseteq DOMAIN metrics'
    BY <1>1, <1>4, <1>5, <2>0
  <2>2. \A i \in pager'.expected : /\ metrics'[i].id = pager'.run
                                   /\ Cardinality(ReadAhead(i)') < pager'.offset => i \in pager'.read
    BY <1>9
  <2> QED
    BY <1>7, <2>0, <2>1, <2>2 DEF PagerReads
<1> QED
  BY <1>1, <1>10 DEF ReadInv, RowsLogged

\* A page brings the rows whose places it spans; a row before them was read already.
LEMMA ReadPageKeeps ==
  ASSUME ReadInv, ReadPage
  PROVE  ReadInv'
<1> DEFINE page(r) == Page(IF pager.traces THEN TraceHistory(r) ELSE History(r), pager.offset, PageSize)
<1>1. PICK r \in SqliteIdentity(pager.name, pager.id) :
         /\ pager.on
         /\ pager' = [pager EXCEPT !.read = @ \cup ToSet(page(r)), !.offset = @ + PageSize,
                                   !.on = Len(page(r)) = PageSize, !.moved = @ \/ r # pager.run]
         /\ UNCHANGED <<metrics, links>>
  BY DEF ReadPage
<1>2. metrics \in Seq(MetricRow) /\ pager \in PagerStates
  BY <1>1 DEF ReadInv, RowsLogged, PagerReads, NoPager
<1>3. r \in ReadIds
  BY <1>1, <1>2, IdentityIsRun DEF PagerStates
<1> DEFINE n == Cardinality(RowsOf(r))
           h == History(r)
           inOrder == IF pager.traces THEN TraceHistory(r) ELSE h
<1>4. n \in Nat /\ RowsOf(r) \subseteq DOMAIN metrics /\ DOMAIN metrics \subseteq Nat
  BY <1>2, RunFinite
<1>5. /\ h \in [1..n -> RowsOf(r)]
      /\ \A i \in RowsOf(r) : /\ Cardinality(RowsBefore(i)) \in 0..(n - 1)
                              /\ h[Cardinality(RowsBefore(i)) + 1] = i
                              /\ Cardinality(RowsAfter(i)) = n - 1 - Cardinality(RowsBefore(i))
  BY <1>2, HistoryPlaces
<1> HIDE DEF n, h
<1>6. pager.traces \in BOOLEAN
  BY <1>2 DEF PagerStates
<1>7. /\ inOrder \in [1..n -> RowsOf(r)]
      /\ \A i \in RowsOf(r) : /\ Cardinality(ReadAhead(i)) \in 0..(n - 1)
                              /\ inOrder[Cardinality(ReadAhead(i)) + 1] = i
  <2>1. CASE ~pager.traces
    BY <1>4, <1>5, <2>1 DEF ReadAhead
  <2>2. CASE pager.traces
    <3>1. h \in Seq(RowsOf(r)) /\ Len(h) = n
      BY <1>4, <1>5
    <3>2. inOrder = [k \in 1..n |-> h[(n - k) + 1]]
      BY <2>2, <3>1 DEF TraceHistory, Reverse, h
    <3>3. \A k \in 1..n : (n - k) + 1 \in 1..n
      BY <1>4
    <3>4. inOrder \in [1..n -> RowsOf(r)]
      BY <1>5, <3>2, <3>3
    <3>5. ASSUME NEW i \in RowsOf(r)
          PROVE  Cardinality(RowsAfter(i)) \in 0..(n - 1) /\ inOrder[Cardinality(RowsAfter(i)) + 1] = i
      <4> DEFINE b == Cardinality(RowsBefore(i))
      <4>1. b \in 0..(n - 1) /\ h[b + 1] = i /\ Cardinality(RowsAfter(i)) = n - 1 - b
        BY <1>5
      <4> HIDE DEF b
      <4>2. (n - 1 - b) + 1 \in 1..n /\ (n - ((n - 1 - b) + 1)) + 1 = b + 1 /\ n - 1 - b \in 0..(n - 1)
        BY <1>4, <4>1
      <4> HIDE DEF inOrder
      <4> QED
        BY <3>2, <4>1, <4>2
    <3> HIDE DEF inOrder
    <3> QED
      BY <2>2, <3>4, <3>5 DEF ReadAhead
  <2> QED
    BY <1>6, <2>1, <2>2
<1> HIDE DEF inOrder
<1>8. /\ ToSet(page(r)) \subseteq RowsOf(r)
      /\ Len(page(r)) = PageSize <=> pager.offset + PageSize <= n
      /\ \A k \in 1..n : pager.offset < k /\ k <= pager.offset + PageSize => inOrder[k] \in ToSet(page(r))
  <2>1. pager.offset \in Nat /\ PageSize \in Nat \ {0}
    BY <1>2, ReadersAssumption DEF PagerStates
  <2>2. page(r) = Page(inOrder, pager.offset, PageSize)
    BY DEF inOrder, h
  <2> DEFINE listed == Page(inOrder, pager.offset, PageSize)
  <2>3. inOrder \in [1..n -> RowsOf(r)]
    BY <1>7
  <2>4. /\ ToSet(listed) \subseteq RowsOf(r)
        /\ Len(listed) = PageSize <=> pager.offset + PageSize <= n
        /\ \A k \in 1..n : pager.offset < k /\ k <= pager.offset + PageSize => inOrder[k] \in ToSet(listed)
    BY ONLY <1>4, <2>1, <2>3, PageIs
  <2> HIDE DEF page, listed
  <2>5. page(r) = listed
    BY <2>2 DEF listed
  <2> QED
    BY <2>4, <2>5
<1> HIDE DEF page
<1>9. pager.offset \in Nat /\ PageSize \in Nat
  BY <1>2, ReadersAssumption DEF PagerStates
<1>10. /\ pager'.read = pager.read \cup ToSet(page(r)) /\ pager'.offset = pager.offset + PageSize
       /\ pager'.on = (Len(page(r)) = PageSize) /\ pager'.moved = (pager.moved \/ r # pager.run)
       /\ pager'.traces = pager.traces /\ pager'.expected = pager.expected /\ pager'.run = pager.run
  BY <1>1, <1>2 DEF PagerStates
<1>11. pager' \in PagerStates
  <2>1. /\ pager.offset + PageSize \in Nat /\ pager.read \cup ToSet(page(r)) \in SUBSET Nat
        /\ (Len(page(r)) = PageSize) \in BOOLEAN /\ (pager.moved \/ r # pager.run) \in BOOLEAN
    BY <1>2, <1>4, <1>8, <1>9 DEF PagerStates
  <2> QED
    BY <1>1, <1>2, <2>1 DEF PagerStates
<1>12. pager.expected \subseteq DOMAIN metrics /\ pager.read \subseteq DOMAIN metrics
  BY DEF ReadInv, PagerReads
<1>13. ASSUME ~pager'.moved, NEW i \in pager.expected
       PROVE  /\ metrics[i].id = pager.run /\ Cardinality(ReadAhead(i)) \in 0..(n - 1)
              /\ Cardinality(ReadAhead(i)) < pager.offset + PageSize => i \in pager'.read
  <2>1. ~pager.moved /\ r = pager.run
    BY <1>10, <1>13
  <2>2. /\ metrics[i].id = pager.run
        /\ Cardinality(ReadAhead(i)) < pager.offset => i \in pager.read
    BY <1>1, <2>1 DEF ReadInv, PagerReads
  <2>3. i \in RowsOf(r)
    BY <1>12, <2>1, <2>2 DEF RowsOf
  <2> DEFINE a == Cardinality(ReadAhead(i))
  <2>4. a \in 0..(n - 1) /\ inOrder[a + 1] = i
    BY <1>7, <2>3
  <2> HIDE DEF a
  <2>5. ASSUME a < pager.offset + PageSize, ~(a < pager.offset) PROVE i \in ToSet(page(r))
    <3>1. a + 1 \in 1..n /\ pager.offset < a + 1 /\ a + 1 <= pager.offset + PageSize
      BY <1>4, <1>9, <2>4, <2>5
    <3> QED
      BY <1>8, <2>4, <3>1
  <2> QED
    BY <1>10, <2>2, <2>4, <2>5 DEF a
<1>14. \A i \in pager.expected : ReadAhead(i)' = ReadAhead(i)
  BY <1>1, <1>10 DEF ReadAhead, RowsBefore, RowsAfter, RowsOf, Earlier
<1>15. ASSUME pager'.on, ~pager'.moved, NEW i \in pager'.expected
       PROVE  metrics'[i].id = pager'.run /\ (Cardinality(ReadAhead(i)') < pager'.offset => i \in pager'.read)
  BY <1>1, <1>10, <1>13, <1>14, <1>15
<1>16. ASSUME ~pager'.on, ~pager'.moved, NEW i \in pager'.expected
       PROVE  i \in pager'.read
  <2>1. ~(pager.offset + PageSize <= n)
    BY <1>8, <1>10, <1>16
  <2>2. i \in pager.expected
    BY <1>10, <1>16
  <2>3. /\ Cardinality(ReadAhead(i)) \in 0..(n - 1)
        /\ Cardinality(ReadAhead(i)) < pager.offset + PageSize => i \in pager'.read
    BY <1>13, <1>16, <2>2
  <2> QED
    BY <1>4, <1>9, <2>1, <2>3
<1>17. PagerReads'
  <2>1. pager'.expected \subseteq DOMAIN metrics' /\ pager'.read \subseteq DOMAIN metrics'
    BY <1>1, <1>4, <1>8, <1>10, <1>12
  <2> QED
    BY <1>11, <1>15, <1>16, <2>1 DEF PagerReads
<1> QED
  BY <1>1, <1>17 DEF ReadInv, RowsLogged

LEMMA ReadInvNext == ReadInv /\ [ReadersNext]_readersVars => ReadInv'
<1> SUFFICES ASSUME ReadInv, [ReadersNext]_readersVars PROVE ReadInv'
  OBVIOUS
<1>1. ASSUME NEW row \in MetricRow, LogRow(row) PROVE ReadInv'
  BY <1>1, LogRowKeeps
<1>2. ASSUME NEW row \in LinkRow, LinkVersion(row) PROVE ReadInv'
  BY <1>2, LinkVersionKeeps
<1>3. ASSUME NEW r \in ReadIds, EraseRun(r) PROVE ReadInv'
  BY <1>3, EraseRunKeeps
<1>4. ASSUME NEW n \in ReadNames, OpenHistory(n, NoId) PROVE ReadInv'
  BY <1>4, OpenHistoryKeeps
<1>5. ASSUME NEW r \in ReadIds, OpenHistory("none", r) PROVE ReadInv'
  BY <1>5, OpenHistoryKeeps
<1>6. CASE ReadPage
  BY <1>6, ReadPageKeeps
<1>7. CASE UNCHANGED readersVars
  BY <1>7 DEF readersVars, ReadInv, RowsLogged, PagerReads, ReadAhead, RowsBefore, RowsAfter, RowsOf,
              Earlier
<1> QED
  BY <1>1, <1>2, <1>3, <1>4, <1>5, <1>6, <1>7 DEF ReadersNext

\* The images of the elements of a sequence are finitely many.
LEMMA FiniteImages ==
  ASSUME NEW T, NEW s \in Seq(T), NEW f
  PROVE  IsFiniteSet({f[x] : x \in ToSet(s)})
<1> DEFINE R == {f[x] : x \in ToSet(s)}
           g == [i \in 1..Len(s) |-> f[s[i]]]
<1>1. Len(s) \in Nat /\ DOMAIN s = 1..Len(s)
  OBVIOUS
<1>2. IsFiniteSet(1..Len(s))
  BY <1>1, FS_Interval
<1>3. R = {f[s[i]] : i \in 1..Len(s)}
  BY <1>1 DEF ToSet
<1>4. g \in Surjection(1..Len(s), R)
  BY <1>3 DEF Surjection
<1> QED
  BY <1>2, <1>4, FS_Surjection

\* Who has a record: a run of the metrics, or of a link that names no such run, which is
\* nobody's only when no link of an id has its name.
LEMMA RecordIs ==
  ASSUME RowsLogged
  PROVE  /\ \A q \in SqliteRecords : q = <<q[1], q[2]>>
         /\ NoId \notin MetricIds
         /\ ValidIds = {q[1] : q \in SqliteRecords} \ {NoId}
         /\ \A nm : <<NoId, nm>> \in SqliteRecords =>
              nm \notin MetricNames /\ \A l \in ToSet(links) : l.name = nm => l.id = NoId
         /\ \A r, nm : r # NoId /\ <<r, nm>> \in SqliteRecords => <<NoId, nm>> \notin SqliteRecords
<1> DEFINE M == ToSet(metrics)
           L == ToSet(links)
<1>1. \A m \in M : m.id \in ReadIds
  BY RunFinite DEF RowsLogged, ToSet, MetricRow
<1>2. NoId \notin MetricIds
  BY <1>1, ReadersAssumption DEF MetricIds
<1>3. /\ \A m \in M : m.id \in MetricIds /\ m.name \in MetricNames
      /\ \A r \in MetricIds : \E m \in M : m.id = r
  BY DEF MetricIds, MetricNames
<1>4. \A l : l \in LinkSource <=> /\ l \in L /\ l.name \notin MetricNames /\ l.id \notin MetricIds
                                  /\ l.id = NoId => ~\E k \in L : k.id # NoId /\ k.name = l.name
  BY DEF LinkSource
<1>5. \A q : q \in SqliteRecords <=> \/ \E m \in M : q = <<m.id, m.name>>
                                     \/ \E l \in LinkSource : q = <<l.id, l.name>>
  BY DEF SqliteRecords
<1> HIDE DEF M, L
<1>6. \A q \in SqliteRecords : q = <<q[1], q[2]>>
  BY <1>5
<1>7. ValidIds = {q[1] : q \in SqliteRecords} \ {NoId}
  <2>1. \A r : r \in ValidIds <=> \/ r \in MetricIds
                                  \/ \E l \in L : /\ l.id = r /\ l.id # NoId
                                                  /\ l.name \notin MetricNames /\ l.id \notin MetricIds
    BY DEF ValidIds, L
  <2>2. ASSUME NEW r \in ValidIds PROVE r # NoId /\ \E q \in SqliteRecords : q[1] = r
    <3>1. CASE r \in MetricIds
      <4>1. PICK m \in M : m.id = r
        BY <1>3, <3>1
      <4>2. <<m.id, m.name>> \in SqliteRecords
        BY <1>5
      <4> QED
        BY <1>2, <3>1, <4>1, <4>2
    <3>2. CASE r \notin MetricIds
      <4>1. PICK l \in L : l.id = r /\ l.id # NoId /\ l.name \notin MetricNames /\ l.id \notin MetricIds
        BY <2>1, <2>2, <3>2
      <4>2. l \in LinkSource
        BY <1>4, <4>1
      <4>3. <<l.id, l.name>> \in SqliteRecords
        BY <1>5, <4>2
      <4> QED
        BY <4>1, <4>3
    <3> QED
      BY <3>1, <3>2
  <2>3. ASSUME NEW q \in SqliteRecords, q[1] # NoId PROVE q[1] \in ValidIds
    <3>1. CASE \E m \in M : q = <<m.id, m.name>>
      BY <1>3, <2>1, <3>1
    <3>2. CASE \E l \in LinkSource : q = <<l.id, l.name>>
      BY <1>4, <2>1, <2>3, <3>2
    <3> QED
      BY <1>5, <3>1, <3>2
  <2> QED
    BY <2>2, <2>3
<1>8. ASSUME NEW nm, <<NoId, nm>> \in SqliteRecords
      PROVE  nm \notin MetricNames /\ \A l \in L : l.name = nm => l.id = NoId
  <2>1. PICK l \in LinkSource : <<NoId, nm>> = <<l.id, l.name>>
    BY <1>2, <1>3, <1>5, <1>8
  <2>2. l.id = NoId /\ l.name = nm
    BY <2>1
  <2> QED
    BY <1>4, <2>2
<1>9. ASSUME NEW r, NEW nm, r # NoId, <<r, nm>> \in SqliteRecords, <<NoId, nm>> \in SqliteRecords
      PROVE  FALSE
  <2>1. nm \notin MetricNames /\ \A l \in L : l.name = nm => l.id = NoId
    BY <1>8, <1>9
  <2>2. ASSUME NEW m \in M, <<r, nm>> = <<m.id, m.name>> PROVE FALSE
    BY <1>3, <2>1, <2>2
  <2>3. ASSUME NEW l \in LinkSource, <<r, nm>> = <<l.id, l.name>> PROVE FALSE
    <3>1. l.id = r /\ l.name = nm /\ l \in L
      BY <1>4, <2>3
    <3> QED
      BY <1>9, <2>1, <3>1
  <2> QED
    BY <1>5, <1>9, <2>2, <2>3
<1> QED
  BY <1>2, <1>6, <1>7, <1>8, <1>9 DEF L

LEMMA RecordsFinite ==
  ASSUME RowsLogged
  PROVE  IsFiniteSet(SqliteRecords)
<1> DEFINE f == [m \in ToSet(metrics) |-> <<m.id, m.name>>]
           g == [l \in ToSet(links) |-> <<l.id, l.name>>]
           R == {f[m] : m \in ToSet(metrics)}
           Q == {g[l] : l \in ToSet(links)}
<1>1. metrics \in Seq(MetricRow) /\ links \in Seq(LinkRow)
  BY DEF RowsLogged
<1>2. IsFiniteSet(R) /\ IsFiniteSet(Q)
  BY <1>1, FiniteImages
<1>3. SqliteRecords \subseteq R \cup Q
  BY DEF SqliteRecords, LinkSource
<1> HIDE DEF R, Q
<1> QED
  BY <1>2, <1>3, FS_Union, FS_Subset

\* The rules of the two engines skip the same links.
LEMMA SameRecords ==
  ASSUME RowsLogged
  PROVE  SqliteRecords = DorisRecords
<1> DEFINE M == ToSet(metrics)
           L == ToSet(links)
           pairs == {<<m.id, m.name>> : m \in M}
           idNames == {l.name : l \in {k \in L : k.id # NoId}}
           skipped(l) == \/ l.name \in {p[2] : p \in pairs}
                         \/ l.id # NoId /\ l.id \in {p[1] : p \in pairs}
                         \/ l.id = NoId /\ l.name \in idNames
           D == {k \in L : ~skipped(k)}
<1>1. NoId \notin MetricIds
  BY RecordIs
<1>2. {p[2] : p \in pairs} = MetricNames /\ {p[1] : p \in pairs} = MetricIds
  <2>1. ASSUME NEW m \in M PROVE \E p \in pairs : p[1] = m.id /\ p[2] = m.name
    <3>1. <<m.id, m.name>> \in pairs
      OBVIOUS
    <3> QED
      BY <3>1
  <2>2. \A p \in pairs : \E m \in M : p[1] = m.id /\ p[2] = m.name
    OBVIOUS
  <2> HIDE DEF pairs, M
  <2>3. {p[2] : p \in pairs} = {m.name : m \in M}
    BY <2>1, <2>2
  <2>4. {p[1] : p \in pairs} = {m.id : m \in M}
    BY <2>1, <2>2
  <2> QED
    BY <2>3, <2>4 DEF MetricNames, MetricIds, M
<1>3. \A l \in L : skipped(l) <=> l \notin LinkSource
  <2> HIDE DEF pairs
  <2>1. \A l : l \in LinkSource <=> /\ l \in L /\ l.name \notin MetricNames /\ l.id \notin MetricIds
                                    /\ l.id = NoId => ~\E k \in L : k.id # NoId /\ k.name = l.name
    BY DEF LinkSource
  <2>2. \A l : l.name \in idNames <=> \E k \in L : k.id # NoId /\ k.name = l.name
    OBVIOUS
  <2> HIDE DEF idNames
  <2> QED
    BY <1>1, <1>2, <2>1, <2>2
<1>4. D = LinkSource
  <2>1. LinkSource \subseteq L
    BY DEF LinkSource
  <2> HIDE DEF skipped, L
  <2> QED
    BY <1>3, <2>1
<1>5. DorisRecords = pairs \cup {<<l.id, l.name>> : l \in D}
  BY DEF DorisRecords
<1> HIDE DEF D
<1> QED
  BY <1>4, <1>5 DEF SqliteRecords

LEMMA EnginesAlike ==
  ASSUME RowsLogged
  PROVE  EnginesAgree
<1>1. SqliteRecords = DorisRecords
  BY SameRecords
<1>2. SqliteCounts = DorisCounts
  BY <1>1 DEF SqliteCounts, DorisCounts
<1>3. ASSUME NEW p \in SqliteRecords
      PROVE  /\ \A d \in DorisArtifacts(p[2], p[1]) :
                   \E s \in SqliteArtifacts(p[2], p[1]) : d \subseteq s
             /\ (\A l \in ToSet(links) : l.id \in ValidIds)
                   => DorisArtifacts(p[2], p[1]) = SqliteArtifacts(p[2], p[1])
  <2> DEFINE nm == p[2]
             r == p[1]
             L == ToSet(links)
  <2>1. CASE r = NoId
    <3>1. nm \notin MetricNames
      BY <2>1, RecordIs
    <3>2. {x \in ToSet(metrics) : x.name = nm} = {}
      BY <3>1 DEF MetricNames
    <3>3. SqliteIdentity(nm, r) = {}
      BY <2>1, <3>2 DEF SqliteIdentity
    <3>4. DorisArtifacts(nm, r) = SqliteArtifacts(nm, r)
      BY <3>3 DEF DorisArtifacts, SqliteArtifacts
    <3> QED
      BY <3>4
  <2>2. CASE r # NoId
    <3> DEFINE sole == {q[1] : q \in {x \in SqliteRecords : x[2] = nm}} = {r}
               own == {Link(l) : l \in {k \in L : k.id = r}}
               all == {Link(l) : l \in {k \in L : k.id = r \/ (sole /\ k.name = nm /\ k.id \notin ValidIds)}}
    <3>1. SqliteIdentity(nm, r) = {r}
      BY <2>2 DEF SqliteIdentity
    <3>2. DorisArtifacts(nm, r) = {own}
      BY <3>1 DEF DorisArtifacts
    <3>3. SqliteArtifacts(nm, r) = {all}
      BY <3>1 DEF SqliteArtifacts
    <3> HIDE DEF sole
    <3>4. own \subseteq all
      OBVIOUS
    <3>5. (\A l \in L : l.id \in ValidIds) => own = all
      OBVIOUS
    <3> HIDE DEF own, all
    <3> QED
      BY <3>2, <3>3, <3>4, <3>5
  <2> QED
    BY <2>1, <2>2
<1> QED
  BY <1>1, <1>2, <1>3 DEF EnginesAgree

\* A set is as large as it is with each element marked.
LEMMA Marked ==
  ASSUME NEW S, IsFiniteSet(S), NEW key
  PROVE  Cardinality({<<key, x>> : x \in S}) = Cardinality(S)
<1> DEFINE R == {<<key, x>> : x \in S}
           f == [x \in S |-> <<key, x>>]
<1>1. f \in [S -> R] /\ \A y \in R : \E x \in S : f[x] = y
  OBVIOUS
<1>2. \A x, y \in S : f[x] = f[y] => x = y
  OBVIOUS
<1> HIDE DEF f, R
<1>3. f \in Bijection(S, R)
  BY <1>1, <1>2 DEF Bijection, Injection, Surjection, IsInjective
<1>4. ExistsBijection(S, R)
  BY <1>3 DEF ExistsBijection
<1> QED
  BY <1>4, FS_Bijection DEF R

\* Whom a link counts for: its own run when that has a record, or the only one of its name.
RunsNamed(n) == {p[1] : p \in {q \in SqliteRecords : q[2] = n}} \ {NoId}

LEMMA OwnerIs ==
  ASSUME RowsLogged, NEW l
  PROVE  /\ l.id \in ValidIds => OwnerOf(l, SqliteRecords) = l.id
         /\ l.id \notin ValidIds =>
              \/ RunsNamed(l.name) = {OwnerOf(l, SqliteRecords)}
              \/ /\ OwnerOf(l, SqliteRecords) = NoId
                 /\ \A r : RunsNamed(l.name) # {r}
<1> DEFINE N == RunsNamed(l.name)
<1>1. l.id \in ValidIds <=> l.id # NoId /\ \E p \in SqliteRecords : p[1] = l.id
  BY RecordIs
<1>2. OwnerOf(l, SqliteRecords) = IF l.id \in ValidIds THEN l.id
                                  ELSE IF Cardinality(N) = 1 THEN CHOOSE r \in N : TRUE ELSE NoId
  BY <1>1 DEF OwnerOf, RunsNamed
<1>3. IsFiniteSet(N)
  <2> DEFINE f == [q \in SqliteRecords |-> q[1]]
             R == {q[1] : q \in SqliteRecords}
  <2>1. f \in Surjection(SqliteRecords, R)
    BY DEF Surjection
  <2>2. IsFiniteSet(R)
    BY <2>1, RecordsFinite, FS_Surjection
  <2>3. N \subseteq R
    BY DEF RunsNamed
  <2> QED
    BY <2>2, <2>3, FS_Subset
<1> HIDE DEF N
<1>4. Cardinality(N) = 1 <=> \E r : N = {r}
  BY <1>3, FS_Singleton
<1>5. ASSUME NEW r, N = {r} PROVE (CHOOSE x \in N : TRUE) = r
  BY <1>5
<1> QED
  BY <1>2, <1>4, <1>5 DEF N

\* The links listed for a record, for a run and for a name without one.
ListedFor(p, l) ==
  IF p[1] = NoId THEN l.name = p[2]
  ELSE \/ l.id = p[1]
       \/ /\ {x[1] : x \in {q \in SqliteRecords : q[2] = p[2]}} = {p[1]}
          /\ l.name = p[2] /\ l.id \notin ValidIds

LEMMA ArtifactsListed ==
  ASSUME RowsLogged, NEW p \in SqliteRecords
  PROVE  SqliteArtifacts(p[2], p[1]) = {{Link(l) : l \in {k \in ToSet(links) : ListedFor(p, k)}}}
<1>1. CASE p[1] = NoId
  <2>1. p[2] \notin MetricNames
    BY <1>1, RecordIs
  <2>2. {x \in ToSet(metrics) : x.name = p[2]} = {}
    BY <2>1 DEF MetricNames
  <2>3. SqliteIdentity(p[2], p[1]) = {}
    BY <1>1, <2>2 DEF SqliteIdentity
  <2> QED
    BY <1>1, <2>3 DEF SqliteArtifacts, ListedFor
<1>2. CASE p[1] # NoId
  <2>1. SqliteIdentity(p[2], p[1]) = {p[1]}
    BY <1>2 DEF SqliteIdentity
  <2> QED
    BY <1>2, <2>1 DEF SqliteArtifacts, ListedFor
<1> QED
  BY <1>1, <1>2

\* A link counts for a record, under its name, exactly if it is listed for it.
LEMMA CountedIsListed ==
  ASSUME RowsLogged, NEW p \in SqliteRecords,
         \A l \in ToSet(links) : l.id = p[1] => l.name = p[2]
  PROVE  /\ \A l \in ToSet(links) : <<OwnerOf(l, SqliteRecords), l.name>> = p <=> ListedFor(p, l)
         /\ \A l \in ToSet(links) : p[1] # NoId /\ OwnerOf(l, SqliteRecords) = p[1] => l.name = p[2]
         /\ \A l \in ToSet(links) :
              ~(p[1] # NoId /\ OwnerOf(l, SqliteRecords) = NoId /\ l.name = p[2]
                /\ Cardinality({q \in SqliteRecords : q[2] = p[2]}) = 1)
<1> DEFINE r == p[1]
           nm == p[2]
           sole == {x[1] : x \in {q \in SqliteRecords : q[2] = nm}} = {r}
<1>1. p = <<r, nm>>
  BY RecordIs
<1>2. /\ \A n, x : x \in RunsNamed(n) <=> x # NoId /\ <<x, n>> \in SqliteRecords
      /\ sole <=> \A x : <<x, nm>> \in SqliteRecords <=> x = r
  <2>1. \A q \in SqliteRecords : q = <<q[1], q[2]>>
    BY RecordIs
  <2>2. \A n, x : x \in {y[1] : y \in {q \in SqliteRecords : q[2] = n}} <=> <<x, n>> \in SqliteRecords
    BY <2>1
  <2> QED
    BY <2>2 DEF RunsNamed
<1>4. \A l : ListedFor(p, l) <=> IF r = NoId THEN l.name = nm
                                 ELSE l.id = r \/ (sole /\ l.name = nm /\ l.id \notin ValidIds)
  BY DEF ListedFor
<1> HIDE DEF sole
<1>5. CASE r = NoId
  <2>1. \A l \in ToSet(links) : l.name = nm => l.id = NoId
    BY <1>1, <1>5, RecordIs
  <2>2. RunsNamed(nm) = {}
    BY <1>1, <1>2, <1>5, RecordIs
  <2>3. NoId \notin ValidIds
    BY RecordIs
  <2>4. ASSUME NEW l \in ToSet(links), l.name = nm PROVE OwnerOf(l, SqliteRecords) = NoId
    BY <2>1, <2>2, <2>3, <2>4, OwnerIs
  <2>5. \A l \in ToSet(links) : <<OwnerOf(l, SqliteRecords), l.name>> = p <=> ListedFor(p, l)
    BY <1>1, <1>4, <1>5, <2>4
  <2> QED
    BY <1>5, <2>5
<1>6. CASE r # NoId
  <2>1. r \in ValidIds /\ <<NoId, nm>> \notin SqliteRecords /\ <<r, nm>> \in SqliteRecords
    BY <1>1, <1>6, RecordIs
  <2>2. ASSUME NEW a, <<r, a>> \in SqliteRecords PROVE a = nm
    <3>1. ASSUME NEW m \in ToSet(metrics), m.id = r PROVE m.name = nm
      <4>1. \A x \in ToSet(metrics) : x.id = r => x.name = m.name
        BY <3>1 DEF RowsLogged, ToSet
      <4>2. r \in MetricIds
        BY <3>1 DEF MetricIds
      <4>3. ASSUME NEW l \in LinkSource, <<r, nm>> = <<l.id, l.name>> PROVE FALSE
        BY <4>2, <4>3 DEF LinkSource
      <4> QED
        BY <2>1, <4>1, <4>3 DEF SqliteRecords
    <3>2. ASSUME NEW l \in LinkSource, l.id = r PROVE l.name = nm
      BY <3>2 DEF LinkSource
    <3> QED
      BY <2>2, <3>1, <3>2 DEF SqliteRecords
  <2>3. ASSUME NEW l \in ToSet(links)
        PROVE  /\ OwnerOf(l, SqliteRecords) = r => l.name = nm
               /\ <<OwnerOf(l, SqliteRecords), l.name>> = p <=> ListedFor(p, l)
               /\ ~(OwnerOf(l, SqliteRecords) = NoId /\ l.name = nm
                    /\ Cardinality({q \in SqliteRecords : q[2] = nm}) = 1)
    <3> DEFINE o == OwnerOf(l, SqliteRecords)
    <3>1. /\ l.id \in ValidIds => o = l.id
          /\ l.id \notin ValidIds =>
               \/ RunsNamed(l.name) = {o}
               \/ o = NoId /\ \A x : RunsNamed(l.name) # {x}
      BY OwnerIs
    <3> HIDE DEF o
    <3>2. o = r => l.name = nm
      <4>1. CASE l.id \in ValidIds
        BY <3>1, <4>1
      <4>2. CASE l.id \notin ValidIds
        BY <1>2, <1>6, <2>2, <3>1, <4>2
      <4> QED
        BY <4>1, <4>2
    <3>3. RunsNamed(nm) = {r} <=> sole
      <4>1. NoId \notin RunsNamed(nm) /\ r \in RunsNamed(nm)
        BY <1>2, <1>6, <2>1
      <4>2. \A x : x \in RunsNamed(nm) <=> <<x, nm>> \in SqliteRecords
        BY <1>2, <2>1
      <4> QED
        BY <1>2, <4>2
    <3>4. <<o, l.name>> = p <=> ListedFor(p, l)
      <4>1. <<o, l.name>> = p <=> o = r /\ l.name = nm
        BY <1>1
      <4>2. CASE l.id \in ValidIds
        BY <1>4, <1>6, <3>1, <4>1, <4>2
      <4>3. CASE l.id \notin ValidIds
        <5>1. l.id # r
          BY <2>1, <4>3
        <5>2. ListedFor(p, l) <=> sole /\ l.name = nm
          BY <1>4, <1>6, <4>3, <5>1
        <5>3. l.name = nm => (o = r <=> RunsNamed(nm) = {r})
          BY <1>6, <3>1, <4>3
        <5> QED
          BY <3>3, <4>1, <5>2, <5>3
      <4> QED
        BY <4>2, <4>3
    <3>5. ASSUME o = NoId, l.name = nm, Cardinality({q \in SqliteRecords : q[2] = nm}) = 1
          PROVE  FALSE
      <4> DEFINE Q == {q \in SqliteRecords : q[2] = nm}
      <4>1. IsFiniteSet(Q)
        BY RecordsFinite, FS_Subset
      <4>2. p \in Q
        OBVIOUS
      <4> HIDE DEF Q
      <4>3. Q = {p}
        BY <3>5, <4>1, <4>2, FS_Singleton DEF Q
      <4>4. \A x : <<x, nm>> \in SqliteRecords <=> x = r
        BY <1>1, <4>3 DEF Q
      <4>5. RunsNamed(nm) = {r}
        BY <1>2, <3>3, <4>4
      <4>6. NoId \notin ValidIds
        BY RecordIs
      <4> QED
        BY <1>6, <3>1, <3>5, <4>5, <4>6
    <3> QED
      BY <3>2, <3>4, <3>5 DEF o
  <2> QED
    BY <1>6, <2>3
<1> QED
  BY <1>5, <1>6

LEMMA CountsAreLists ==
  ASSUME RowsLogged
  PROVE  CountsMatchLists
<1> SUFFICES ASSUME NEW p \in SqliteRecords, \A l \in ToSet(links) : l.id = p[1] => l.name = p[2],
                    NEW listed \in SqliteArtifacts(p[2], p[1])
             PROVE  Shown(SqliteCounts, SqliteRecords, p) = Cardinality(listed)
  BY DEF CountsMatchLists
<1> DEFINE L == ToSet(links)
           K == [l \in L |-> <<OwnerOf(l, SqliteRecords), l.name>>]
           counts == SqliteCounts
           keys == {k \in DOMAIN counts : k[1] # NoId /\ k[1] = p[1]}
                   \cup {k \in DOMAIN counts : /\ k[1] = NoId /\ k[2] = p[2]
                                               /\ \/ p[1] = NoId
                                                  \/ Cardinality({q \in SqliteRecords : q[2] = p[2]}) = 1}
           T == UNION {{<<k, x>> : x \in counts[k]} : k \in keys}
<1>1. Shown(SqliteCounts, SqliteRecords, p) = Cardinality(T)
  BY DEF Shown
<1>2. listed = {Link(l) : l \in {k \in L : ListedFor(p, k)}}
  BY ArtifactsListed
<1>3. p = <<p[1], p[2]>>
  BY RecordIs
<1>4. /\ DOMAIN counts = {K[l] : l \in L}
      /\ \A k \in DOMAIN counts : counts[k] = {Link(l) : l \in {x \in L : K[x] = k}}
  BY DEF SqliteCounts, Counts
<1>5. /\ \A l \in L : K[l] = p <=> ListedFor(p, l)
      /\ \A l \in L : p[1] # NoId /\ K[l][1] = p[1] => K[l][2] = p[2]
      /\ \A l \in L : ~(p[1] # NoId /\ K[l][1] = NoId /\ K[l][2] = p[2]
                        /\ Cardinality({q \in SqliteRecords : q[2] = p[2]}) = 1)
      /\ \A l \in L : K[l] = <<K[l][1], K[l][2]>>
  BY CountedIsListed
<1> HIDE DEF K, counts, L
<1>6. \A k \in DOMAIN counts : k \in keys <=> k = p
  <2>1. ASSUME NEW l \in L, K[l] \in keys PROVE K[l] = p
    BY <1>3, <1>5, <2>1
  <2>2. p \in DOMAIN counts => p \in keys
    OBVIOUS
  <2> HIDE DEF keys
  <2> QED
    BY <1>4, <2>1, <2>2
<1>7. keys \subseteq DOMAIN counts
  OBVIOUS
<1>8. T = {<<p, x>> : x \in listed}
  <2> HIDE DEF keys
  <2>1. CASE p \in DOMAIN counts
    <3>1. counts[p] = listed
      BY <1>2, <1>4, <1>5, <2>1
    <3>2. keys = {p}
      BY <1>6, <1>7, <2>1
    <3> QED
      BY <3>1, <3>2
  <2>2. CASE p \notin DOMAIN counts
    <3>1. keys = {}
      BY <1>6, <1>7, <2>2
    <3>2. listed = {}
      BY <1>2, <1>4, <1>5, <2>2
    <3> QED
      BY <3>1, <3>2
  <2> QED
    BY <2>1, <2>2
<1>9. IsFiniteSet(listed)
  <2> DEFINE f == [l \in ToSet(links) |-> Link(l)]
             R == {f[l] : l \in ToSet(links)}
  <2>0. links \in Seq(LinkRow)
    BY DEF RowsLogged
  <2>1. IsFiniteSet(R)
    BY <2>0, FiniteImages
  <2>2. listed \subseteq R
    BY <1>2 DEF L
  <2> QED
    BY <2>1, <2>2, FS_Subset
<1>10. Cardinality({<<p, x>> : x \in listed}) = Cardinality(listed)
  BY <1>9, Marked
<1> HIDE DEF T
<1> QED
  BY <1>1, <1>8, <1>10

LEMMA ReadInvGives == ReadInv => ReadersTypeOK /\ EnginesAgree /\ CountsMatchLists /\ PagesMissNothing
<1> SUFFICES ASSUME ReadInv PROVE ReadersTypeOK /\ EnginesAgree /\ CountsMatchLists /\ PagesMissNothing
  OBVIOUS
<1>1. RowsLogged /\ PagerReads
  BY DEF ReadInv
<1>2. DOMAIN metrics \subseteq 1..MaxRows
  BY <1>1, ReadersAssumption DEF RowsLogged
<1>3. ReadersTypeOK
  BY <1>1, <1>2 DEF ReadersTypeOK, RowsLogged, PagerReads
<1>4. PagesMissNothing
  BY <1>1 DEF PagesMissNothing, PagerReads
<1> QED
  BY <1>1, <1>3, <1>4, EnginesAlike, CountsAreLists

\* The engines list the same runs and counts, the counts are of what is listed, and a
\* client that reads a history page by page misses no row the run had when it began: for
\* any ids, names, versions, times, page sizes and rows.
THEOREM ReadersKept == ReadersSpec => [](ReadersTypeOK /\ EnginesAgree /\ CountsMatchLists
                                         /\ PagesMissNothing)
<1>1. ReadersSpec => []ReadInv
  BY ReadInvInit, ReadInvNext, PTL DEF ReadersSpec
<1> QED
  BY <1>1, ReadInvGives, PTL

-----------------------------------------------------------------------------
(* The composed model.                                                     *)

LEMMA PartsInit == MCInit => ReadInv /\ DashInv /\ PubInv /\ BookInv
  BY ReadInvInit, DashInvInit, PubInvInit, BookInvInit DEF MCInit

LEMMA PartsNext ==
  ASSUME ReadInv, DashInv, PubInv, BookInv, [MCNext]_MCVars
  PROVE  ReadInv' /\ DashInv' /\ PubInv' /\ BookInv'
<1>1. /\ [ReadersNext]_readersVars
      /\ [DashboardNext]_dashboardVars
      /\ [PubNext]_pubVars
      /\ [BookNext]_bookVars
  BY DEF MCNext, MCVars, Shows, Publishes, Writes
<1> QED
  BY <1>1, ReadInvNext, DashInvNext, PubInvNext, BookInvNext

\* Whatever rows come and runs go, the engines agree, counts are of what is listed
\* and pages miss nothing.
THEOREM ReadsAgreeHolds == MCSpec => []ReadsAgree
<1>1. ReadInv => ReadsAgree
  BY ReadInvGives DEF ReadsAgree
<1>2. ReadInv /\ DashInv /\ PubInv /\ BookInv /\ [MCNext]_MCVars
      => (ReadInv /\ DashInv /\ PubInv /\ BookInv)'
  BY PartsNext
<1> QED
  BY <1>1, <1>2, PartsInit, PTL DEF MCSpec

\* Whatever answers come late, the dashboard shows what is selected.
THEOREM ShowsSelectedHolds == MCSpec => []ShowsSelected
<1>1. DashInv => ShowsSelected
  BY DashInvGives DEF ShowsSelected
<1>2. ReadInv /\ DashInv /\ PubInv /\ BookInv /\ [MCNext]_MCVars
      => (ReadInv /\ DashInv /\ PubInv /\ BookInv)'
  BY PartsNext
<1> QED
  BY <1>1, <1>2, PartsInit, PTL DEF MCSpec

\* Whatever syncs, exports and freezes cross, what is published holds together
\* and stays published.
THEOREM PublishedSoundHolds == MCSpec => []PublishedSound
<1>1. PubInv => PublishedSound
  BY PubInvGives DEF PublishedSound
<1>2. ReadInv /\ DashInv /\ PubInv /\ BookInv /\ [MCNext]_MCVars
      => (ReadInv /\ DashInv /\ PubInv /\ BookInv)'
  BY PartsNext
<1> QED
  BY <1>1, <1>2, PartsInit, PTL DEF MCSpec

\* Whatever edits, publications and workers cross, a logbook, its index and its
\* Space agree but for the mishaps that are noted.
THEOREM LogbookSoundHolds == MCSpec => []LogbookSound
<1>1. BookInv => LogbookSound
  BY BookInvGives DEF LogbookSound
<1>2. ReadInv /\ DashInv /\ PubInv /\ BookInv /\ [MCNext]_MCVars
      => (ReadInv /\ DashInv /\ PubInv /\ BookInv)'
  BY PartsNext
<1> QED
  BY <1>1, <1>2, PartsInit, PTL DEF MCSpec
=============================================================================
