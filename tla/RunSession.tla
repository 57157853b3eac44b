------------------------------ MODULE RunSession ------------------------------
(***************************************************************************)
(* Resuming a run by its name (__init__.py, run.py): init looks the run up *)
(* where it can, takes its id and goes on from its last step, while rows   *)
(* of the run may still be on their way: in the queue of a process that    *)
(* has not ended, in the server's write queue or in the inbox of a local   *)
(* project, or in the buffer of the client's machine.                      *)
(*                                                                         *)
(* All sessions name the same run.  A run's id is the session that created *)
(* it, a row its run, its step and the time at which a database took it;   *)
(* records are ordered by the time of their first row.                     *)
(***************************************************************************)
EXTENDS Integers, FiniteSetsExt

CONSTANTS Sessions,     \* calls of init, in processes of their own or in one
          NoRunId,
          MaxStep,      \* bound on the steps logged
          MaxBatches    \* bound on the batches that are written or buffered

ASSUME SessionAssumption == NoRunId \notin Sessions /\ {MaxStep, MaxBatches} \subseteq Nat

VARIABLES hosted,    \* whether the runs log to a Space or a server
          stored,    \* rows in the project's database
          waiting,   \* rows accepted but not yet in the database
          kept,      \* rows in the local buffer of a remote run
          session,   \* per session: is it running, its run, its next step, and
                     \*   the steps in its queue
          clock,
          blind,     \* history: sessions that could not see all rows of the run
          repeated   \* history: sessions that gave a step the run already had

sessionVars == <<hosted, stored, waiting, kept, session, clock, blind, repeated>>

RowsOf(rows, id) == {row \in rows : row.of = id}
Steps(rows, id) == {row.step : row \in RowsOf(rows, id)}
Started(rows, id) == Min({row.time : row \in RowsOf(rows, id)})
Queued(id) == UNION {session[s].queue : s \in {t \in Sessions : session[t].run = id}}
Logged(id) == Steps(stored \cup waiting \cup kept, id) \cup Queued(id)

SessionInit == /\ hosted \in BOOLEAN
               /\ stored = {} /\ waiting = {} /\ kept = {}
               /\ session = [s \in Sessions |->
                               [is |-> "new", run |-> NoRunId, next |-> 0, queue |-> {}]]
               /\ clock = 0
               /\ blind = {} /\ repeated = {}

\* The database of this machine: the project of a local run, the buffer of a
\* remote one.
LocalStore == IF hosted THEN kept ELSE stored

\* _safe_get_latest_run_for_init: of the records with the name, the one that
\* was created last.
LatestRun(rows) ==
    IF rows = {} THEN NoRunId
    ELSE CHOOSE id \in {row.of : row \in rows} :
           \A other \in {row.of : row \in rows} : Started(rows, other) <= Started(rows, id)

\* A resumed run goes on behind the last step found, the others begin at zero.
\* Faulty variant: at the last step.
NextStepAt(rows, id) == IF Steps(rows, id) = {} THEN 0 ELSE Max(Steps(rows, id))
NextStep(rows, id) == IF Steps(rows, id) = {} THEN 0 ELSE Max(Steps(rows, id)) + 1

\* init: without a client (a Space that is being created, a server that cannot
\* be reached) the local store is looked up.  A failed request for the records
\* finds no run; after a failed request for the last step the local store is
\* asked for it.
InitSession(s, resume, connects, findsRuns, findsStep) ==
    LET found == IF ~findsRuns THEN {} ELSE IF hosted /\ connects THEN stored ELSE LocalStore
        existing == IF resume = "never" THEN NoRunId ELSE LatestRun(found)
        id == IF existing = NoRunId THEN s ELSE existing
        looked == IF hosted /\ connects /\ findsStep
                     /\ existing # NoRunId /\ Steps(stored, id) # {}
                  THEN stored ELSE LocalStore
    IN /\ session[s].is = "new"
       /\ IF resume = "must" /\ existing = NoRunId
          THEN /\ session' = [session EXCEPT ![s].is = "refused"]
               /\ UNCHANGED blind
          ELSE /\ session' = [session EXCEPT ![s] = [is |-> "running", run |-> id,
                                                     next |-> NextStep(looked, id), queue |-> {}]]
               /\ blind' = IF \/ Logged(id) # Steps(looked, id)
                              \/ \E t \in Sessions : session[t].is = "running" /\ session[t].run = id
                           THEN blind \cup {s} \cup {t \in Sessions : session[t].is = "running"
                                                                      /\ session[t].run = id}
                           ELSE blind
       /\ UNCHANGED <<hosted, stored, waiting, kept, clock, repeated>>

\* Faulty variant: the counter counts the calls.
AfterStepCounted(next, step) == next + 1

\* _next_step: beyond every step logged in this session.
AfterStep(next, step) == Max({next, step + 1})

\* log, with a step of the caller's or the next one.
LogStep(s, given) ==
    LET step == IF given >= 0 THEN given ELSE session[s].next
    IN /\ session[s].is = "running" /\ step <= MaxStep
       /\ session' = [session EXCEPT ![s].next = AfterStep(@, step), ![s].queue = @ \cup {step}]
       /\ repeated' = IF given < 0 /\ step \in Logged(session[s].run)
                      THEN repeated \cup {s} ELSE repeated
       /\ UNCHANGED <<hosted, stored, waiting, kept, clock, blind>>

SessionBatch(s) == {[of |-> session[s].run, step |-> step, time |-> clock + 1] :
               step \in session[s].queue}

\* The sender writes its batch: to the database (a local run in the mode
\* sqlite), to the inbox or to a server, which may only queue it, or, when the
\* server cannot be reached, to the buffer.
SendBatch(s, where) ==
    /\ session[s].queue # {} /\ clock < MaxBatches
    /\ where = "buffer" => hosted
    /\ clock' = clock + 1
    /\ stored' = IF where = "database" THEN stored \cup SessionBatch(s) ELSE stored
    /\ waiting' = IF where = "queue" THEN waiting \cup SessionBatch(s) ELSE waiting
    /\ kept' = IF where = "buffer" THEN kept \cup SessionBatch(s) ELSE kept
    /\ session' = [session EXCEPT ![s].queue = {}]
    /\ UNCHANGED <<hosted, blind, repeated>>

\* The server's flusher, or the import of the inbox.
WriteWaiting == /\ waiting # {}
                /\ stored' = stored \cup waiting /\ waiting' = {}
                /\ UNCHANGED <<hosted, kept, session, clock, blind, repeated>>

\* A running session replays the buffer; the rows keep their times.
ReplayBuffer(s) == /\ session[s].is = "running" /\ kept # {}
                   /\ stored' = stored \cup kept /\ kept' = {}
                   /\ UNCHANGED <<hosted, waiting, session, clock, blind, repeated>>

\* finish, or the next init of the process, which finishes this run first.
FinishSession(s) == /\ session[s].is = "running" /\ session[s].queue = {}
                    /\ session' = [session EXCEPT ![s].is = "ended"]
                    /\ UNCHANGED <<hosted, stored, waiting, kept, clock, blind, repeated>>

\* The process ends and its queue with it.
KillSession(s) == /\ session[s].is = "running"
                  /\ session' = [session EXCEPT ![s].is = "ended", ![s].queue = {}]
                  /\ UNCHANGED <<hosted, stored, waiting, kept, clock, blind, repeated>>

SessionNext ==
    \/ WriteWaiting
    \/ \E s \in Sessions :
         \/ \E resume \in {"must", "allow", "never"} :
              \E connects, findsRuns, findsStep \in BOOLEAN :
                 InitSession(s, resume, connects, findsRuns, findsStep)
         \/ \E given \in -1..MaxStep : LogStep(s, given)
         \/ \E where \in {"database", "queue", "buffer"} : SendBatch(s, where)
         \/ ReplayBuffer(s) \/ FinishSession(s) \/ KillSession(s)

SessionSpec == SessionInit /\ [][SessionNext]_sessionVars

----------------------------------------------------------------------------
\* The type invariant: a row belongs to a run that some session created, and
\* only remote runs have a buffer.
SessionTypeOK ==
    /\ ~hosted => kept = {}
    /\ \A row \in stored \cup waiting \cup kept :
          row.of \in Sessions /\ row.step \in 0..MaxStep /\ row.time \in 1..clock
    /\ \A s \in Sessions : session[s].is = "running" => session[s].run \in Sessions

\* A session that found every row of the run when it resumed it, and had it to
\* itself, never gives one of the run's steps again when it counts by itself,
\* whatever steps the caller gave in between.
StepsContinue == repeated \subseteq blind

=============================================================================
