------------------------------ MODULE DorisRuns ------------------------------
(***************************************************************************)
(* The rows of runs in the Doris engine (doris_storage.py), as the threads *)
(* of one server change them: log requests and inbox workers insert,       *)
(* rename_run, delete_run, purge_runs and delete_project go through the    *)
(* tables one after the other.  The connection is in autocommit mode, so   *)
(* that every statement is a transaction of its own and an operation may   *)
(* be cut, or met by another, between any two.                             *)
(*                                                                         *)
(* A row is abstracted to the run and the name it carries.                 *)
(***************************************************************************)
EXTENDS Naturals, Sequences, FiniteSets

CONSTANTS RunIds, RunNames,
          Workers,      \* threads that carry out operations
          MaxRunTasks,  \* operations begun
          MaxRunCuts    \* operations that a storage error or a crash cuts

ASSUME DorisRunsAssumption == MaxRunTasks \in Nat /\ MaxRunCuts \in Nat

VARIABLES rows,      \* per table, the pairs of run and name its rows carry
          task,      \* per worker, the operation it carries out
          mangled,   \* history: runs met by a cut, or by two operations at once
          runTasks, runCuts

dorisRunsVars == <<rows, task, mangled, runTasks, runCuts>>

RunTables == <<"metrics", "configs", "system_metrics", "traces", "alerts",
               "run_artifact_links">>

\* The producer columns of the versions name runs as well.
Evidence == {"metrics", "configs", "system_metrics", "traces", "alerts",
             "run_artifact_links", "artifact_versions"}

Of(table, R) == {e \in rows[table] : e[1] \in R}

\* Faulty variants: the links, or the traces, are left out.
DeleteWithoutLinks == <<"artifact_versions", "metrics", "configs", "system_metrics",
                        "traces", "alerts">>

PurgeWithoutTraces == <<"metrics", "configs", "system_metrics", "alerts",
                        "run_artifact_links", "artifact_versions">>

\* The statements of each operation, as the tables they go to.
StatementsOfDelete == <<"artifact_versions">> \o RunTables

StatementsOfRename == RunTables \o <<"artifact_versions">>

StatementsOfPurge == RunTables \o <<"artifact_versions">>

StatementsOfProject == <<"run_artifact_links", "artifact_versions", "traces", "alerts",
                         "system_metrics", "metrics", "configs">>

\* bulk_log, bulk_log_system, bulk_alert, commit_artifact_version and
\* insert_run_artifact_link.
Writes == {<<"metrics">>, <<"metrics", "traces">>, <<"metrics", "traces", "configs">>,
           <<"system_metrics">>, <<"alerts">>,
           <<"artifact_versions", "run_artifact_links">>, <<"run_artifact_links">>}

Free == [op |-> "none"]

On(tables, R) == [i \in DOMAIN tables |-> <<tables[i], R>>]

\* _resolve_run_id of a name: the runs it may return, or none.
Resolved(n) ==
    LET in(table) == {r \in RunIds : <<r, n>> \in rows[table]} IN
    IF in("metrics") # {} THEN in("metrics") ELSE in("configs")

\* _run_exists.
RunExists(r) == \E table \in Evidence \ {"artifact_versions"} : Of(table, {r}) # {}

\* get_run_records: metrics, and links of runs without metrics.
Listed(r) == Of("metrics", {r}) # {} \/ Of("run_artifact_links", {r}) # {}

DorisRunsInit == /\ rows = [table \in Evidence |-> {}]
                 /\ task = [w \in Workers |-> Free]
                 /\ mangled = {}
                 /\ runTasks = 0
                 /\ runCuts = 0

Begin(w, new) == /\ task[w] = Free
                 /\ runTasks < MaxRunTasks
                 /\ runTasks' = runTasks + 1
                 /\ task' = [task EXCEPT ![w] = new]
                 /\ UNCHANGED <<rows, mangled, runCuts>>

BeginWrite(w, r, n) ==
    \E tables \in Writes : Begin(w, [op |-> "write", runs |-> {r}, name |-> n,
                                     left |-> On(tables, {r}), alone |-> TRUE])

\* delete_run and rename_run by id, or by a name that is resolved first.
BeginDelete(w) ==
    \E R \in {{r} : r \in RunIds} \cup {Resolved(n) : n \in RunNames} :
       \E r \in R : Begin(w, [op |-> "delete", runs |-> {r}, checked |-> FALSE,
                              left |-> On(StatementsOfDelete, {r}), alone |-> TRUE])

BeginRename(w, new) ==
    \E R \in {{r} : r \in RunIds} \cup {Resolved(n) : n \in RunNames} :
       \E r \in R : Begin(w, [op |-> "rename", runs |-> {r}, name |-> new, checked |-> FALSE,
                              left |-> On(StatementsOfRename, {r}), alone |-> TRUE])

\* The operation finds no evidence of the run, or the new name in use.
Refused(w) ==
    \/ task[w].op \in {"delete", "rename"} /\ \A r \in task[w].runs : ~RunExists(r)
    \/ /\ task[w].op = "rename"
       /\ \E r \in RunIds \ task[w].runs : <<r, task[w].name>> \in rows["metrics"]

Check(w) ==
    /\ task[w].op \in {"delete", "rename"}
    /\ ~task[w].checked
    /\ task' = [task EXCEPT ![w] = IF Refused(w) THEN Free ELSE [@ EXCEPT !.checked = TRUE]]
    /\ UNCHANGED <<rows, mangled, runTasks, runCuts>>

\* purge_runs of one or two listed runs (its versions: DorisCatalog).
BeginPurge(w) ==
    \E r, q \in RunIds :
       /\ Listed(r) /\ Listed(q)
       /\ Begin(w, [op |-> "purge", runs |-> {r, q}, alone |-> TRUE,
                    left |-> On(StatementsOfPurge, {r})
                             \o (IF r = q THEN << >> ELSE On(StatementsOfPurge, {q}))])

BeginDeleteProject(w) == Begin(w, [op |-> "project", runs |-> RunIds,
                                   left |-> On(StatementsOfProject, RunIds), alone |-> TRUE])

\* A worker whose next statement is the next of an operation that may run.
Running(w) == /\ task[w] # Free
              /\ task[w].op \in {"delete", "rename"} => task[w].checked

\* The next statement's table, and the runs it is about.
Table(w) == Head(task[w].left)[1]

Subject(w) == Head(task[w].left)[2]

Advanced(w) == IF Len(task[w].left) = 1 THEN Free ELSE [task[w] EXCEPT !.left = Tail(@)]

\* The other workers whose operation is about these runs as well.
Beside(w) == {v \in Workers \ {w} : task[v] # Free /\ task[v].runs \cap Subject(w) # {}}

After(w) == task' = [v \in Workers |-> IF v = w THEN Advanced(w)
                                       ELSE IF v \in Beside(w)
                                       THEN [task[v] EXCEPT !.alone = FALSE]
                                       ELSE task[v]]

Met(w) == mangled' = mangled \cup (IF Beside(w) = {} THEN {} ELSE Subject(w))

\* An INSERT; a run has one config, whose UNIQUE KEY replaces the name.
InsertRows(w) ==
    /\ Running(w)
    /\ task[w].op = "write"
    /\ LET kept == IF Table(w) = "configs" THEN rows["configs"] \ Of("configs", Subject(w))
                   ELSE rows[Table(w)]
       IN rows' = [rows EXCEPT ![Table(w)] = kept \cup (Subject(w) \X {task[w].name})]
    /\ After(w)
    /\ Met(w)
    /\ UNCHANGED <<runTasks, runCuts>>

\* UPDATE ... SET run_name.  It does not end the operations beside it: they
\* add no other name and delete whatever name there is.
UpdateNames(w) ==
    /\ Running(w)
    /\ task[w].op = "rename"
    /\ LET mine == Of(Table(w), Subject(w))
       IN rows' = [rows EXCEPT ![Table(w)] = (@ \ mine)
                                               \cup {<<e[1], task[w].name>> : e \in mine}]
    /\ task' = [v \in Workers |-> IF v = w THEN Advanced(w)
                                  ELSE IF v \in Beside(w) /\ task[v].op = "rename"
                                  THEN [task[v] EXCEPT !.alone = FALSE]
                                  ELSE task[v]]
    /\ Met(w)
    /\ UNCHANGED <<runTasks, runCuts>>

\* DELETE, or the producer columns set to NULL.
DeleteRows(w) ==
    /\ Running(w)
    /\ task[w].op \in {"delete", "purge", "project"}
    /\ rows' = [rows EXCEPT ![Table(w)] = @ \ Of(Table(w), Subject(w))]
    /\ task' = [task EXCEPT ![w] = Advanced(w)]
    /\ Met(w)
    /\ UNCHANGED <<runTasks, runCuts>>

\* A statement of one worker fails, or the server ends with all of them: what
\* was done stays.
CutRunTasks(W) ==
    /\ W # {}
    /\ \A w \in W : task[w] # Free
    /\ runCuts < MaxRunCuts
    /\ runCuts' = runCuts + 1
    /\ mangled' = mangled \cup UNION {task[w].runs : w \in W}
    /\ task' = [w \in Workers |-> IF w \in W THEN Free ELSE task[w]]
    /\ UNCHANGED <<rows, runTasks>>

DorisRunsNext ==
    \/ CutRunTasks({w \in Workers : task[w] # Free})
    \/ \E w \in Workers :
       \/ \E r \in RunIds, n \in RunNames : BeginWrite(w, r, n)
       \/ BeginDelete(w)
       \/ \E n \in RunNames : BeginRename(w, n)
       \/ Check(w)
       \/ BeginPurge(w)
       \/ BeginDeleteProject(w)
       \/ InsertRows(w)
       \/ UpdateNames(w)
       \/ DeleteRows(w)
       \/ CutRunTasks({w})

DorisRunsSpec == DorisRunsInit /\ [][DorisRunsNext]_dorisRunsVars

----------------------------------------------------------------------------
(***************************************************************************)
(* What must hold.                                                         *)
(***************************************************************************)

\* The type invariant: rows are of known runs and names, an operation in hand
\* has statements left, and one name per config row.
DorisRunsTypeOK ==
    /\ rows \in [Evidence -> SUBSET (RunIds \X RunNames)]
    /\ \A w \in Workers : task[w] # Free => /\ task[w].runs \subseteq RunIds
                                            /\ task[w].left # << >>
    /\ \A e, f \in rows["configs"] : e[1] = f[1] => e = f
    /\ mangled \subseteq RunIds

\* Worker w executes its last statement on its runs.
Completes(w) == /\ task[w] # Free
                /\ task[w].op # "write"
                /\ \A i \in 2 .. Len(task[w].left) : task[w].left[i][2] # Subject(w)
                /\ runCuts' = runCuts
                /\ Running(w)
                /\ task'[w] = Advanced(w)

\* What an operation that went through all its tables promises, without a
\* transaction around them: after a deletion that no insert met, nothing names
\* the run; after a renaming that no insert and no other renaming met, every
\* row carries the new name.  Deletions, purges and renamings may meet.
WholeRuns ==
    [][\A w \in Workers : Completes(w) /\ task[w].alone =>
          \A table \in Evidence, r \in Subject(w) :
             LET left == {e \in rows'[table] : e[1] = r} IN
             IF task[w].op = "rename" THEN left \subseteq {<<r, task[w].name>>} ELSE left = {}
      ]_dorisRunsVars

\* Every run whose history can be read is listed: the rows of a run that
\* get_run_records leaves out come from an operation cut half way, from one
\* that met another, or are only system metrics and alerts.
HiddenOnlyIfMangled ==
    \A r \in RunIds :
       /\ Of("configs", {r}) \cup Of("traces", {r}) # {}
       /\ ~Listed(r)
       /\ \A w \in Workers : task[w] # Free => r \notin task[w].runs
       => r \in mangled

=============================================================================
