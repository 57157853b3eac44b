--------------------------- MODULE DurableJournal ---------------------------
(***************************************************************************)
(* What the fragment inbox promises, independent of files, threads and     *)
(* crashes: a record accepted into the journal stays there until the       *)
(* database holds it.  The contract is the module docstring of             *)
(* trackio/fragments.py, read through import_claimed_fragments: "fragments *)
(* are deleted only after a successful import".                            *)
(***************************************************************************)
CONSTANT Records

VARIABLES
  journal,   \* records some fragment file still carries
  table      \* records the project database holds

vars == <<journal, table>>

Init == journal = {} /\ table = {}

\* A writer makes a fragment visible.
Accept(S) ==
  /\ journal' = journal \cup S
  /\ UNCHANGED table

\* One storage transaction commits records that the journal carries.
Import(S) ==
  /\ S \subseteq journal
  /\ table' = table \cup S
  /\ UNCHANGED journal

\* A fragment is deleted: only records of the table may leave the journal.
Trim(S) ==
  /\ S \subseteq table
  /\ journal' = journal \ S
  /\ UNCHANGED table

Next == \E S \in SUBSET Records : Accept(S) \/ Import(S) \/ Trim(S)

Spec == Init /\ [][Next]_vars
=============================================================================
