--------------------------- MODULE MCFragmentInbox ---------------------------
(***************************************************************************)
(* TLC instances of FragmentInbox.                                         *)
(***************************************************************************)
EXTENDS FragmentInbox, TLC

\* Safety: a scalar fragment whose second record has no log_id, and a trace
\* fragment that repeats the entry "a" (a client resent it).
SafetyFragments == 1..2
SafetyRecords   == {"a", "n", "t"}
SafetyContent   == 1 :> {"a", "n"} @@ 2 :> {"a", "t"}
SafetyTraces    == {2}
SafetyTxn       == [r \in SafetyRecords |-> IF r = "a" THEN 0 ELSE 1]
SafetyWithId    == {"a", "t"}

\* Liveness: the trace fragment 1 sorts first and is refused by every import;
\* fragment 3 has no valid record.
LiveFragments == 1..4
LiveContent   == 1 :> {"t"} @@ 2 :> {"a"} @@ 3 :> {} @@ 4 :> {"a", "n"}
LiveTraces    == {1}
=============================================================================
