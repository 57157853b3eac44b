----------------------------- MODULE MCRunSender -----------------------------
(***************************************************************************)
(* TLC instances of RunSender.                                             *)
(***************************************************************************)
EXTENDS RunSender, TLC

\* Two runs of one project on the Space "A", a sync to it, and a local run.
MCOwner == [e \in Entries |-> CASE e \in {1, 2} -> "r1" [] e = 3 -> "r2" [] OTHER -> "l"]
MCKind  == [e \in Entries |-> CASE e = 2 -> "alert" [] e = 4 -> "system" [] OTHER -> "metric"]
MCDest  == [a \in Actors |-> IF a = "l" THEN "local" ELSE "A"]

\* The runs log to two Spaces.
MCDest2 == [a \in Actors |-> IF a = "r1" THEN "A" ELSE "B"]
=============================================================================
