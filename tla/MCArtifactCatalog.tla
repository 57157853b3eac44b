-------------------------- MODULE MCArtifactCatalog --------------------------
(***************************************************************************)
(* TLC instances of ArtifactCatalog: two manifests that share the blob     *)
(* "d1", so that a purge of either has a blob to keep and one to delete.   *)
(***************************************************************************)
EXTENDS ArtifactCatalog, TLC

MCManifests == {"m1", "m2"}
MCDigests   == {"d1", "d2"}
MCBlobs     == "m1" :> {"d1"} @@ "m2" :> {"d1", "d2"}
MCPassed    == "m1" :> {"latest"} @@ "m2" :> {}
MCSymmetry  == Permutations(Runs)
=============================================================================
