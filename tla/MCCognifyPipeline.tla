------------------------ MODULE MCCognifyPipeline ------------------------
(***************************************************************************)
(* Values for TLC: two inputs, the first cut into two chunks, the second   *)
(* into one.                                                               *)
(***************************************************************************)
EXTENDS CognifyPipeline, TLC

CONSTANTS p1, p2

MCParent == {p1, p2}
MCChunkCount == p1 :> 2 @@ p2 :> 1
=============================================================================
