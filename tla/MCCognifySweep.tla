-------------------------- MODULE MCCognifySweep --------------------------
(***************************************************************************)
(* Values for TLC: one input of two chunks, one of a single chunk.         *)
(***************************************************************************)
EXTENDS CognifySweep, TLC

CONSTANTS p1, p2

MCParent == {p1, p2}
MCChunkCount == p1 :> 2 @@ p2 :> 1

OneParent == {p1}
TwoChunks == p1 :> 2
=============================================================================
