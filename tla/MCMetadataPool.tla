---------------------------- MODULE MCMetadataPool ----------------------------
(***************************************************************************)
(* Values for model-checking MetadataPool.                                 *)
(***************************************************************************)
EXTENDS MetadataPool

CONSTANTS c1, c2, c3, s1, s2

TwoAndOne == [c \in Calls |-> IF c = c3 /\ s2 \in Sessions THEN s2 ELSE s1]
=============================================================================
