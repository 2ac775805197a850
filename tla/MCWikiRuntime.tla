---------------------------- MODULE MCWikiRuntime ----------------------------
(* Values of the constants for TLC: the batches of an instance. *)
EXTENDS WikiRuntime

CONSTANTS d1, d2, c1, v1

ShortVersions == [c \in Content |-> v1]
Singles == {<<d>> : d \in Doc}
PairOrSingle == {<<d1, d2>>, <<d1>>}
=============================================================================
