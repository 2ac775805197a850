-------------------------- MODULE MCWikiRepository --------------------------
(* Values of the constants for TLC: a short version that two contents share. *)
EXTENDS WikiRepository

CONSTANTS c1, c2, v1

ShortVersions == [c \in Content |-> v1]
=============================================================================
