------------------------- MODULE MCServiceGenerations -------------------------
(* Small instances of ServiceGenerations. *)
EXTENDS ServiceGenerations, TLC

Symmetry == Permutations(Thread) \cup Permutations(Session) \cup Permutations(Gen)
=============================================================================
