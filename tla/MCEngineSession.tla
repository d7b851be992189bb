--------------------------- MODULE MCEngineSession ---------------------------
(* Small instances of EngineSession: two output paths are interchangeable. *)
EXTENDS EngineSession, TLC

PathSymmetry == Permutations(Paths)
=============================================================================
