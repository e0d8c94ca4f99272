--------------------------- MODULE MCEmbeddedWal ----------------------------
(* EmbeddedWal under TLC: the callers are model values, interchangeable     *)
(* where only invariants are checked; the .cfg files choose how often each  *)
(* kind of event happens.                                                   *)
EXTENDS EmbeddedWal

CONSTANT Pursued   \* bound: mishaps whose consequences are explored

\* Behaviours are followed up to the first mishap that is not Pursued.
Pursuing == mishaps \subseteq Pursued

\* Callers are interchangeable (used by the safety runs only).
CallerSymmetry == Permutations(Callers)
=============================================================================
