--------------------------- MODULE MCReplication ----------------------------
(***************************************************************************)
(* Replication under TLC: the .cfg files choose the receivers and how      *)
(* often each kind of event happens.                                       *)
(***************************************************************************)
EXTENDS Replication

CONSTANT Pursued   \* bound: mishaps whose consequences are explored

\* A behaviour is followed up to the first mishap that is not pursued.
Pursuing == mishaps \subseteq Pursued
=============================================================================
