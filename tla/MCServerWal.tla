---------------------------- MODULE MCServerWal ----------------------------
(* ServerWal under TLC: the .cfg files say who may overlap, and how often   *)
(* each kind of event happens.                                             *)
EXTENDS ServerWal
=============================================================================
