------------------------------- MODULE MCFleet -------------------------------
(***************************************************************************)
(* TLC instances of Fleet: runs, slots and remote workers are model        *)
(* values, given in the .cfg files.                                        *)
(***************************************************************************)
EXTENDS Fleet
=============================================================================
