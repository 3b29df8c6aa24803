------------------------------ MODULE MCMgMerge ------------------------------
(* Instances of MgMerge for TLC. *)
EXTENDS MgMerge

CONSTANTS mail, news   \* the collections, model values
==============================================================================
