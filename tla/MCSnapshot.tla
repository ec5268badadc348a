---------------------------- MODULE MCSnapshot ----------------------------
(* Frame rings of four with two usable distances, three common snapshots   *)
(* over three stored entities, and two levels.                             *)
EXTENDS Snapshot
=============================================================================
