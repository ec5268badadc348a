----------------------------- MODULE MCNetchan -----------------------------
(* Three messages of up to two full fragments.  Fragments of two units let *)
(* a message be shorter than a fragment, end with a partial one or end     *)
(* with an empty one.                                                      *)
EXTENDS Netchan
=============================================================================
