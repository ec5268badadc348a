---------------------------- MODULE MCGamestate ----------------------------
(* Two levels, a change of configstrings in between, and room for three    *)
(* gamestates and the snapshots around them.                               *)
EXTENDS Gamestate
=============================================================================
