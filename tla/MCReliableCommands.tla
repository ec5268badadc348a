------------------------ MODULE MCReliableCommands ------------------------
(* Rings of two commands: the window fills after two, and every slot is     *)
(* reused within a few commands.                                            *)
EXTENDS ReliableCommands
=============================================================================
