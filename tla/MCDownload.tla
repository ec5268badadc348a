----------------------------- MODULE MCDownload -----------------------------
(* A window of two blocks and block numbers modulo three.  The first file   *)
(* fits in the window with its end; the second uses every slot and every    *)
(* number twice.                                                            *)
EXTENDS Download

MCBlocks == <<1, 3>>
=============================================================================
