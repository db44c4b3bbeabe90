------------------------- MODULE MCSessionDirectory -------------------------
(* A small instance of SessionDirectory: its sessions and clients are      *)
(* model values given in the configurations.                               *)
EXTENDS SessionDirectory, TLC

CONSTANTS s1, c1, c2
=============================================================================
