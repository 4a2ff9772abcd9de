---------------------------- MODULE MCColourPath ----------------------------
(* Every colour a pixel in memory may have. *)
EXTENDS ColourPath, TLC

MCColours == 0..2^16-1
=============================================================================
