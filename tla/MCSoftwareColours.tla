-------------------------- MODULE MCSoftwareColours --------------------------
(* Colours of three bytes whose channels are off or full. *)
EXTENDS SoftwareColours, TLC

MCColours24 == {r * 2^16 + g * 2^8 + b : r, g, b \in {0, 255}}
=============================================================================
