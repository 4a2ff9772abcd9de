------------------------- MODULE MCDoubleBuffering -------------------------
(* The DMA with three buffers, two of which are in use: driven by the        *)
(* program, or alone with a processor that writes anything at any edge, in   *)
(* which case the program stays at its first instruction.                    *)
EXTENDS DoubleBuffering, TLC

CONSTANTS A, B, C

VARIABLE part

MCBuffers == {A, B, C}

MCInit == SystemInit /\ part \in {"program", "anything"}

MCNext ==
  /\ UNCHANGED part
  /\ \/ part = "program" /\ SystemNext
     \/ part = "anything" /\ DMANext /\ UNCHANGED <<softwareVars, asked_between_frames>>

MCSpec ==
  /\ MCInit /\ [][MCNext]_<<part, allVars>>
  /\ DMAFairness /\ WF_allVars(part = "program" /\ ProgramStep)
=============================================================================
