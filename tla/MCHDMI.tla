-------------------------------- MODULE MCHDMI --------------------------------
(* The transmitter: its timing beside the generator's; the encoder of a      *)
(* channel, every byte and every control word in any order; and the          *)
(* serializer behind it, which cares for the order of words and bits and not *)
(* for what they say.  "part" says which of them runs.  (The fairness is the *)
(* timing's, so the liveness properties say nothing of the other parts.)     *)
EXTENDS HDMITiming, TMDSEncoder, TMDSSerializer, TLC

VARIABLE part

CONSTANTS A, B

MCBuffers == {A, B}
MCBytes == 0..255

MCInit ==
  /\ part \in {"timing", "encoder", "serializer"}
  /\ TimingInit /\ EncoderInit /\ SerializerInit
  /\ part # "timing" => CounterX = 0 /\ CounterY = 0
  /\ part # "serializer" => phase = 0

MCNext ==
  /\ UNCHANGED part
  /\ \/ part = "timing" /\ TimingNext /\ UNCHANGED <<encoderVars, serializerVars>>
     \/ part = "encoder" /\ EncoderNext /\ UNCHANGED <<timingVars, serializerVars>>
     \/ part = "serializer" /\ SerializerNext /\ UNCHANGED <<timingVars, encoderVars>>

MCSpec ==
  /\ MCInit /\ [][MCNext]_<<part, timingVars, encoderVars, serializerVars>>
  /\ DisplayFairness
=============================================================================
