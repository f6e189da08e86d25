--------------------------- MODULE MCAudioControl ---------------------------
(* Model-checking instances of AudioControl. *)
EXTENDS AudioControl

CONSTANTS speaker, fixed, microphone

SpeakerAndFixed == {speaker, fixed}
OneSpeaker == {speaker}
OneMicrophone == {microphone}
BelowInAndAbove == {-1, 1, 4}
OneStep == {1}
=============================================================================
