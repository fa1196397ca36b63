---------------------------- MODULE MCVoiceTones ----------------------------
(* VoiceTones for the model checker: the bounds are in the configuration. *)
EXTENDS VoiceTones
=============================================================================
