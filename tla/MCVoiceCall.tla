----------------------------- MODULE MCVoiceCall -----------------------------
(* VoiceCall for the model checker: the bounds are in the configurations. *)
EXTENDS VoiceCall
=============================================================================
