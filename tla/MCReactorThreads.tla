-------------------------- MODULE MCReactorThreads --------------------------
(* ReactorThreads for the model checker: a lookup, and a job that calls back *)
(* into the reactor and waits for the answer.                                *)
EXTENDS ReactorThreads
CONSTANTS j2, j3
=============================================================================
