---------------------------- MODULE MCCallRecords ----------------------------
(* CallRecords for the model checker: the types are interchangeable. *)
EXTENDS CallRecords

CONSTANTS missed, outgoing, incoming

Interchangeable == Permutations(RecordType)
=============================================================================
