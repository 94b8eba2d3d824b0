---------------------------- MODULE MCWebUploader ----------------------------
(* A finite instance of WebUploader: one file of two chunks and one of one. *)
EXTENDS WebUploader
CONSTANTS a, b

ChunksMixed == [f \in File |-> IF f = a THEN 2 ELSE 1]
==============================================================================
