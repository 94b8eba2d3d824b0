---------------------------- MODULE MCFileUploadPage ----------------------------
(* A finite instance of FileUploadPage. *)
EXTENDS FileUploadPage
CONSTANTS a, b, c, x

ChunksOne == [f \in File |-> 1]
================================================================================
