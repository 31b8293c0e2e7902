--------------------------- MODULE MCBlockUploader ---------------------------
(* Small instances of BlockUploader for TLC. *)
EXTENDS BlockUploader, TLC

\* The workers run the same code; used by runs without liveness only.
Symmetry == Permutations(Workers)
==============================================================================
