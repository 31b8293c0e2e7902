--------------------------- MODULE MCAzureBlockSink ---------------------------
(* Small instances of AzureBlockSink for TLC. *)
EXTENDS AzureBlockSink, TLC

\* The workers run the same code.
Symmetry == Permutations(Workers)
==============================================================================
