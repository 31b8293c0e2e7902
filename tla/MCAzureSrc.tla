------------------------------ MODULE MCAzureSrc ------------------------------
(* Small instances of AzureSrc for TLC. *)
EXTENDS AzureSrc
==============================================================================
