--------------------------- MODULE MCAzureAppendSink ---------------------------
(* Small instances of AzureAppendSink for TLC. *)
EXTENDS AzureAppendSink
==============================================================================
