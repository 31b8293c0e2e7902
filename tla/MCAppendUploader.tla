--------------------------- MODULE MCAppendUploader ---------------------------
(* Small instances of AppendUploader for TLC. *)
EXTENDS AppendUploader
==============================================================================
