--------------------------- MODULE MCBlockingQueue ---------------------------
(* Small instances of BlockingQueue for TLC. *)
EXTENDS BlockingQueue
==============================================================================
