---------------------------- MODULE MCDownloader ----------------------------
(* Small instances of Downloader for TLC. *)
EXTENDS Downloader
=============================================================================
