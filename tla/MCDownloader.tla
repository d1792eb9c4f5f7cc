----------------------------- MODULE MCDownloader -----------------------------
(* Small instances of Downloader for TLC. *)
EXTENDS Downloader, TLC

CONSTANTS g1, g2, g3
=============================================================================
