-------------------------- MODULE MCDownloaderCURL --------------------------
(***************************************************************************)
(* DownloaderCURL on small instances.                                      *)
(***************************************************************************)
EXTENDS DownloaderCURL
=============================================================================
