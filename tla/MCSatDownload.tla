--------------------------- MODULE MCSatDownload ---------------------------
(* One SAT download job with the workers and packages of the cfg. *)
EXTENDS SatDownload, TLC
=============================================================================
