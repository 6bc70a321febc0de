--------------------------- MODULE MCWatchBackend ---------------------------
(* Instances of WatchBackend for TLC; the bounds are in the cfg files. *)
EXTENDS WatchBackend

=============================================================================
