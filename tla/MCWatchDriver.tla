--------------------------- MODULE MCWatchDriver ---------------------------
(* Small instances of WatchDriver for TLC. *)
EXTENDS WatchDriver
=============================================================================
