--------------------------- MODULE MCWatchFolders ---------------------------
(***************************************************************************)
(* WatchFolders instances: two old files whose ingest always fails, a      *)
(* placeholder, and a file that may not be ingested.                       *)
(***************************************************************************)
EXTENDS WatchFolders
MCCloud == {3}
MCBroken == {1, 2}
MCUnfit == {4}
=============================================================================
