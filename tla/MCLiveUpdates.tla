--------------------------- MODULE MCLiveUpdates ---------------------------
(* Two connections, so that a new one is open while the server has yet to   *)
(* notice that the last one is gone, and one list.                          *)
EXTENDS LiveUpdates
=============================================================================
