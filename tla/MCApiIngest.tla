---------------------------- MODULE MCApiIngest ----------------------------
(* The records of two devices, two of them not readable, the newest among    *)
(* them.  With one record to a page and three pages to a poll, a backlog of  *)
(* four runs the forward pass out of its budget.  One unreadable record on   *)
(* top of the log leaves the backfill a page, so that it takes two polls to  *)
(* walk back the rest; two on top leave it none.                             *)
EXTENDS ApiIngest

FiveTimes == <<1, 2, 3, 4, 5>>
FiveClients == <<"phone", "tv", "tv", "tv", "tv">>
FiveReadable == {1, 2, 4}
=============================================================================
