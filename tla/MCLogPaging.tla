---------------------------- MODULE MCLogPaging ----------------------------
(* Records of two devices, and a filter that lets one device through.  One  *)
(* row to a page, so that the end of the log is several pages away.         *)
EXTENDS LogPaging

MCOwnerOf == [u \in Record |-> IF u % 2 = 0 THEN "phone" ELSE "tv"]
MCMatches == [f \in Filter |->
  IF f = "all" THEN Record ELSE {u \in Record : u % 2 = 1}]
=============================================================================
