----------------------------- MODULE MCDatabase -----------------------------
(* Four threads and a pool of two, so that two may have to wait; connections *)
(* enough for those that close() has closed and threads still hold; and one  *)
(* migration, of three statements.                                           *)
EXTENDS Database

MCScript == <<3>>
=============================================================================
