----------------------------- MODULE MCFileTail -----------------------------
(* Four lines; a chunk is a line and a half, so that chunks end inside a    *)
(* line, and a fingerprint covers a line and a half of the file at most.    *)
EXTENDS FileTail
=============================================================================
