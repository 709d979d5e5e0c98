------------------------------ MODULE Database ------------------------------
(***************************************************************************)
(* The life of the database in one process after another: the start        *)
(* (Startup), and the threads that read and write once it is through       *)
(* (ReaderPool), up to close() or a crash, after which only what is on     *)
(* disk is left and the next process starts with it.                       *)
(***************************************************************************)
EXTENDS ReaderPool, Startup

databaseVars == <<poolVars, startupVars>>

Start == StartStep /\ UNCHANGED poolVars

\* Threads run once the add-on serves requests (the read that built the engine
\* leaves a reader in the pool, as the first read of a thread does here).
Serve == phase = "serving" /\ PoolNext /\ UNCHANGED startupVars

\* The process ends, after close() or without it; a transaction it was in is
\* rolled back when the file is next opened.
EndProcess ==
  /\ Stop
  /\ open' = {} /\ readers' = {} /\ pool' = <<>> /\ abandoned' = <<>>
  /\ closed' = FALSE /\ closing' = "open"
  /\ step' = [t \in Thread |-> "idle"]
  /\ held' = [t \in Thread |-> None] /\ local' = [t \in Thread |-> None]
  /\ depth' = [t \in Thread |-> 0]
  /\ deadline' = [r \in Reader |-> 0]
  /\ writer' = None /\ writeConn' = TRUE /\ tx' = FALSE

Next == Start \/ Serve \/ EndProcess

Init == PoolInit /\ StartupInit

DatabaseSpec == Init /\ [][Next]_databaseVars
=============================================================================
