------------------------------ MODULE Startup ------------------------------
(***************************************************************************)
(* The start of the add-on up to the moment it serves requests: the schema *)
(* is migrated (db/migrations.py) and seeded (runtime.py), statement by    *)
(* statement, and the process may die between any two of them.             *)
(*                                                                         *)
(* executescript() commits whatever transaction is open before it runs a   *)
(* script, and each statement of the script then commits by itself.        *)
(***************************************************************************)
EXTENDS Integers, Sequences

CONSTANT Script  \* MIGRATIONS: how many statements the script of a version has

ASSUME StartupAssumption == Script \in Seq(Nat \ {0})

VARIABLES
  version,    \* on disk: PRAGMA user_version
  objects,    \* on disk: what the statements have created
  seeded,     \* on disk: the built-in tags and the first revision are there
  phase,      \* where the start is
  migrated,   \* the version migrate() has got to
  statement   \* how many statements of the script have been run

disk == <<version, objects, seeded>>
startupVars == <<disk, phase, migrated, statement>>

Latest == Len(Script)

\* The objects the schema of a version consists of: one for each statement of
\* the scripts up to it.
Schema(v) == UNION {{u} \X (1..Script[u]) : u \in 1..v}

-----------------------------------------------------------------------------
\* The process is started: it reads the version on disk.
Boot ==
  /\ phase = "down"
  /\ phase' = "migrate"
  /\ migrated' = version
  /\ statement' = 0
  /\ UNCHANGED disk

\* As if the version was set before the script is run.
StartScriptAndVersion ==
  /\ phase = "migrate" /\ migrated < Latest
  /\ phase' = "script"
  /\ statement' = 0
  /\ version' = migrated + 1
  /\ UNCHANGED <<objects, seeded, migrated>>

\* BEGIN, and the script of the next version; its transaction ends with the
\* first thing executescript() does.
StartScript ==
  /\ phase = "migrate" /\ migrated < Latest
  /\ phase' = "script"
  /\ statement' = 0
  /\ UNCHANGED <<disk, migrated>>

\* A CREATE fails if the object exists.  The handler's ROLLBACK fails as well,
\* there being no transaction, and the start with it.
RunStatement ==
  /\ phase = "script" /\ statement < Script[migrated + 1]
  /\ IF <<migrated + 1, statement + 1>> \in objects
     THEN phase' = "down" /\ UNCHANGED <<objects, statement>>
     ELSE /\ objects' = objects \cup {<<migrated + 1, statement + 1>>}
          /\ statement' = statement + 1
          /\ UNCHANGED phase
  /\ UNCHANGED <<version, seeded, migrated>>

\* The version is set when the script is through.
SetVersion ==
  /\ phase = "script" /\ statement = Script[migrated + 1]
  /\ version' = migrated + 1
  /\ migrated' = migrated + 1
  /\ phase' = "migrate"
  /\ UNCHANGED <<objects, seeded, statement>>

\* Tags and revision are seeded in one transaction, and the engine is built.
Seed ==
  /\ phase = "migrate" /\ migrated = Latest
  /\ seeded' = TRUE
  /\ phase' = "serving"
  /\ UNCHANGED <<version, objects, migrated, statement>>

\* The process dies, or is stopped.
Stop ==
  /\ phase # "down"
  /\ phase' = "down"
  /\ UNCHANGED <<disk, migrated, statement>>

-----------------------------------------------------------------------------
StartupInit ==
  /\ version = 0 /\ objects = {} /\ seeded = FALSE
  /\ phase = "down" /\ migrated = 0 /\ statement = 0

\* A start, as long as nothing stops it.
StartStep == Boot \/ StartScript \/ RunStatement \/ SetVersion \/ Seed

-----------------------------------------------------------------------------
(* Properties.                                                             *)

\* The add-on serves requests on the whole schema of the latest version and on
\* seeded tables only, and the version on disk is never ahead of the tables,
\* however often a start was cut short.
ServesWholeSchema ==
  /\ version \in 0..Latest /\ migrated \in 0..Latest
  /\ Schema(version) \subseteq objects
  /\ phase = "serving" => version = Latest /\ objects = Schema(Latest) /\ seeded
=============================================================================
