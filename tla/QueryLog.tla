------------------------------ MODULE QueryLog ------------------------------
(***************************************************************************)
(* What the rest of the application may rely on of the stored query log,   *)
(* whatever tables, counters and indexes the store keeps beside it: a set  *)
(* of records that grows by whole batches, loses the oldest expired        *)
(* records when the retention window is enforced, and loses everything a   *)
(* device did when that device is forgotten.  Nothing else ever happens to *)
(* it.  LogStore implements this specification; ApiIngest is built on it.  *)
(***************************************************************************)
EXTENDS Integers, FiniteSets

CONSTANTS
  Record,     \* the query log records (a record is known by its uid)
  Client,     \* the client addresses that send queries
  TsOf,       \* [Record -> Nat]: when the query was made, in nanoseconds
  ClientOf,   \* [Record -> Client]: who made it
  Cutoff      \* the retention cut-offs a cleanup may be asked to enforce

ASSUME RecordAssumption ==
  /\ IsFiniteSet(Record)
  /\ TsOf \in [Record -> Nat]
  /\ ClientOf \in [Record -> Client]
  /\ Cutoff \subseteq Nat

VARIABLE queries     \* the records that are stored

Expired(cutoff) == {u \in queries : TsOf[u] < cutoff}

Empty == queries = {}

Import(batch) == queries' = queries \cup batch

\* A cleanup drops a part of the expired records: the oldest ones.
Expire(cutoff) ==
  \E gone \in SUBSET Expired(cutoff) :
    /\ \A u \in gone, v \in Expired(cutoff) \ gone : TsOf[u] <= TsOf[v]
    /\ queries' = queries \ gone

Forget(c) == queries' = {u \in queries : ClientOf[u] # c}

Change ==
  \/ \E batch \in SUBSET Record : Import(batch)
  \/ \E cutoff \in Cutoff : Expire(cutoff)
  \/ \E c \in Client : Forget(c)

Spec == Empty /\ [][Change]_queries
=============================================================================
