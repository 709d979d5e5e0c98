----------------------------- MODULE ReaderPool -----------------------------
(***************************************************************************)
(* The connections of the database (db/database.py): a fixed-size pool of  *)
(* readers that worker threads take, nest and give back, one connection    *)
(* for writing behind a lock, and close(), which races them all.           *)
(*                                                                         *)
(* A thread runs read() or write(); between two of its steps any other     *)
(* thread may run.  _readers_lock makes the steps that hold it atomic.     *)
(***************************************************************************)
EXTENDS Integers, SequencesExt

CONSTANTS
  Thread,    \* the worker threads, numbers above 0
  Reader,    \* connections, used again once they are closed and let go
  PoolSize,  \* READER_POOL_SIZE
  MaxNest    \* bound on how deep reads or writes are nested

ASSUME PoolAssumption ==
  /\ Thread \subseteq Nat \ {0}
  /\ Reader \subseteq Nat \ {0}
  /\ PoolSize \in Nat \ {0}
  /\ MaxNest \in Nat \ {0}

VARIABLES
  open,       \* the readers whose connection is open
  readers,    \* _readers
  pool,       \* _pool, a stack
  abandoned,  \* the _pool that close() replaced, on which threads may wait
  closed,     \* _closed
  closing,    \* where close() is
  step,       \* [Thread -> where a thread is]
  held,       \* [Thread -> the reader it has, or None]
  local,      \* [Thread -> _local.reader, or None]
  depth,      \* [Thread -> how many reads or writes it is inside]
  deadline,   \* [Reader -> the read whose deadline is set, 0 for none]
  writer,     \* the thread that holds _write_lock, or None
  writeConn,  \* the write connection is open
  tx          \* it is inside a transaction

readSide == <<open, readers, pool, abandoned, held, local, deadline>>
writeSide == <<writer, writeConn, tx>>
poolVars == <<readSide, closed, closing, step, depth, writeSide>>

None == 0

Held == {held[t] : t \in Thread} \ {None}
Pooled == ToSet(pool) \cup ToSet(abandoned)

\* A connection nobody refers to any more.
Unused == Reader \ (open \cup readers \cup Held \cup Pooled)

To(t, s) == step' = [step EXCEPT ![t] = s]

-----------------------------------------------------------------------------
(* _acquire.                                                               *)

\* read(): a read inside a read has its connection already.
Acquire(t) ==
  /\ step[t] = "idle" /\ ~ closed
  /\ To(t, "pick")
  /\ UNCHANGED <<readSide, closed, closing, depth, writeSide>>

\* A reader is handed to a thread, which sets its deadline.
Hand(t, r) ==
  /\ held' = [held EXCEPT ![t] = r]
  /\ local' = [local EXCEPT ![t] = r]
  /\ deadline' = [deadline EXCEPT ![r] = 1]
  /\ depth' = [depth EXCEPT ![t] = 1]
  /\ To(t, "read")

\* The reader given back last, if there is one.
Pick(t) ==
  /\ step[t] = "pick"
  /\ IF pool = <<>>
     THEN To(t, "grow") /\ UNCHANGED <<pool, held, local, deadline, depth>>
     ELSE Hand(t, Last(pool)) /\ pool' = Front(pool)
  /\ UNCHANGED <<open, readers, abandoned, closed, closing, writeSide>>

\* As if the pool grew without looking at its size again.
GrowAlways(t) ==
  /\ step[t] = "grow"
  /\ \E r \in Unused :
       /\ \A q \in Unused : r <= q
       /\ open' = open \cup {r}
       /\ readers' = readers \cup {r}
       /\ Hand(t, r)
  /\ UNCHANGED <<pool, abandoned, closed, closing, writeSide>>

\* A new one, if the pool may grow; to open it may fail.
Grow(t) ==
  /\ step[t] = "grow"
  /\ IF Cardinality(readers) < PoolSize
     THEN \/ \E r \in Unused :
               /\ \A q \in Unused : r <= q
               /\ open' = open \cup {r}
               /\ readers' = readers \cup {r}
               /\ Hand(t, r)
          \/ /\ To(t, "idle")
             /\ UNCHANGED <<open, readers, held, local, deadline, depth>>
     ELSE /\ To(t, "wait")
          /\ UNCHANGED <<open, readers, held, local, deadline, depth>>
  /\ UNCHANGED <<pool, abandoned, closed, closing, writeSide>>

\* Or one that another thread gives back, if it does so in time.
Wait(t) ==
  /\ \/ step[t] = "wait" /\ pool # <<>> /\ Hand(t, Last(pool))
        /\ pool' = Front(pool) /\ UNCHANGED abandoned
     \/ step[t] = "orphan" /\ abandoned # <<>> /\ Hand(t, Last(abandoned))
        /\ abandoned' = Front(abandoned) /\ UNCHANGED pool
  /\ UNCHANGED <<open, readers, closed, closing, writeSide>>

GiveUp(t) ==
  /\ \/ step[t] = "wait" /\ pool = <<>>
     \/ step[t] = "orphan" /\ abandoned = <<>>
  /\ To(t, "idle")
  /\ UNCHANGED <<readSide, closed, closing, depth, writeSide>>

-----------------------------------------------------------------------------
(* Inside a read.                                                          *)

\* A read inside a read reuses the connection, and has a deadline of its own.
NestRead(t) ==
  /\ step[t] = "read" /\ local[t] # None /\ depth[t] < MaxNest
  /\ depth' = [depth EXCEPT ![t] = @ + 1]
  /\ deadline' = [deadline EXCEPT ![local[t]] = depth[t] + 1]
  /\ UNCHANGED <<open, readers, pool, abandoned, held, local, closed, closing, step, writeSide>>

\* As if leaving a read always cleared the deadline.
UnnestReadForgets(t) ==
  /\ step[t] = "read" /\ depth[t] > 1
  /\ depth' = [depth EXCEPT ![t] = @ - 1]
  /\ deadline' = [deadline EXCEPT ![held[t]] = 0]
  /\ UNCHANGED <<open, readers, pool, abandoned, held, local, closed, closing, step, writeSide>>

\* The inner read is over, whether it succeeded or was interrupted: the outer
\* one has its deadline back.
UnnestRead(t) ==
  /\ step[t] = "read" /\ depth[t] > 1
  /\ depth' = [depth EXCEPT ![t] = @ - 1]
  /\ deadline' = [deadline EXCEPT ![held[t]] = depth[t] - 1]
  /\ UNCHANGED <<open, readers, pool, abandoned, held, local, closed, closing, step, writeSide>>

\* The outermost read is over: the reader is given back.
FinishRead(t) ==
  /\ step[t] = "read" /\ depth[t] = 1
  /\ depth' = [depth EXCEPT ![t] = 0]
  /\ deadline' = [deadline EXCEPT ![held[t]] = 0]
  /\ local' = [local EXCEPT ![t] = None]
  /\ To(t, "release")
  /\ UNCHANGED <<open, readers, pool, abandoned, held, closed, closing, writeSide>>

\* As if a reader went back to the pool without a look at _closed.
ReleaseAlways(t) ==
  /\ step[t] = "release"
  /\ To(t, "put")
  /\ UNCHANGED <<readSide, closed, closing, depth, writeSide>>

\* _release: a closed database has no pool to go back to.
Release(t) ==
  /\ step[t] = "release"
  /\ IF closed
     THEN /\ open' = open \ {held[t]}
          /\ held' = [held EXCEPT ![t] = None]
          /\ To(t, "idle")
     ELSE To(t, "put") /\ UNCHANGED <<open, held>>
  /\ UNCHANGED <<readers, pool, local, deadline, abandoned, closed, closing, depth, writeSide>>

Put(t) ==
  /\ step[t] = "put"
  /\ pool' = Append(pool, held[t])
  /\ held' = [held EXCEPT ![t] = None]
  /\ To(t, "idle")
  /\ UNCHANGED <<open, readers, local, deadline, abandoned, closed, closing, depth, writeSide>>

-----------------------------------------------------------------------------
(* Inside a write.                                                         *)

\* write(): the lock, and a transaction.
BeginWrite(t) ==
  /\ step[t] = "idle" /\ writer = None /\ writeConn
  /\ writer' = t /\ tx' = TRUE
  /\ depth' = [depth EXCEPT ![t] = 1]
  /\ To(t, "write")
  /\ UNCHANGED <<readSide, closed, closing, writeConn>>

\* A write inside a write joins its transaction.
NestWrite(t) ==
  /\ step[t] = "write" /\ depth[t] < MaxNest
  /\ depth' = [depth EXCEPT ![t] = @ + 1]
  /\ UNCHANGED <<readSide, closed, closing, step, writeSide>>

UnnestWrite(t) ==
  /\ step[t] = "write" /\ depth[t] > 1
  /\ depth' = [depth EXCEPT ![t] = @ - 1]
  /\ UNCHANGED <<readSide, closed, closing, step, writeSide>>

\* Commit or roll back, and the lock is free.
FinishWrite(t) ==
  /\ step[t] = "write" /\ depth[t] = 1
  /\ writer' = None /\ tx' = FALSE
  /\ depth' = [depth EXCEPT ![t] = 0]
  /\ To(t, "idle")
  /\ UNCHANGED <<readSide, closed, closing, writeConn>>

-----------------------------------------------------------------------------
(* close().                                                                *)

MarkClosed ==
  /\ closing = "open"
  /\ closed' = TRUE
  /\ closing' = "marked"
  /\ UNCHANGED <<readSide, step, depth, writeSide>>

\* Under _readers_lock: every connection, in use or not.
CloseReaders ==
  /\ closing = "marked"
  /\ open' = open \ readers
  /\ readers' = {}
  /\ closing' = "readers closed"
  /\ UNCHANGED <<pool, held, local, deadline, abandoned, closed, step, depth, writeSide>>

\* A new pool and new thread-local state; who waits, waits on the old pool.
ReplacePool ==
  /\ closing = "readers closed"
  /\ pool' = <<>> /\ abandoned' = pool
  /\ step' = [t \in Thread |-> IF step[t] = "wait" THEN "orphan" ELSE step[t]]
  /\ local' = [t \in Thread |-> None]
  /\ closing' = "pool replaced"
  /\ UNCHANGED <<open, readers, held, deadline, closed, depth, writeSide>>

\* The write connection, once nobody writes.
CloseWriter ==
  /\ closing = "pool replaced" /\ writer = None
  /\ writeConn' = FALSE
  /\ closing' = "closed"
  /\ UNCHANGED <<readSide, closed, step, depth, writer, tx>>

-----------------------------------------------------------------------------
PoolInit ==
  /\ open = {} /\ readers = {} /\ pool = <<>> /\ abandoned = <<>>
  /\ closed = FALSE /\ closing = "open"
  /\ step = [t \in Thread |-> "idle"]
  /\ held = [t \in Thread |-> None] /\ local = [t \in Thread |-> None]
  /\ depth = [t \in Thread |-> 0]
  /\ deadline = [r \in Reader |-> 0]
  /\ writer = None /\ writeConn = TRUE /\ tx = FALSE

PoolNext ==
  \/ \E t \in Thread :
       \/ Acquire(t) \/ Pick(t) \/ Grow(t) \/ Wait(t) \/ GiveUp(t)
       \/ NestRead(t) \/ UnnestRead(t) \/ FinishRead(t) \/ Release(t) \/ Put(t)
       \/ BeginWrite(t) \/ NestWrite(t) \/ UnnestWrite(t) \/ FinishWrite(t)
  \/ MarkClosed \/ CloseReaders \/ ReplacePool \/ CloseWriter

-----------------------------------------------------------------------------
(* Properties.                                                             *)

Step == {"idle", "pick", "grow", "wait", "orphan", "read", "release", "put", "write"}

\* Threads, connections and locks are in states that go together: a thread has
\* a reader from the hand-over to the release, and is nested within bounds.
PoolTypeOK ==
  /\ open \subseteq Reader /\ readers \subseteq Reader
  /\ pool \in Seq(Reader) /\ abandoned \in Seq(Reader)
  /\ closed \in BOOLEAN /\ (closed <=> closing # "open")
  /\ step \in [Thread -> Step]
  /\ held \in [Thread -> Reader \cup {None}] /\ local \in [Thread -> Reader \cup {None}]
  /\ depth \in [Thread -> 0..MaxNest] /\ deadline \in [Reader -> 0..MaxNest]
  /\ \A t \in Thread :
       /\ held[t] # None <=> step[t] \in {"read", "release", "put"}
       /\ depth[t] > 0 <=> step[t] \in {"read", "write"}
       /\ writer = t <=> step[t] = "write"
       /\ local[t] \in {None, held[t]}
  /\ tx <=> writer # None
  /\ writer \in Thread \cup {None} /\ writeConn \in BOOLEAN

\* The connections are those of the pool and those threads have, none twice
\* and none lost, and never more than the pool may have, whatever the threads
\* do ("A pool makes the count a constant"); so a thread that gives up waiting
\* is right that every one of them is held by a read.
ReadersAccounted ==
  /\ Cardinality(open) <= PoolSize
  /\ \A t, u \in Thread : held[t] = held[u] /\ held[t] # None => t = u
  /\ Held \cap Pooled = {}
  /\ ~ closed => IsInjective(pool) /\ readers = open /\ open = Held \cup Pooled

\* Every read that runs on a connection runs against its own deadline, an outer
\* one again once the inner one is over, and a connection that is handed on
\* carries none ("The deadline belongs to the query, not to the pooled
\* connection").
DeadlineIsOfTheRead ==
  \A r \in Reader :
    deadline[r] =
      IF \E t \in Thread : held[t] = r /\ step[t] = "read"
      THEN depth[CHOOSE t \in Thread : held[t] = r]
      ELSE 0

\* Once close() is through and the threads have let go, no connection is left
\* open, although readers were opened and given back while it ran; and the
\* write connection is never closed under a transaction.
NothingLeaks ==
  /\ tx => writeConn
  /\ closing = "closed" /\ Held = {} => open = {}
=============================================================================
