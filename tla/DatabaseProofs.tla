--------------------------- MODULE DatabaseProofs ---------------------------
(***************************************************************************)
(* Proofs about Database, for any threads and connections, any size of the *)
(* pool, any depth of nesting and any migrations.                          *)
(***************************************************************************)
EXTENDS Database, FiniteSetTheorems, TLAPS

(* The inductive invariant.                                                *)

\* Connections are where they may be.
Places ==
  /\ open \subseteq Reader /\ readers \subseteq Reader
  /\ pool \in Seq(Reader) /\ abandoned \in Seq(Reader)
  /\ deadline \in [Reader -> 0..MaxNest]

\* close() has marked the database first of all, and a transaction has a thread.
Flags ==
  /\ closing \in {"open", "marked", "readers closed", "pool replaced", "closed"}
  /\ closed \in BOOLEAN /\ (closed <=> closing # "open")
  /\ tx <=> writer # None
  /\ writeConn \in BOOLEAN

\* What a thread has goes with where it is; outside a read it has no reader to
\* nest in.
Threads ==
  /\ step \in [Thread -> Step]
  /\ held \in [Thread -> Reader \cup {None}] /\ local \in [Thread -> Reader \cup {None}]
  /\ depth \in [Thread -> 0..MaxNest]
  /\ writer \in Thread \cup {None}
  /\ \A t \in Thread :
       /\ held[t] # None <=> step[t] \in {"read", "release", "put"}
       /\ depth[t] > 0 <=> step[t] \in {"read", "write"}
       /\ writer = t <=> step[t] = "write"
       /\ local[t] \in {None, held[t]}
       /\ step[t] # "read" => local[t] = None

Wired == Places /\ Flags /\ Threads

\* No connection is in two places.
Apart ==
  /\ \A t, u \in Thread : held[t] = held[u] /\ held[t] # None => t = u
  /\ Held \cap Pooled = {}
  /\ ToSet(pool) \cap ToSet(abandoned) = {}
  /\ IsInjective(pool) /\ IsInjective(abandoned)

\* The list of readers bounds the connections that are open; until close() it
\* is those connections.
Counted ==
  /\ IsFiniteSet(readers) /\ Cardinality(readers) <= PoolSize
  /\ open \subseteq readers
  /\ ~ closed => readers = open /\ open = Held \cup Pooled

\* The deadline on a connection is that of the read that runs on it.
Deadlines ==
  /\ \A t \in Thread : step[t] = "read" => deadline[held[t]] = depth[t]
  /\ \A r \in Reader :
       (\A t \in Thread : step[t] = "read" => held[t] # r) => deadline[r] = 0

\* Once close() has closed the readers, what is open was opened since, by a
\* thread that will find the database closed when it gives its reader back.
ClosingDown ==
  /\ tx => writeConn
  /\ closing \notin {"open", "marked"} =>
       \A r \in open : \E t \in Thread : held[t] = r /\ step[t] \in {"read", "release"}

PoolInv == Wired /\ Apart /\ Counted /\ Deadlines /\ ClosingDown

-----------------------------------------------------------------------------
(* Stacks.                                                                 *)

\* Taking the last element of a sequence without repetitions removes it from
\* its elements.
LEMMA Popped ==
  ASSUME NEW s \in Seq(Reader), s # <<>>, IsInjective(s)
  PROVE  /\ Last(s) \in Reader /\ Last(s) \in ToSet(s)
         /\ Front(s) \in Seq(Reader) /\ IsInjective(Front(s))
         /\ ToSet(Front(s)) = ToSet(s) \ {Last(s)}
<1>1. Len(s) \in Nat \ {0} /\ DOMAIN s = 1..Len(s)
  OBVIOUS
<1>2. /\ Front(s) \in Seq(Reader)
      /\ DOMAIN Front(s) = 1..(Len(s) - 1)
      /\ \A i \in 1..(Len(s) - 1) : Front(s)[i] = s[i]
  BY <1>1 DEF Front
<1>3. Last(s) = s[Len(s)] /\ Last(s) \in Reader /\ Last(s) \in ToSet(s)
  <2>1. Len(s) \in DOMAIN s /\ s[Len(s)] \in Reader
    BY <1>1
  <2>. QED
    BY <2>1 DEF Last, ToSet
<1>4. IsInjective(Front(s))
  BY <1>1, <1>2 DEF IsInjective
<1>5. ToSet(Front(s)) = ToSet(s) \ {Last(s)}
  <2>1. ASSUME NEW x \in ToSet(Front(s)) PROVE x \in ToSet(s) /\ x # Last(s)
    <3>1. PICK i \in 1..(Len(s) - 1) : x = s[i]
      BY <1>2 DEF ToSet
    <3>2. i \in 1..Len(s) /\ Len(s) \in 1..Len(s) /\ i # Len(s)
      <4>. DEFINE n == Len(s)
      <4>1. n \in Nat \ {0} /\ i \in 1..(n - 1)
        BY <1>1
      <4>. HIDE DEF n
      <4>2. i \in 1..n /\ n \in 1..n /\ i # n
        BY <4>1
      <4>. QED
        BY <4>2 DEF n
    <3>3. i \in DOMAIN s /\ Len(s) \in DOMAIN s
      BY <1>1, <3>2
    <3>. QED
      BY <1>3, <3>1, <3>2, <3>3 DEF ToSet, IsInjective
  <2>2. ASSUME NEW x \in ToSet(s), x # Last(s) PROVE x \in ToSet(Front(s))
    <3>1. PICK i \in 1..Len(s) : x = s[i]
      BY <1>1 DEF ToSet
    <3>2. i \in 1..(Len(s) - 1)
      BY <1>1, <1>3, <2>2, <3>1
    <3>. QED
      BY <1>2, <3>1, <3>2 DEF ToSet
  <2>. QED
    BY <2>1, <2>2
<1>. QED
  BY <1>2, <1>3, <1>4, <1>5

\* Putting a new element on top adds it to the elements.
LEMMA Pushed ==
  ASSUME NEW s \in Seq(Reader), IsInjective(s), NEW r \in Reader, r \notin ToSet(s)
  PROVE  /\ Append(s, r) \in Seq(Reader) /\ IsInjective(Append(s, r))
         /\ ToSet(Append(s, r)) = ToSet(s) \cup {r}
<1>1. /\ Append(s, r) \in Seq(Reader) /\ Len(s) \in Nat
      /\ DOMAIN s = 1..Len(s) /\ DOMAIN Append(s, r) = 1..(Len(s) + 1)
      /\ \A i \in 1..Len(s) : Append(s, r)[i] = s[i]
      /\ Append(s, r)[Len(s) + 1] = r
  OBVIOUS
<1>2. \A i \in 1..Len(s) : s[i] # r
  BY <1>1 DEF ToSet
<1>3. IsInjective(Append(s, r))
  BY <1>1, <1>2 DEF IsInjective
<1>4. ToSet(Append(s, r)) = ToSet(s) \cup {r}
  <2>1. ToSet(Append(s, r)) \subseteq ToSet(s) \cup {r}
    BY <1>1 DEF ToSet
  <2>2. ToSet(s) \subseteq ToSet(Append(s, r))
    <3>1. ASSUME NEW x \in ToSet(s) PROVE x \in ToSet(Append(s, r))
      <4>1. PICK i \in 1..Len(s) : x = s[i]
        BY <1>1 DEF ToSet
      <4>2. i \in DOMAIN Append(s, r) /\ Append(s, r)[i] = x
        BY <1>1, <4>1
      <4>. QED
        BY <4>2 DEF ToSet
    <3>. QED
      BY <3>1
  <2>3. r \in ToSet(Append(s, r))
    BY <1>1 DEF ToSet
  <2>. QED
    BY <2>1, <2>2, <2>3
<1>. QED
  BY <1>1, <1>3, <1>4
-----------------------------------------------------------------------------
\* The pool begins empty and nobody has anything.
LEMMA InitPoolInv == PoolInit => PoolInv
<1>. SUFFICES ASSUME PoolInit PROVE PoolInv
  OBVIOUS
<1>. USE PoolAssumption DEF PoolInit, PoolAssumption, None
<1>1. Held = {} /\ Pooled = {}
  BY DEF Held, Pooled, ToSet
<1>2. Wired
  <2>1. Places
    BY DEF Places
  <2>2. Flags
    BY DEF Flags
  <2>3. Threads
    BY DEF Threads, Step
  <2>. QED
    BY <2>1, <2>2, <2>3 DEF Wired
<1>3. Apart
  <2>1. IsInjective(<<>>)
    BY DEF IsInjective
  <2>. QED
    BY <1>1, <2>1 DEF Apart, ToSet
<1>4. Counted
  BY <1>1, FS_EmptySet DEF Counted
<1>5. Deadlines /\ ClosingDown
  BY DEF Deadlines, ClosingDown
<1>. QED
  BY <1>2, <1>3, <1>4, <1>5 DEF PoolInv

-----------------------------------------------------------------------------
(* Wired, action by action.                                                *)

\* The parts of Wired add up to the type invariant.
LEMMA WiredIsTyped == Wired => PoolTypeOK
<1>1. Flags => closed \in BOOLEAN /\ (closed <=> closing # "open") /\ (tx <=> writer # None) /\ writeConn \in BOOLEAN
  BY DEF Flags
<1>. QED
  BY <1>1 DEF Wired, Places, Threads, PoolTypeOK

\* A thread that takes a reader from a stack takes a connection.
LEMMA HandPlaces ==
  ASSUME Wired, NEW t \in Thread, NEW r \in Reader, Hand(t, r)
  PROVE  deadline' \in [Reader -> 0..MaxNest]
BY PoolAssumption DEF Wired, Places, Hand, PoolAssumption

\* Connections stay in the places connections may be in.
LEMMA NextPlaces == ASSUME Wired, PoolNext PROVE Places'
<1>. USE PoolAssumption DEF PoolAssumption, None, Wired, Places
<1>1. ASSUME NEW t \in Thread, Acquire(t) \/ GiveUp(t) PROVE Places'
  BY <1>1 DEF Acquire, GiveUp, readSide
<1>2. ASSUME NEW t \in Thread, Pick(t) PROVE Places'
  <2>1. CASE pool = <<>>
    BY <1>2, <2>1 DEF Pick
  <2>2. CASE pool # <<>>
    <3>1. Last(pool) \in Reader /\ Front(pool) \in Seq(Reader)
      BY <2>2 DEF Last, Front
    <3>. QED
      BY <1>2, <2>2, <3>1, HandPlaces DEF Pick
  <2>. QED
    BY <2>1, <2>2
<1>3. ASSUME NEW t \in Thread, Grow(t) PROVE Places'
  <2>1. ASSUME NEW r \in Unused, Hand(t, r), open' = open \cup {r},
               readers' = readers \cup {r}, UNCHANGED <<pool, abandoned>>
        PROVE  Places'
    BY <2>1, HandPlaces DEF Unused
  <2>2. CASE UNCHANGED <<open, readers, held, local, deadline, depth, pool, abandoned>>
    BY <2>2
  <2>. QED
    BY <1>3, <2>1, <2>2 DEF Grow
<1>4. ASSUME NEW t \in Thread, Wait(t) PROVE Places'
  <2>1. CASE step[t] = "wait" /\ pool # <<>> /\ Hand(t, Last(pool))
             /\ pool' = Front(pool) /\ UNCHANGED abandoned
    <3>1. Last(pool) \in Reader /\ Front(pool) \in Seq(Reader)
      BY <2>1 DEF Last, Front
    <3>. QED
      BY <1>4, <2>1, <3>1, HandPlaces DEF Wait
  <2>2. CASE step[t] = "orphan" /\ abandoned # <<>> /\ Hand(t, Last(abandoned))
             /\ abandoned' = Front(abandoned) /\ UNCHANGED pool
    <3>1. Last(abandoned) \in Reader /\ Front(abandoned) \in Seq(Reader)
      BY <2>2 DEF Last, Front
    <3>. QED
      BY <1>4, <2>2, <3>1, HandPlaces DEF Wait
  <2>. QED
    BY <1>4, <2>1, <2>2 DEF Wait
<1>5. ASSUME NEW t \in Thread, NestRead(t) PROVE Places'
  BY <1>5 DEF NestRead, Threads
<1>6. ASSUME NEW t \in Thread, UnnestRead(t) \/ FinishRead(t) PROVE Places'
  <2>1. held[t] \in Reader /\ depth[t] - 1 \in 0..MaxNest
    BY <1>6 DEF UnnestRead, FinishRead, Threads
  <2>2. UNCHANGED <<open, readers, pool, abandoned>>
    BY <1>6 DEF UnnestRead, FinishRead
  <2>3. PICK d \in 0..MaxNest : deadline' = [deadline EXCEPT ![held[t]] = d]
    BY <1>6, <2>1 DEF UnnestRead, FinishRead
  <2>. QED
    BY <2>1, <2>2, <2>3
<1>7. ASSUME NEW t \in Thread, Release(t) PROVE Places'
  BY <1>7 DEF Release
<1>8. ASSUME NEW t \in Thread, Put(t) PROVE Places'
  <2>1. Append(pool, held[t]) \in Seq(Reader)
    BY <1>8 DEF Put, Threads
  <2>. QED
    BY <1>8, <2>1 DEF Put
<1>9. ASSUME NEW t \in Thread,
             BeginWrite(t) \/ FinishWrite(t) \/ NestWrite(t) \/ UnnestWrite(t)
      PROVE  Places'
  BY <1>9 DEF BeginWrite, FinishWrite, NestWrite, UnnestWrite, readSide
<1>10. ASSUME MarkClosed \/ CloseReaders \/ CloseWriter PROVE Places'
  BY <1>10 DEF MarkClosed, CloseReaders, CloseWriter, readSide
<1>11. ASSUME ReplacePool PROVE Places'
  <2>1. UNCHANGED <<open, readers, deadline>> /\ pool' = <<>> /\ abandoned' = pool
    BY <1>11 DEF ReplacePool
  <2>2. <<>> \in Seq(Reader)
    OBVIOUS
  <2>. QED
    BY <2>1, <2>2
<1>. QED
  BY <1>1, <1>2, <1>3, <1>4, <1>5, <1>6, <1>7, <1>8, <1>9, <1>10, <1>11
  DEF PoolNext

\* Only close() closes, and only writes take and leave the lock.
LEMMA NextFlags == ASSUME Wired, PoolNext PROVE Flags'
<1>. USE DEF Wired, Flags
<1>1. CASE UNCHANGED <<closed, closing, writeSide>>
  BY <1>1 DEF writeSide
<1>2. ASSUME NEW t \in Thread, BeginWrite(t) PROVE Flags'
  BY <1>2, PoolAssumption DEF BeginWrite, PoolAssumption, None
<1>3. ASSUME NEW t \in Thread, FinishWrite(t) PROVE Flags'
  BY <1>3 DEF FinishWrite
<1>4. CASE MarkClosed
  BY <1>4 DEF MarkClosed, writeSide
<1>5. CASE CloseReaders
  BY <1>5 DEF CloseReaders, writeSide
<1>6. CASE ReplacePool
  BY <1>6 DEF ReplacePool, writeSide
<1>7. CASE CloseWriter
  BY <1>7 DEF CloseWriter
<1>8. ASSUME NEW t \in Thread,
             \/ Acquire(t) \/ Pick(t) \/ Grow(t) \/ Wait(t) \/ GiveUp(t)
             \/ NestRead(t) \/ UnnestRead(t) \/ FinishRead(t) \/ Release(t) \/ Put(t)
             \/ NestWrite(t) \/ UnnestWrite(t)
      PROVE  UNCHANGED <<closed, closing, writeSide>>
  BY <1>8 DEF Acquire, Pick, Grow, Wait, GiveUp, NestRead, UnnestRead, FinishRead,
              Release, Put, NestWrite, UnnestWrite
<1>. QED
  BY <1>1, <1>2, <1>3, <1>4, <1>5, <1>6, <1>7, <1>8 DEF PoolNext

\* The thread that acts goes from one state it may be in to another.
LEMMA NextThreads == ASSUME Wired, PoolNext PROVE Threads'
<1>. USE PoolAssumption DEF PoolAssumption, None, Wired, Threads, Step
<1>1. ASSUME NEW t \in Thread, Acquire(t) \/ GiveUp(t) PROVE Threads'
  BY <1>1 DEF Acquire, GiveUp, To, readSide, writeSide
<1>2. ASSUME NEW t \in Thread, NEW r \in Reader, Hand(t, r), UNCHANGED writer,
             step[t] \in {"pick", "grow", "wait", "orphan"}
      PROVE  Threads'
  BY <1>2 DEF Hand, To
<1>3. ASSUME NEW t \in Thread, Pick(t) PROVE Threads'
  <2>1. CASE pool = <<>>
    BY <1>3, <2>1 DEF Pick, To, writeSide
  <2>2. CASE pool # <<>>
    <3>1. Last(pool) \in Reader
      BY <2>2 DEF Last, Places
    <3>. QED
      BY <1>2, <1>3, <2>2, <3>1 DEF Pick, writeSide
  <2>. QED
    BY <2>1, <2>2
<1>4. ASSUME NEW t \in Thread, Grow(t) PROVE Threads'
  <2>1. step[t] = "grow" /\ UNCHANGED writer
    BY <1>4 DEF Grow, writeSide
  <2>2. ASSUME NEW r \in Unused, Hand(t, r) PROVE Threads'
    BY <1>2, <2>1, <2>2 DEF Unused
  <2>3. CASE /\ To(t, "idle") \/ To(t, "wait")
             /\ UNCHANGED <<open, readers, held, local, deadline, depth>>
    BY <2>1, <2>3 DEF To
  <2>. QED
    BY <1>4, <2>2, <2>3 DEF Grow
<1>5. ASSUME NEW t \in Thread, Wait(t) PROVE Threads'
  <2>1. UNCHANGED writer
    BY <1>5 DEF Wait, writeSide
  <2>2. CASE step[t] = "wait" /\ pool # <<>> /\ Hand(t, Last(pool))
    <3>1. Last(pool) \in Reader
      BY <2>2 DEF Last, Places
    <3>. QED
      BY <1>2, <2>1, <2>2, <3>1
  <2>3. CASE step[t] = "orphan" /\ abandoned # <<>> /\ Hand(t, Last(abandoned))
    <3>1. Last(abandoned) \in Reader
      BY <2>3 DEF Last, Places
    <3>. QED
      BY <1>2, <2>1, <2>3, <3>1
  <2>. QED
    BY <1>5, <2>2, <2>3 DEF Wait
<1>6. ASSUME NEW t \in Thread, NestRead(t) \/ UnnestRead(t) PROVE Threads'
  BY <1>6 DEF NestRead, UnnestRead, writeSide
<1>7. ASSUME NEW t \in Thread, FinishRead(t) PROVE Threads'
  BY <1>7 DEF FinishRead, To, writeSide
<1>8. ASSUME NEW t \in Thread, Release(t) PROVE Threads'
  BY <1>8 DEF Release, To, writeSide
<1>9. ASSUME NEW t \in Thread, Put(t) PROVE Threads'
  BY <1>9 DEF Put, To, writeSide
<1>10. ASSUME NEW t \in Thread, BeginWrite(t) PROVE Threads'
  BY <1>10 DEF BeginWrite, To, readSide
<1>11. ASSUME NEW t \in Thread, FinishWrite(t) PROVE Threads'
  BY <1>11 DEF FinishWrite, To, readSide
<1>12. ASSUME NEW t \in Thread, NestWrite(t) \/ UnnestWrite(t) PROVE Threads'
  BY <1>12 DEF NestWrite, UnnestWrite, readSide, writeSide
<1>13. ASSUME MarkClosed \/ CloseReaders \/ CloseWriter PROVE Threads'
  BY <1>13 DEF MarkClosed, CloseReaders, CloseWriter, readSide, writeSide
<1>14. ASSUME ReplacePool PROVE Threads'
  BY <1>14 DEF ReplacePool, writeSide
<1>. QED
  BY <1>1, <1>3, <1>4, <1>5, <1>6, <1>7, <1>8, <1>9, <1>10, <1>11, <1>12, <1>13, <1>14
  DEF PoolNext

-----------------------------------------------------------------------------
(* Connections move between threads and stacks.                            *)

\* A thread without a reader is given one that nobody has.
LEMMA Takes ==
  ASSUME Wired, Apart, NEW t \in Thread, NEW r \in Reader, r \notin Held,
         held[t] = None, held' = [held EXCEPT ![t] = r]
  PROVE  /\ Held' = Held \cup {r}
         /\ \A u, v \in Thread : held'[u] = held'[v] /\ held'[u] # None => u = v
<1>. USE PoolAssumption DEF PoolAssumption, None, Wired, Threads
<1>1. /\ held'[t] = r /\ r # None
      /\ \A u \in Thread : u # t => held'[u] = held[u]
  OBVIOUS
<1>2. \A u \in Thread : held[u] # None => held[u] # r
  BY DEF Held
<1>3. Held' = Held \cup {r}
  BY <1>1 DEF Held
<1>4. ASSUME NEW u \in Thread, NEW v \in Thread, held'[u] = held'[v], held'[u] # None
      PROVE  u = v
  BY <1>1, <1>2, <1>4 DEF Apart
<1>. QED
  BY <1>3, <1>4

\* A thread lets go of its reader.
LEMMA Gives ==
  ASSUME Wired, Apart, NEW t \in Thread,
         held[t] # None, held' = [held EXCEPT ![t] = None]
  PROVE  /\ Held' = Held \ {held[t]}
         /\ \A u, v \in Thread : held'[u] = held'[v] /\ held'[u] # None => u = v
<1>. USE DEF Wired, Threads
<1>1. held'[t] = None /\ \A u \in Thread : u # t => held'[u] = held[u]
  OBVIOUS
<1>2. \A u \in Thread : u # t => held[u] # held[t]
  BY DEF Apart
<1>3. Held' = Held \ {held[t]}
  BY <1>1, <1>2 DEF Held
<1>4. ASSUME NEW u \in Thread, NEW v \in Thread, held'[u] = held'[v], held'[u] # None
      PROVE  u = v
  BY <1>1, <1>4 DEF Apart
<1>. QED
  BY <1>3, <1>4

\* What is taken off a stack is in the hand of a thread and nowhere else.
LEMMA TakesFromStack ==
  ASSUME Wired, Apart, NEW t \in Thread, held[t] = None,
         \/ /\ pool # <<>> /\ Hand(t, Last(pool))
            /\ pool' = Front(pool) /\ UNCHANGED abandoned
         \/ /\ abandoned # <<>> /\ Hand(t, Last(abandoned))
            /\ abandoned' = Front(abandoned) /\ UNCHANGED pool
  PROVE  /\ Apart' /\ Held' \cup Pooled' = Held \cup Pooled
         /\ \E r \in Reader \ Held : Hand(t, r)
<1>1. CASE /\ pool # <<>> /\ Hand(t, Last(pool))
           /\ pool' = Front(pool) /\ UNCHANGED abandoned
  <2>. DEFINE r == Last(pool)
  <2>1. /\ r \in Reader /\ r \in ToSet(pool)
        /\ IsInjective(pool') /\ ToSet(pool') = ToSet(pool) \ {r}
    BY <1>1, Popped DEF Wired, Places, Apart
  <2>2. r \in Pooled /\ r \notin Held /\ r \notin ToSet(abandoned)
    BY <2>1 DEF Apart, Pooled
  <2>3. held' = [held EXCEPT ![t] = r]
    BY <1>1 DEF Hand
  <2>. HIDE DEF r
  <2>4. /\ Held' = Held \cup {r}
        /\ \A u, v \in Thread : held'[u] = held'[v] /\ held'[u] # None => u = v
    BY <2>1, <2>2, <2>3, Takes
  <2>5. Pooled' = Pooled \ {r}
    BY <1>1, <2>1, <2>2 DEF Pooled
  <2>6. Apart'
    BY <1>1, <2>1, <2>4, <2>5 DEF Apart
  <2>. QED
    BY <1>1, <2>1, <2>2, <2>4, <2>5, <2>6 DEF r
<1>2. CASE /\ abandoned # <<>> /\ Hand(t, Last(abandoned))
           /\ abandoned' = Front(abandoned) /\ UNCHANGED pool
  <2>. DEFINE r == Last(abandoned)
  <2>1. /\ r \in Reader /\ r \in ToSet(abandoned)
        /\ IsInjective(abandoned') /\ ToSet(abandoned') = ToSet(abandoned) \ {r}
    BY <1>2, Popped DEF Wired, Places, Apart
  <2>2. r \in Pooled /\ r \notin Held /\ r \notin ToSet(pool)
    BY <2>1 DEF Apart, Pooled
  <2>3. held' = [held EXCEPT ![t] = r]
    BY <1>2 DEF Hand
  <2>. HIDE DEF r
  <2>4. /\ Held' = Held \cup {r}
        /\ \A u, v \in Thread : held'[u] = held'[v] /\ held'[u] # None => u = v
    BY <2>1, <2>2, <2>3, Takes
  <2>5. Pooled' = Pooled \ {r}
    BY <1>2, <2>1, <2>2 DEF Pooled
  <2>6. Apart'
    BY <1>2, <2>1, <2>4, <2>5 DEF Apart
  <2>. QED
    BY <1>2, <2>1, <2>2, <2>4, <2>5, <2>6 DEF r
<1>. QED
  BY <1>1, <1>2

\* The kinds of steps there are for connections.
Taking(t) ==
  /\ step[t] \in {"pick", "wait", "orphan"} /\ UNCHANGED <<open, readers>>
  /\ \/ /\ pool # <<>> /\ Hand(t, Last(pool))
        /\ pool' = Front(pool) /\ UNCHANGED abandoned
     \/ /\ abandoned # <<>> /\ Hand(t, Last(abandoned))
        /\ abandoned' = Front(abandoned) /\ UNCHANGED pool

Opening(t, r) ==
  /\ step[t] = "grow" /\ Cardinality(readers) < PoolSize
  /\ open' = open \cup {r} /\ readers' = readers \cup {r}
  /\ Hand(t, r) /\ UNCHANGED <<pool, abandoned>>

\* A step that leaves connections, deadlines and reads alone.
Elsewhere ==
  /\ UNCHANGED <<open, readers, pool, abandoned, held, deadline>>
  /\ \A t \in Thread :
       /\ step'[t] \in {"read", "release"} <=> step[t] \in {"read", "release"}
       /\ step'[t] = "read" => depth'[t] = depth[t]
       /\ step'[t] = "read" <=> step[t] = "read"

\* Every step of a thread or of close() is of one of these kinds.
LEMMA Kinds ==
  ASSUME Wired, PoolNext
  PROVE  \/ UNCHANGED <<closed, closing, tx, writeConn>> /\ Elsewhere
         \/ \E t \in Thread : UNCHANGED <<closed, closing, tx, writeConn>> /\ Taking(t)
         \/ \E t \in Thread, r \in Unused : UNCHANGED <<closed, closing, tx, writeConn>> /\ Opening(t, r)
         \/ \E t \in Thread : NestRead(t) \/ UnnestRead(t) \/ FinishRead(t)
         \/ \E t \in Thread : Release(t) \/ Put(t)
         \/ \E t \in Thread : (BeginWrite(t) \/ FinishWrite(t)) /\ Elsewhere
         \/ (MarkClosed \/ CloseWriter) /\ Elsewhere
         \/ CloseReaders
         \/ ReplacePool
<1>. USE DEF Wired, Threads
<1>1. ASSUME NEW t \in Thread, Acquire(t) \/ GiveUp(t)
      PROVE  UNCHANGED <<closed, closing, tx, writeConn>> /\ Elsewhere
  BY <1>1 DEF Acquire, GiveUp, To, Elsewhere, readSide, writeSide
<1>2. ASSUME NEW t \in Thread, Pick(t)
      PROVE  \/ UNCHANGED <<closed, closing, tx, writeConn>> /\ Elsewhere
             \/ UNCHANGED <<closed, closing, tx, writeConn>> /\ Taking(t)
  BY <1>2 DEF Pick, To, Elsewhere, Taking, writeSide
<1>3. ASSUME NEW t \in Thread, Grow(t)
      PROVE  \/ UNCHANGED <<closed, closing, tx, writeConn>> /\ Elsewhere
             \/ \E r \in Unused : UNCHANGED <<closed, closing, tx, writeConn>> /\ Opening(t, r)
  BY <1>3 DEF Grow, To, Elsewhere, Opening, writeSide
<1>4. ASSUME NEW t \in Thread, Wait(t)
      PROVE  UNCHANGED <<closed, closing, tx, writeConn>> /\ Taking(t)
  BY <1>4 DEF Wait, Taking, writeSide
<1>5. ASSUME NEW t \in Thread, NestWrite(t) \/ UnnestWrite(t)
      PROVE  UNCHANGED <<closed, closing, tx, writeConn>> /\ Elsewhere
  BY <1>5 DEF NestWrite, UnnestWrite, Elsewhere, readSide, writeSide
<1>6. ASSUME NEW t \in Thread, BeginWrite(t) \/ FinishWrite(t) PROVE Elsewhere
  BY <1>6 DEF BeginWrite, FinishWrite, To, Elsewhere, readSide
<1>7. ASSUME MarkClosed \/ CloseWriter PROVE Elsewhere
  BY <1>7 DEF MarkClosed, CloseWriter, Elsewhere, readSide
<1>. QED
  BY <1>1, <1>2, <1>3, <1>4, <1>5, <1>6, <1>7 DEF PoolNext

\* A reader is opened under a number nobody has.
LEMMA Opens ==
  ASSUME Wired, Apart, NEW t \in Thread, NEW r \in Unused, Opening(t, r)
  PROVE  /\ r \in Reader \ (open \cup readers \cup Held \cup Pooled)
         /\ Apart' /\ Held' = Held \cup {r} /\ Pooled' = Pooled
<1>1. r \in Reader \ (open \cup readers \cup Held \cup Pooled)
  BY DEF Unused
<1>2. held[t] = None /\ held' = [held EXCEPT ![t] = r] /\ UNCHANGED <<pool, abandoned>>
  BY DEF Opening, Hand, Wired, Threads
<1>3. /\ Held' = Held \cup {r}
      /\ \A u, v \in Thread : held'[u] = held'[v] /\ held'[u] # None => u = v
  BY <1>1, <1>2, Takes
<1>4. Pooled' = Pooled
  BY <1>2 DEF Pooled
<1>5. Apart'
  BY <1>1, <1>2, <1>3, <1>4 DEF Apart
<1>. QED
  BY <1>1, <1>3, <1>4, <1>5

\* A reader goes from a thread to the top of the pool.
LEMMA Puts ==
  ASSUME Wired, Apart, NEW t \in Thread, Put(t)
  PROVE  Apart' /\ Held' \cup Pooled' = Held \cup Pooled
<1>1. held[t] # None /\ held[t] \in Reader /\ held[t] \in Held
  BY PoolAssumption DEF Put, Wired, Threads, Held, PoolAssumption
<1>2. /\ held' = [held EXCEPT ![t] = None]
      /\ pool' = Append(pool, held[t]) /\ UNCHANGED abandoned
  BY DEF Put
<1>3. /\ Held' = Held \ {held[t]}
      /\ \A u, v \in Thread : held'[u] = held'[v] /\ held'[u] # None => u = v
  BY <1>1, <1>2, Gives
<1>4. held[t] \notin ToSet(pool) /\ held[t] \notin ToSet(abandoned)
  BY <1>1 DEF Apart, Pooled
<1>5. IsInjective(pool') /\ ToSet(pool') = ToSet(pool) \cup {held[t]}
  BY <1>1, <1>2, <1>4, Pushed DEF Wired, Places, Apart
<1>6. Pooled' = Pooled \cup {held[t]}
  BY <1>2, <1>5 DEF Pooled
<1>7. Apart'
  BY <1>2, <1>3, <1>4, <1>5, <1>6 DEF Apart
<1>. QED
  BY <1>1, <1>3, <1>6, <1>7

\* A reader that is given back to a closed database is gone.
LEMMA Releases ==
  ASSUME Wired, Apart, NEW t \in Thread, Release(t)
  PROVE  /\ Apart' /\ Pooled' = Pooled /\ UNCHANGED <<closed, readers>>
         /\ \/ Held' = Held /\ UNCHANGED open
            \/ closed /\ Held' = Held \ {held[t]} /\ open' = open \ {held[t]}
<1>1. held[t] # None /\ UNCHANGED <<closed, readers, pool, abandoned>>
  BY DEF Release, Wired, Threads
<1>2. Pooled' = Pooled
  BY <1>1 DEF Pooled
<1>3. CASE closed
  <2>1. held' = [held EXCEPT ![t] = None] /\ open' = open \ {held[t]}
    BY <1>3 DEF Release
  <2>2. /\ Held' = Held \ {held[t]}
        /\ \A u, v \in Thread : held'[u] = held'[v] /\ held'[u] # None => u = v
    BY <1>1, <2>1, Gives
  <2>. QED
    BY <1>1, <1>2, <1>3, <2>1, <2>2 DEF Apart
<1>4. CASE ~ closed
  <2>1. UNCHANGED <<open, held>>
    BY <1>4 DEF Release
  <2>2. Held' = Held
    BY <2>1 DEF Held
  <2>. QED
    BY <1>1, <1>2, <2>1, <2>2 DEF Apart
<1>. QED
  BY <1>3, <1>4

\* The pool that is replaced is the one threads wait on.
LEMMA Replaces ==
  ASSUME Wired, Apart, ReplacePool
  PROVE  Apart' /\ Held' = Held /\ UNCHANGED <<open, readers, closed>> /\ closed
<1>1. /\ pool' = <<>> /\ abandoned' = pool /\ UNCHANGED <<open, readers, held, closed>>
      /\ closed
  BY DEF ReplacePool, Wired, Flags
<1>2. IsInjective(<<>>) /\ ToSet(<<>>) = {}
  BY DEF IsInjective, ToSet
<1>3. Held' = Held
  BY <1>1 DEF Held
<1>4. Pooled' = ToSet(pool)
  BY <1>1, <1>2 DEF Pooled
<1>5. Held' \cap Pooled' = {}
  BY <1>3, <1>4 DEF Apart, Pooled
<1>6. IsInjective(pool') /\ IsInjective(abandoned') /\ ToSet(pool') \cap ToSet(abandoned') = {}
  BY <1>1, <1>2 DEF Apart
<1>7. \A u, v \in Thread : held'[u] = held'[v] /\ held'[u] # None => u = v
  BY <1>1 DEF Apart
<1>. QED
  BY <1>1, <1>3, <1>5, <1>6, <1>7 DEF Apart

\* Where nothing moves, nothing is in two places.
LEMMA StaysApart ==
  ASSUME Apart, UNCHANGED <<pool, abandoned, held>>
  PROVE  Apart' /\ Held' = Held /\ Pooled' = Pooled
BY DEF Apart, Held, Pooled

\* Inside a read, and when it ends, its connection stays where it is.
LEMMA ReadsStay ==
  ASSUME NEW t \in Thread, NestRead(t) \/ UnnestRead(t) \/ FinishRead(t)
  PROVE  UNCHANGED <<open, readers, pool, abandoned, held, closed, closing, tx, writeConn>>
BY DEF NestRead, UnnestRead, FinishRead, writeSide

\* No step puts a connection in two places.
LEMMA NextApart == ASSUME Wired, Apart, PoolNext PROVE Apart'
<1>1. CASE Elsewhere
  BY <1>1, StaysApart DEF Elsewhere
<1>2. ASSUME NEW t \in Thread, Taking(t) PROVE Apart'
  BY <1>2, TakesFromStack DEF Taking, Wired, Threads
<1>3. ASSUME NEW t \in Thread, NEW r \in Unused, Opening(t, r) PROVE Apart'
  BY <1>3, Opens
<1>4. ASSUME NEW t \in Thread, NestRead(t) \/ UnnestRead(t) \/ FinishRead(t) PROVE Apart'
  BY <1>4, ReadsStay, StaysApart
<1>5. ASSUME NEW t \in Thread, Release(t) \/ Put(t) PROVE Apart'
  BY <1>5, Releases, Puts
<1>6. CASE CloseReaders
  BY <1>6, StaysApart DEF CloseReaders
<1>7. CASE ReplacePool
  BY <1>7, Replaces
<1>. QED
  BY <1>1, <1>2, <1>3, <1>4, <1>5, <1>6, <1>7, Kinds

\* No step opens more connections than the pool may have, or loses one.
LEMMA NextCounted == ASSUME Wired, Apart, Counted, PoolNext PROVE Counted'
<1>1. CASE UNCHANGED <<open, readers, pool, abandoned, held>> /\ (closed => closed')
  BY <1>1, StaysApart DEF Counted
<1>2. ASSUME NEW t \in Thread, Taking(t), UNCHANGED closed PROVE Counted'
  <2>1. Held' \cup Pooled' = Held \cup Pooled
    BY <1>2, TakesFromStack DEF Taking, Wired, Threads
  <2>2. UNCHANGED <<open, readers>>
    BY <1>2 DEF Taking
  <2>. QED
    BY <1>2, <2>1, <2>2 DEF Counted
<1>3. ASSUME NEW t \in Thread, NEW r \in Unused, Opening(t, r), UNCHANGED closed
      PROVE  Counted'
  <2>1. /\ r \notin readers /\ Held' = Held \cup {r} /\ Pooled' = Pooled
        /\ open' = open \cup {r} /\ readers' = readers \cup {r}
        /\ Cardinality(readers) < PoolSize
    BY <1>3, Opens DEF Opening
  <2>2. /\ IsFiniteSet(readers') /\ Cardinality(readers') = Cardinality(readers) + 1
        /\ Cardinality(readers) \in Nat
    BY <2>1, FS_AddElement, FS_CardinalityType DEF Counted
  <2>3. Cardinality(readers') <= PoolSize
    BY <2>1, <2>2, PoolAssumption DEF PoolAssumption
  <2>. QED
    BY <1>3, <2>1, <2>2, <2>3 DEF Counted
<1>4. ASSUME NEW t \in Thread, Release(t) PROVE Counted'
  BY <1>4, Releases DEF Counted
<1>5. ASSUME NEW t \in Thread, Put(t) PROVE Counted'
  <2>1. UNCHANGED <<open, readers, closed>>
    BY <1>5 DEF Put
  <2>. QED
    BY <1>5, <2>1, Puts DEF Counted
<1>6. CASE CloseReaders
  <2>1. readers' = {} /\ open' = {} /\ closed'
    BY <1>6 DEF CloseReaders, Counted, Wired, Flags
  <2>2. Cardinality({}) <= PoolSize
    BY FS_EmptySet, PoolAssumption DEF PoolAssumption
  <2>. QED
    BY <2>1, <2>2, FS_EmptySet DEF Counted
<1>7. CASE ReplacePool
  BY <1>7, Replaces DEF Counted
<1>8. ASSUME NEW t \in Thread, NestRead(t) \/ UnnestRead(t) \/ FinishRead(t) PROVE Counted'
  BY <1>1, <1>8, ReadsStay
<1>9. ASSUME NEW t \in Thread, BeginWrite(t) \/ FinishWrite(t) PROVE UNCHANGED closed
  BY <1>9 DEF BeginWrite, FinishWrite
<1>10. ASSUME MarkClosed \/ CloseWriter PROVE closed => closed'
  BY <1>10 DEF MarkClosed, CloseWriter
<1>11. Elsewhere => UNCHANGED <<open, readers, pool, abandoned, held>>
  BY DEF Elsewhere
<1>. QED
  BY <1>1, <1>2, <1>3, <1>4, <1>5, <1>6, <1>7, <1>8, <1>9, <1>10, <1>11, Kinds

-----------------------------------------------------------------------------
(* Deadlines.                                                              *)

\* A reader that is handed over has the deadline of the read that begins.
LEMMA HandDeadlines ==
  ASSUME Wired, Apart, Deadlines, NEW t \in Thread, NEW r \in Reader,
         Hand(t, r), held[t] = None, r \notin Held
  PROVE  Deadlines'
<1>. USE PoolAssumption DEF PoolAssumption, None
<1>1. /\ held'[t] = r /\ step'[t] = "read" /\ depth'[t] = 1 /\ deadline'[r] = 1
      /\ \A u \in Thread : u # t =>
           held'[u] = held[u] /\ step'[u] = step[u] /\ depth'[u] = depth[u]
      /\ \A q \in Reader : q # r => deadline'[q] = deadline[q]
  BY DEF Hand, To, Wired, Places, Threads
<1>2. step[t] # "read" /\ \A u \in Thread : step[u] = "read" => held[u] \in Reader
  BY DEF Wired, Threads
<1>3. \A u \in Thread : step[u] = "read" => held[u] # r
  BY <1>2 DEF Held
<1>4. ASSUME NEW u \in Thread, step'[u] = "read" PROVE deadline'[held'[u]] = depth'[u]
  <2>1. CASE u = t
    BY <1>1, <1>2, <1>4, <2>1
  <2>2. CASE u # t
    <3>1. step[u] = "read" /\ held'[u] = held[u] /\ depth'[u] = depth[u]
      BY <1>1, <1>4, <2>2
    <3>2. deadline'[held[u]] = deadline[held[u]]
      BY <1>1, <1>2, <1>3, <2>2, <3>1
    <3>. QED
      BY <3>1, <3>2 DEF Deadlines
  <2>. QED
    BY <2>1, <2>2
<1>5. ASSUME NEW q \in Reader, \A u \in Thread : step'[u] = "read" => held'[u] # q
      PROVE  deadline'[q] = 0
  BY <1>1, <1>2, <1>5 DEF Deadlines
<1>. QED
  BY <1>4, <1>5 DEF Deadlines

\* Inside a read, and when it ends, the deadline is that of the read that is on.
LEMMA ReadDeadlines ==
  ASSUME Wired, Apart, Deadlines, NEW t \in Thread,
         NestRead(t) \/ UnnestRead(t) \/ FinishRead(t)
  PROVE  Deadlines'
<1>. USE PoolAssumption DEF PoolAssumption, None
<1>1. /\ step[t] = "read" /\ held[t] \in Reader /\ UNCHANGED held
      /\ depth[t] \in Nat
      /\ \A u \in Thread : u # t => step'[u] = step[u] /\ depth'[u] = depth[u]
      /\ \A q \in Reader : q # held[t] => deadline'[q] = deadline[q]
  <2>1. NestRead(t) => local[t] = held[t]
    BY DEF NestRead, Wired, Threads
  <2>2. step[t] = "read" /\ UNCHANGED held
    BY DEF NestRead, UnnestRead, FinishRead
  <2>3. held[t] \in Reader /\ depth[t] \in Nat
    BY <2>2 DEF Wired, Threads
  <2>4. \A u \in Thread : u # t => step'[u] = step[u] /\ depth'[u] = depth[u]
    BY DEF NestRead, UnnestRead, FinishRead, To, Wired, Threads
  <2>5. \A q \in Reader : q # held[t] => deadline'[q] = deadline[q]
    BY <2>1 DEF NestRead, UnnestRead, FinishRead, Wired, Places
  <2>. QED
    BY <2>2, <2>3, <2>4, <2>5
<1>2. \/ step'[t] = "read" /\ deadline'[held[t]] = depth'[t]
      \/ step'[t] # "read" /\ deadline'[held[t]] = 0
  <2>1. CASE NestRead(t)
    <3>1. local[t] = held[t]
      BY <2>1 DEF NestRead, Wired, Threads
    <3>. QED
      BY <1>1, <2>1, <3>1 DEF NestRead, Wired, Places, Threads
  <2>2. CASE UnnestRead(t)
    BY <1>1, <2>2 DEF UnnestRead, Wired, Places, Threads
  <2>3. CASE FinishRead(t)
    BY <1>1, <2>3 DEF FinishRead, To, Wired, Places, Threads
  <2>. QED
    BY <2>1, <2>2, <2>3
<1>3. \A u \in Thread : step[u] = "read" => held[u] \in Reader /\ (u # t => held[u] # held[t])
  BY <1>1 DEF Apart, Wired, Threads
<1>4. ASSUME NEW u \in Thread, step'[u] = "read" PROVE deadline'[held'[u]] = depth'[u]
  BY <1>1, <1>2, <1>3, <1>4 DEF Deadlines
<1>5. ASSUME NEW q \in Reader, \A u \in Thread : step'[u] = "read" => held'[u] # q
      PROVE  deadline'[q] = 0
  <2>1. CASE q = held[t]
    BY <1>1, <1>2, <1>5, <2>1
  <2>2. CASE q # held[t]
    BY <1>1, <1>5, <2>2 DEF Deadlines
  <2>. QED
    BY <2>1, <2>2
<1>. QED
  BY <1>4, <1>5 DEF Deadlines

\* No step leaves a deadline on a connection that is not of the read on it.
LEMMA NextDeadlines == ASSUME Wired, Apart, Deadlines, PoolNext PROVE Deadlines'
<1>1. CASE /\ UNCHANGED deadline
           /\ \A t \in Thread :
                /\ step'[t] = "read" <=> step[t] = "read"
                /\ step[t] = "read" => depth'[t] = depth[t] /\ held'[t] = held[t]
  BY <1>1 DEF Deadlines
<1>2. ASSUME Elsewhere PROVE Deadlines'
  BY <1>1, <1>2 DEF Elsewhere
<1>3. ASSUME NEW t \in Thread, Taking(t) PROVE Deadlines'
  <2>1. held[t] = None /\ \E r \in Reader \ Held : Hand(t, r)
    BY <1>3, TakesFromStack DEF Taking, Wired, Threads
  <2>. QED
    BY <2>1, HandDeadlines
<1>4. ASSUME NEW t \in Thread, NEW r \in Unused, Opening(t, r) PROVE Deadlines'
  <2>1. held[t] = None /\ r \in Reader \ Held /\ Hand(t, r)
    BY <1>4, Opens DEF Opening, Wired, Threads
  <2>. QED
    BY <2>1, HandDeadlines
<1>5. ASSUME NEW t \in Thread, Release(t) \/ Put(t) PROVE Deadlines'
  <2>1. /\ UNCHANGED <<deadline, depth>> /\ step[t] # "read" /\ step'[t] # "read"
        /\ \A u \in Thread : u # t => step'[u] = step[u] /\ held'[u] = held[u]
    BY <1>5 DEF Release, Put, To, Wired, Threads
  <2>. QED
    BY <1>1, <2>1
<1>6. ASSUME CloseReaders \/ ReplacePool PROVE Deadlines'
  <2>1. /\ UNCHANGED <<deadline, depth, held>>
        /\ \A t \in Thread : step'[t] = "read" <=> step[t] = "read"
    BY <1>6 DEF CloseReaders, ReplacePool
  <2>. QED
    BY <1>1, <2>1
<1>. QED
  BY <1>2, <1>3, <1>4, <1>5, <1>6, ReadDeadlines, Kinds

-----------------------------------------------------------------------------
(* Closing down.                                                           *)

\* No step leaves a connection open behind close(), or closes the one that is
\* written to.
LEMMA NextClosingDown ==
  ASSUME Wired, Apart, Counted, ClosingDown, PoolNext
  PROVE  ClosingDown'
<1>. DEFINE Ends == {"read", "release"}
            Covered == \A r \in open : \E t \in Thread : held[t] = r /\ step[t] \in Ends
<1>1. ASSUME UNCHANGED <<closing, tx, writeConn>>, Covered => Covered' PROVE ClosingDown'
  BY <1>1 DEF ClosingDown
<1>2. Elsewhere /\ Covered => Covered'
  BY DEF Elsewhere
<1>3. ASSUME NEW t \in Thread, NEW r, Hand(t, r), held[t] = None, Covered,
             open' \subseteq open \cup {r}
      PROVE  Covered'
  <2>1. /\ held'[t] = r /\ step'[t] = "read"
        /\ \A u \in Thread : u # t => held'[u] = held[u] /\ step'[u] = step[u]
    BY <1>3 DEF Hand, To, Wired, Threads
  <2>2. \A u \in Thread : step[u] \in Ends => u # t
    BY <1>3 DEF Wired, Threads
  <2>3. ASSUME NEW q \in open' PROVE \E u \in Thread : held'[u] = q /\ step'[u] \in Ends
    BY <1>3, <2>1, <2>2
  <2>. QED
    BY <2>3
<1>4. ASSUME NEW t \in Thread, Taking(t), Covered PROVE Covered'
  <2>1. held[t] = None /\ (\E r \in Reader \ Held : Hand(t, r)) /\ open' = open
    BY <1>4, TakesFromStack DEF Taking, Wired, Threads
  <2>. QED
    BY <1>3, <1>4, <2>1
<1>5. ASSUME NEW t \in Thread, NEW r \in Unused, Opening(t, r), Covered PROVE Covered'
  <2>1. held[t] = None /\ Hand(t, r) /\ open' = open \cup {r}
    BY <1>5 DEF Opening, Wired, Threads
  <2>. QED
    BY <1>3, <1>5, <2>1
<1>6. ASSUME NEW t \in Thread, NestRead(t) \/ UnnestRead(t) \/ FinishRead(t), Covered
      PROVE  Covered'
  <2>1. /\ UNCHANGED <<open, held>> /\ step[t] \in Ends /\ step'[t] \in Ends
        /\ \A u \in Thread : u # t => step'[u] = step[u]
    BY <1>6 DEF NestRead, UnnestRead, FinishRead, To, Wired, Threads
  <2>. QED
    BY <1>6, <2>1
<1>7. ASSUME NEW t \in Thread, Put(t), Covered PROVE Covered'
  <2>1. /\ UNCHANGED open /\ step[t] \notin Ends
        /\ \A u \in Thread : u # t => step'[u] = step[u] /\ held'[u] = held[u]
    BY <1>7 DEF Put, To, Wired, Threads
  <2>. QED
    BY <1>7, <2>1
<1>8. ASSUME NEW t \in Thread, Release(t) PROVE ClosingDown'
  <2>1. /\ UNCHANGED <<closing, tx, writeConn>>
        /\ \A u \in Thread : u # t => step'[u] = step[u] /\ held'[u] = held[u]
    BY <1>8 DEF Release, To, writeSide, Wired, Threads
  <2>2. CASE closed
    <3>1. open' = open \ {held[t]}
      BY <1>8, <2>2 DEF Release
    <3>2. Covered => Covered'
      BY <2>1, <3>1
    <3>. QED
      BY <1>1, <2>1, <3>2
  <2>3. CASE ~ closed
    <3>1. closing = "open"
      BY <2>3 DEF Wired, Flags
    <3>. QED
      BY <2>1, <3>1 DEF ClosingDown
  <2>. QED
    BY <2>2, <2>3
<1>9. ASSUME NEW t \in Thread, BeginWrite(t) \/ FinishWrite(t), Elsewhere PROVE ClosingDown'
  <2>1. UNCHANGED closing /\ (tx' => writeConn')
    BY <1>9 DEF BeginWrite, FinishWrite
  <2>. QED
    BY <1>2, <1>9, <2>1 DEF ClosingDown
<1>10. ASSUME MarkClosed PROVE ClosingDown'
  BY <1>10 DEF MarkClosed, ClosingDown, writeSide
<1>11. ASSUME CloseWriter, Elsewhere PROVE ClosingDown'
  <2>1. ~ tx' /\ closing = "pool replaced"
    BY <1>11 DEF CloseWriter, Wired, Flags
  <2>. QED
    BY <1>2, <1>11, <2>1 DEF ClosingDown
<1>12. ASSUME CloseReaders PROVE ClosingDown'
  <2>1. open' = {} /\ UNCHANGED <<tx, writeConn>>
    BY <1>12 DEF CloseReaders, Counted, writeSide
  <2>. QED
    BY <2>1 DEF ClosingDown
<1>13. ASSUME ReplacePool PROVE ClosingDown'
  <2>1. /\ closing = "readers closed" /\ UNCHANGED <<open, held, tx, writeConn>>
        /\ \A t \in Thread : step[t] \in Ends => step'[t] = step[t]
    BY <1>13 DEF ReplacePool, writeSide
  <2>. QED
    BY <2>1 DEF ClosingDown
<1>14. ASSUME NEW t \in Thread, Put(t) PROVE UNCHANGED <<closing, tx, writeConn>>
  BY <1>14 DEF Put, writeSide
<1>. QED
  BY <1>1, <1>2, <1>4, <1>5, <1>6, <1>7, <1>8, <1>9, <1>10, <1>11, <1>12, <1>13, <1>14,
     Kinds, ReadsStay

-----------------------------------------------------------------------------
(* The start.                                                              *)

\* Objects come into being in the order of the scripts: those of the versions
\* up to the one on disk, and of the script that is being run.
Started ==
  /\ version \in 0..Latest /\ migrated \in 0..Latest /\ statement \in Nat
  /\ phase \in {"down", "migrate", "script", "serving"}
  /\ objects \subseteq Schema(Latest)
  /\ Schema(version) \subseteq objects
  /\ phase # "down" => migrated = version
  /\ phase = "script" =>
       /\ migrated < Latest /\ statement \in 0..Script[migrated + 1]
       /\ {migrated + 1} \X (1..statement) \subseteq objects
  /\ phase = "serving" => version = Latest /\ seeded

\* The schema of a version is that of the one before and what its script adds.
LEMMA SchemaGrows ==
  ASSUME NEW v \in Nat, v < Latest
  PROVE  Schema(v + 1) = Schema(v) \cup ({v + 1} \X (1..Script[v + 1]))
<1>1. 1..(v + 1) = (1..v) \cup {v + 1}
  OBVIOUS
<1>. QED
  BY <1>1 DEF Schema

\* A later schema has everything an earlier one has.
LEMMA SchemaRises ==
  ASSUME NEW v \in Nat, NEW w \in Nat, v <= w
  PROVE  Schema(v) \subseteq Schema(w)
<1>1. 1..v \subseteq 1..w
  OBVIOUS
<1>. QED
  BY <1>1 DEF Schema

\* On an empty disk the start is where it says it is.
LEMMA InitStarted == StartupInit => Started
<1>. SUFFICES ASSUME StartupInit PROVE Started
  OBVIOUS
<1>1. Latest \in Nat
  BY StartupAssumption DEF StartupAssumption, Latest
<1>2. Schema(0) = {}
  BY DEF Schema
<1>. QED
  BY <1>1, <1>2 DEF StartupInit, Started

\* A start goes on, is cut short, or fails, and leaves a prefix of the scripts.
LEMMA NextStarted == ASSUME Started, StartStep \/ Stop PROVE Started'
<1>. USE DEF Started
<1>1. Latest \in Nat /\ \A v \in 1..Latest : Script[v] \in Nat \ {0}
  BY StartupAssumption DEF StartupAssumption, Latest
<1>2. CASE Boot
  BY <1>2 DEF Boot, disk
<1>3. CASE StartScript
  <2>1. Script[migrated + 1] \in Nat
    BY <1>1, <1>3 DEF StartScript
  <2>2. 1..0 = {}
    OBVIOUS
  <2>. QED
    BY <1>3, <2>1, <2>2 DEF StartScript, disk
<1>4. CASE RunStatement
  <2>. DEFINE o == <<migrated + 1, statement + 1>>
  <2>1. /\ phase = "script" /\ UNCHANGED <<version, seeded, migrated>>
        /\ migrated + 1 \in 1..Latest /\ statement + 1 \in 1..Script[migrated + 1]
    BY <1>1, <1>4 DEF RunStatement
  <2>2. CASE o \in objects
    BY <1>4, <2>1, <2>2 DEF RunStatement
  <2>3. CASE o \notin objects
    <3>1. objects' = objects \cup {o} /\ statement' = statement + 1 /\ UNCHANGED phase
      BY <1>4, <2>3 DEF RunStatement
    <3>2. o \in Schema(Latest)
      BY <2>1 DEF Schema
    <3>3. {migrated + 1} \X (1..(statement + 1)) \subseteq objects'
      <4>1. 1..(statement + 1) = (1..statement) \cup {statement + 1}
        BY <1>4 DEF RunStatement
      <4>. QED
        BY <2>1, <3>1, <4>1
    <3>. HIDE DEF o
    <3>. QED
      BY <1>1, <2>1, <3>1, <3>2, <3>3
  <2>. QED
    BY <2>2, <2>3
<1>5. CASE SetVersion
  <2>1. /\ version' = migrated + 1 /\ migrated' = migrated + 1 /\ phase' = "migrate"
        /\ UNCHANGED <<objects, seeded, statement>>
        /\ migrated < Latest /\ migrated \in Nat /\ migrated = version
        /\ {migrated + 1} \X (1..Script[migrated + 1]) \subseteq objects
    BY <1>1, <1>5 DEF SetVersion
  <2>2. Schema(migrated + 1) \subseteq objects
    BY <2>1, SchemaGrows
  <2>. QED
    BY <1>1, <2>1, <2>2
<1>6. CASE Seed
  BY <1>6 DEF Seed
<1>7. CASE Stop
  BY <1>7 DEF Stop, disk
<1>. QED
  BY <1>2, <1>3, <1>4, <1>5, <1>6, <1>7 DEF StartStep

\* What is promised of the schema follows.
LEMMA StartedServes == Started => ServesWholeSchema
BY DEF Started, ServesWholeSchema

-----------------------------------------------------------------------------
(* The theorems.                                                           *)

IInv == PoolInv /\ Started

\* The start of the process leaves the pool alone.
LEMMA PoolStutters == ASSUME PoolInv, UNCHANGED poolVars PROVE PoolInv'
<1>1. /\ UNCHANGED <<open, readers, pool, abandoned, held, local, deadline>>
      /\ UNCHANGED <<closed, closing, step, depth, writer, writeConn, tx>>
  BY DEF poolVars, readSide, writeSide
<1>2. Wired'
  BY <1>1 DEF PoolInv, Wired, Places, Flags, Threads
<1>3. Held' = Held /\ Pooled' = Pooled
  BY <1>1 DEF Held, Pooled
<1>4. Apart' /\ Counted'
  BY <1>1, <1>3 DEF PoolInv, Apart, Counted
<1>5. Deadlines' /\ ClosingDown'
  BY <1>1 DEF PoolInv, Deadlines, ClosingDown
<1>. QED
  BY <1>2, <1>4, <1>5 DEF PoolInv

\* Every step of the system keeps the invariant.
LEMMA NextIInv == IInv /\ [Next]_databaseVars => IInv'
<1>. SUFFICES ASSUME IInv, [Next]_databaseVars PROVE IInv'
  OBVIOUS
<1>1. CASE Start
  <2>1. UNCHANGED poolVars /\ StartStep
    BY <1>1 DEF Start
  <2>2. PoolInv'
    BY <2>1, PoolStutters DEF IInv
  <2>. QED
    BY <2>1, <2>2, NextStarted DEF IInv
<1>2. CASE Serve
  <2>1. PoolNext /\ UNCHANGED startupVars
    BY <1>2 DEF Serve
  <2>2. PoolInv'
    BY <2>1, NextPlaces, NextFlags, NextThreads, NextApart, NextCounted, NextDeadlines,
       NextClosingDown DEF IInv, PoolInv, Wired
  <2>3. Started'
    BY <2>1 DEF IInv, Started, startupVars, disk
  <2>. QED
    BY <2>2, <2>3 DEF IInv
<1>3. CASE EndProcess
  <2>1. PoolInit' /\ Stop
    BY <1>3 DEF EndProcess, PoolInit
  <2>2. (PoolInit => PoolInv)'
    BY InitPoolInv, PTL
  <2>. QED
    BY <2>1, <2>2, NextStarted DEF IInv
<1>4. CASE UNCHANGED databaseVars
  <2>1. UNCHANGED poolVars /\ UNCHANGED startupVars
    BY <1>4 DEF databaseVars
  <2>2. PoolInv'
    BY <2>1, PoolStutters DEF IInv
  <2>3. Started'
    BY <2>1 DEF IInv, Started, startupVars, disk
  <2>. QED
    BY <2>2, <2>3 DEF IInv
<1>. QED
  BY <1>1, <1>2, <1>3, <1>4 DEF Next

\* The invariant holds throughout.
LEMMA Invariance == DatabaseSpec => []IInv
<1>1. Init => IInv
  BY InitPoolInv, InitStarted DEF Init, IInv
<1>. QED
  BY <1>1, NextIInv, PTL DEF DatabaseSpec

\* Threads, connections and locks are always in states that go together: what
\* _acquire, read, write and close do to them, in any interleaving.
THEOREM TypeCorrect == DatabaseSpec => []PoolTypeOK
<1>1. IInv => PoolTypeOK
  BY WiredIsTyped DEF IInv, PoolInv
<1>. QED
  BY <1>1, Invariance, PTL

\* The pool's connections are all accounted for, however many threads there are
\* and whatever close() finds them doing.
THEOREM ReadersAlwaysAccounted == DatabaseSpec => []ReadersAccounted
<1>1. IInv => ReadersAccounted
  <2>. SUFFICES ASSUME IInv PROVE ReadersAccounted
    OBVIOUS
  <2>1. Cardinality(open) <= PoolSize
    <3>1. /\ IsFiniteSet(readers) /\ open \subseteq readers
          /\ Cardinality(readers) <= PoolSize
      BY DEF IInv, PoolInv, Counted
    <3>2. IsFiniteSet(open) /\ Cardinality(open) <= Cardinality(readers)
      BY <3>1, FS_Subset
    <3>. QED
      BY <3>1, <3>2, FS_CardinalityType, PoolAssumption DEF PoolAssumption
  <2>. QED
    BY <2>1 DEF IInv, PoolInv, Apart, Counted, ReadersAccounted
<1>. QED
  BY <1>1, Invariance, PTL

\* Every read runs against its own deadline, however reads are nested and
\* connections handed on.
THEOREM DeadlinesAreOfTheRead == DatabaseSpec => []DeadlineIsOfTheRead
<1>1. IInv => DeadlineIsOfTheRead
  <2>. SUFFICES ASSUME IInv, NEW r \in Reader
                PROVE  deadline[r] =
                         IF \E t \in Thread : held[t] = r /\ step[t] = "read"
                         THEN depth[CHOOSE t \in Thread : held[t] = r] ELSE 0
    BY DEF DeadlineIsOfTheRead
  <2>1. CASE \E t \in Thread : held[t] = r /\ step[t] = "read"
    <3>1. PICK t \in Thread : held[t] = r /\ step[t] = "read"
      BY <2>1
    <3>2. r # None
      BY PoolAssumption DEF PoolAssumption, None
    <3>3. \A u \in Thread : held[u] = r => u = t
      BY <3>1, <3>2 DEF IInv, PoolInv, Apart
    <3>4. (CHOOSE u \in Thread : held[u] = r) = t
      BY <3>1, <3>3
    <3>. QED
      BY <2>1, <3>1, <3>4 DEF IInv, PoolInv, Deadlines
  <2>2. CASE ~ \E t \in Thread : held[t] = r /\ step[t] = "read"
    BY <2>2 DEF IInv, PoolInv, Deadlines
  <2>. QED
    BY <2>1, <2>2
<1>. QED
  BY <1>1, Invariance, PTL

\* Once close() is through and the threads have let go, no connection is open,
\* and none is closed under a transaction.
THEOREM NothingEverLeaks == DatabaseSpec => []NothingLeaks
<1>1. IInv => NothingLeaks
  <2>. SUFFICES ASSUME IInv PROVE NothingLeaks
    OBVIOUS
  <2>1. tx => writeConn
    BY DEF IInv, PoolInv, ClosingDown
  <2>2. ASSUME closing = "closed", Held = {} PROVE open = {}
    <3>1. \A r \in open : \E t \in Thread : held[t] = r
      BY <2>2 DEF IInv, PoolInv, ClosingDown
    <3>2. None \notin open
      BY PoolAssumption DEF IInv, PoolInv, Wired, Places, PoolAssumption, None
    <3>. QED
      BY <2>2, <3>1, <3>2 DEF Held
  <2>. QED
    BY <2>1, <2>2 DEF NothingLeaks
<1>. QED
  BY <1>1, Invariance, PTL

\* Requests are served on a whole and seeded schema only, whatever migrations
\* there are and wherever starts were cut short.
THEOREM OnlyWholeSchemasServe == DatabaseSpec => []ServesWholeSchema
<1>1. IInv => ServesWholeSchema
  BY StartedServes DEF IInv
<1>. QED
  BY <1>1, Invariance, PTL

=============================================================================
