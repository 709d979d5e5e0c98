-------------------------- MODULE ApiIngestProofs --------------------------
(***************************************************************************)
(* Proofs about ApiIngest, for every set of records and every value of the *)
(* bounds.                                                                 *)
(***************************************************************************)
EXTENDS ApiIngest, FiniteSetTheorems, WellFoundedInduction, TLAPS

\* A record past which the log has not got: what is logged from now on is
\* newer.
Reached(ts) == ts = 0 \/ \E v \in seen : TsOf[v] = ts

\* The horizon and the newest time of a poll are the times of records, the
\* floor has been enforced, and the passes have a page left to read.
PollIsSane ==
  /\ Reached(fwd)
  /\ phase # "idle" => Reached(newest) /\ newest >= fwd
  /\ floor <= topFloor
  /\ nextDone => nextCursor = None
  /\ phase = "forward" => nextCursor = cursor /\ nextDone = done
  /\ phase = "backfill" => ~ nextDone /\ nextCursor # None
  /\ phase \in {"forward", "backfill"} => pages < MaxPages

\* What the forward pass has walked past is in its batch, unless it was logged
\* since the poll began, and the pass has not reached the horizon.
ForwardReadsAll ==
  phase = "forward" /\ older # None =>
    \A u \in Record : Owed(u) =>
      /\ TsOf[u] > fwd /\ TsOf[u] >= older => u \in batch \/ TsOf[u] > newest
      /\ TsOf[u] <= fwd => TsOf[u] < older

\* What the poll will leave below its new horizon is stored, in its batch, or
\* ahead of its new cursor.
PollSkipsNothing ==
  phase \in {"backfill", "write"} =>
    \A u \in Record : Owed(u) /\ TsOf[u] <= newest =>
      \/ u \in queries \cup batch
      \/ ~ nextDone /\ nextCursor # None /\ TsOf[u] < nextCursor

\* What the forward pass had to read so far: what is new or unreadable, down
\* to a time.
Delta(ts) == {u \in seen : (TsOf[u] > fwd \/ u \notin Readable) /\ TsOf[u] >= ts}

\* The pages read were full of the delta, except for a last one after which
\* nothing is left.
PagesAreDelta ==
  phase = "forward" =>
    /\ older = None => pages = 0
    /\ older # None =>
         /\ Reached(older)
         /\ \/ pages * PageSize <= Cardinality(Delta(older))
            \/ /\ pages * PageSize < PageSize + Cardinality(Delta(older))
               /\ OlderThan(older) = {}

IInv ==
  /\ TypeOK
  /\ PollIsSane
  /\ NothingSkipped
  /\ ForwardReadsAll
  /\ PollSkipsNothing
  /\ PagesAreDelta

-----------------------------------------------------------------------------
(* Times, pages and what a poll makes of a page.                           *)

\* Min and Max of a non-empty finite set of natural numbers are elements of it
\* and enclose it: the greatest is one with the fewest above it.
LEMMA MinMaxOfNaturals ==
  ASSUME NEW S \in SUBSET Nat, S # {}, IsFiniteSet(S)
  PROVE  /\ Min(S) \in S /\ \A x \in S : Min(S) <= x
         /\ Max(S) \in S /\ \A x \in S : Max(S) >= x
<1>1. ASSUME NEW T \in SUBSET Nat, T # {}
      PROVE  \E x \in T : \A y \in T : x <= y
  <2>1. PICK x \in T : \A y \in T : ~ (<<y, x>> \in OpToRel(<, Nat))
    BY <1>1, NatLessThanWellFounded, WFMin
  <2>2. \A y \in T : ~ (y < x)
    BY <2>1 DEF OpToRel
  <2>. QED
    BY <2>2
<1> DEFINE Above(x) == {y \in S : y > x}
           Counts == {Cardinality(Above(x)) : x \in S}
<1>2. \A x \in S : IsFiniteSet(Above(x)) /\ Cardinality(Above(x)) \in Nat
  BY FS_Subset, FS_CardinalityType
<1>3. PICK n \in Counts : \A m \in Counts : n <= m
  <2>1. Counts \in SUBSET Nat /\ Counts # {}
    BY <1>2
  <2>. QED
    BY <1>1, <2>1
<1>4. PICK x \in S : n = Cardinality(Above(x))
  BY <1>3
<1>5. ASSUME NEW y \in S, y > x PROVE FALSE
  <2>1. (\A z \in S : z > y => z > x) /\ ~ (y > y)
    BY <1>5, x \in Nat, y \in Nat
  <2>2. Above(y) \in SUBSET Above(x) /\ y \in Above(x) /\ y \notin Above(y)
    BY <1>5, <2>1
  <2>3. Cardinality(Above(y)) <= n /\ Cardinality(Above(y)) # n
    BY <1>2, <1>4, <2>2, FS_Subset
  <2>4. Cardinality(Above(y)) \in Counts
    OBVIOUS
  <2>5. n <= Cardinality(Above(y)) /\ Cardinality(Above(y)) \in Nat /\ n \in Nat
    BY <1>2, <1>3, <1>4, <2>4
  <2> HIDE DEF Above
  <2>. QED
    BY <2>3, <2>5
<1>6. \A y \in S : x >= y
  BY <1>5
<1>7. Min(S) \in S /\ \A y \in S : Min(S) <= y
  BY <1>1 DEF Min
<1>8. Max(S) \in S /\ \A y \in S : Max(S) >= y
  BY <1>6 DEF Max
<1>. QED
  BY <1>7, <1>8

\* The time of a record is a positive number.
LEMMA TimeType ==
  ASSUME NEW u \in Record
  PROVE  TsOf[u] \in Nat /\ TsOf[u] > 0
BY RecordAssumption, IngestAssumption

\* A set of records is finite, and so are their times.
LEMMA TimesAreFinite ==
  ASSUME NEW S \in SUBSET Record
  PROVE  /\ IsFiniteSet(S)
         /\ IsFiniteSet({TsOf[u] : u \in S})
         /\ {TsOf[u] : u \in S} \in SUBSET Nat
<1>1. IsFiniteSet(S)
  BY RecordAssumption, FS_Subset
<1>2. IsFiniteSet({TsOf[u] : u \in S})
  <2> DEFINE f == [u \in S |-> TsOf[u]]
  <2>1. f \in Surjection(S, {TsOf[u] : u \in S})
    BY DEF Surjection
  <2>. QED
    BY <1>1, <2>1, FS_Surjection
<1>. QED
  BY <1>1, <1>2, TimeType

\* A page is the newest part of what is older than the time asked for.  The
\* oldest time told is missing only if that part is all there is.
LEMMA PageFacts ==
  ASSUME TypeOK, NEW ts \in Nat, NEW page \in Pages(ts),
         NEW oldest \in Oldest(page, ts)
  PROVE  /\ page \subseteq OlderThan(ts) /\ OlderThan(ts) \subseteq log
         /\ log \subseteq Record /\ page \subseteq seen
         /\ oldest \in Nat
         /\ oldest = None => page = OlderThan(ts)
         /\ oldest # None => /\ \E v \in page : TsOf[v] = oldest
                             /\ \A v \in page : oldest <= TsOf[v]
         /\ \A u \in page, v \in OlderThan(ts) \ page : TsOf[u] >= TsOf[v]
<1>1. /\ page \subseteq OlderThan(ts) /\ OlderThan(ts) \subseteq log
      /\ log \subseteq Record /\ page \subseteq seen
  BY DEF TypeOK, Pages, OlderThan
<1>2. \A u \in page, v \in OlderThan(ts) \ page : TsOf[u] >= TsOf[v]
  BY DEF Pages
<1>3. ASSUME page # {}
      PROVE  /\ OldestOf(page) \in Nat \ {0}
             /\ \E v \in page : TsOf[v] = OldestOf(page)
             /\ \A v \in page : OldestOf(page) <= TsOf[v]
  <2>1. page \in SUBSET Record /\ {TsOf[u] : u \in page} # {}
    BY <1>1, <1>3
  <2>2. /\ OldestOf(page) \in {TsOf[u] : u \in page}
        /\ \A t \in {TsOf[u] : u \in page} : OldestOf(page) <= t
    BY <2>1, TimesAreFinite, MinMaxOfNaturals DEF OldestOf
  <2>. QED
    BY <2>1, <2>2, TimeType
<1>4. CASE oldest = None /\ page = OlderThan(ts)
  BY <1>1, <1>2, <1>4 DEF None
<1>5. CASE page # {} /\ oldest = OldestOf(page)
  BY <1>1, <1>2, <1>3, <1>5 DEF None
<1>6. (oldest = None /\ page = OlderThan(ts)) \/ (page # {} /\ oldest = OldestOf(page))
  BY DEF Oldest
<1>. QED
  BY <1>4, <1>5, <1>6

\* What is older than the time asked for, and is not in the page, is older than
\* the page, if it does not share its time.
LEMMA LeftForNextPage ==
  ASSUME TypeOK, NEW ts \in Nat, NEW page \in Pages(ts),
         NEW oldest \in Oldest(page, ts), oldest # None,
         NEW u \in OlderThan(ts) \ page, Distinct(u)
  PROVE  TsOf[u] < oldest
<1>1. PICK v \in page : TsOf[v] = oldest
  BY PageFacts
<1>2. u \in Record /\ v \in Record /\ u # v /\ TsOf[v] >= TsOf[u]
  BY PageFacts
<1>3. TsOf[v] # TsOf[u]
  BY <1>2 DEF Distinct
<1>. QED
  BY <1>1, <1>2, <1>3, TimeType

\* A record that was not read because the pass stopped below the floor is not
\* owed to anyone.
LEMMA LeftBelowFloor ==
  ASSUME TypeOK, PollIsSane, NEW ts \in Nat, NEW page \in Pages(ts),
         NEW oldest \in Oldest(page, ts), oldest # None, oldest < floor,
         NEW u \in OlderThan(ts) \ page
  PROVE  ~ Owed(u)
<1>1. PICK v \in page : TsOf[v] = oldest
  BY PageFacts
<1>2. u \in Record /\ v \in Record /\ TsOf[v] >= TsOf[u]
  BY PageFacts
<1>3. floor <= topFloor /\ floor \in Nat /\ topFloor \in Nat
  BY DEF TypeOK, PollIsSane
<1>. QED
  BY <1>1, <1>2, <1>3, TimeType DEF Owed

\* What the forward pass does with a page: it keeps what is owed and new, and
\* its newest time rises only to that of a record it read.
LEMMA ReadForwardFacts ==
  ASSUME TypeOK, PollIsSane, NEW page \in SUBSET seen, ReadForward(page)
  PROVE  /\ batch' \subseteq seen \cap Readable /\ batch \subseteq batch'
         /\ newest' \in Nat /\ newest' >= newest
         /\ newest' = newest \/ \E w \in page : TsOf[w] = newest'
         /\ \A u \in page : Owed(u) /\ TsOf[u] > fwd => u \in batch'
<1> DEFINE new == Kept(page) \ Known(page)
           T == {newest} \cup {TsOf[u] : u \in new}
<1>1. /\ batch' = batch \cup new /\ newest' = Max(T)
      /\ new \subseteq page \cap Readable /\ new \in SUBSET Record
  BY DEF ReadForward, Kept, TypeOK
<1>2. /\ newest \in Nat /\ fwd \in Nat /\ floor \in Nat /\ topFloor \in Nat
      /\ floor <= topFloor
  BY DEF TypeOK, PollIsSane
<1>3. T \in SUBSET Nat /\ T # {} /\ IsFiniteSet(T)
  <2>1. {TsOf[u] : u \in new} \in SUBSET Nat /\ IsFiniteSet({TsOf[u] : u \in new})
    BY <1>1, TimesAreFinite
  <2>2. IsFiniteSet({TsOf[u] : u \in new} \cup {newest})
    BY <2>1, FS_AddElement
  <2>3. T = {TsOf[u] : u \in new} \cup {newest}
    OBVIOUS
  <2>. QED
    BY <1>2, <2>1, <2>2, <2>3
<1>4. newest' \in T /\ \A t \in T : newest' >= t
  <2> HIDE DEF T
  <2>. QED
    BY <1>1, <1>3, MinMaxOfNaturals
<1>5. ASSUME NEW u \in page, Owed(u), TsOf[u] > fwd
      PROVE  u \in new
  <2>1. u \in Readable /\ TsOf[u] >= topFloor /\ TsOf[u] \in Nat
    BY <1>5, TimeType DEF Owed, Distinct, TypeOK
  <2>2. TsOf[u] >= floor
    BY <1>2, <2>1
  <2>3. ~ (TsOf[u] <= fwd)
    BY <1>2, <1>5, <2>1
  <2>. QED
    BY <2>1, <2>2, <2>3 DEF Kept, Known
<1>6. newest' \in Nat /\ newest' >= newest
  BY <1>3, <1>4
<1>7. newest' = newest \/ \E w \in page : TsOf[w] = newest'
  BY <1>1, <1>4
<1>8. batch' \subseteq seen \cap Readable
  BY <1>1 DEF TypeOK
<1>. QED
  BY <1>1, <1>5, <1>6, <1>7, <1>8

-----------------------------------------------------------------------------
(* What happens beside a poll.                                             *)

BesidePoll ==
  \/ \E u \in Record : Append(u) \/ Rotate(u)
  \/ \E cutoff \in Cutoff : Cleanup(cutoff)
  \/ \E c \in Client : DeleteDevice(c)
  \/ SwitchIngest
  \/ UNCHANGED vars

\* Beside a poll nothing touches its locals or the checkpoint; what is still
\* owed was owed before, and stored if it was stored, or it has just been
\* logged and is newer than everything before it.
LEMMA BesidePollFacts ==
  ASSUME TypeOK, BesidePoll
  PROVE  /\ UNCHANGED <<fwd, cursor, done, failures>> /\ UNCHANGED poll
         /\ seen \subseteq seen' /\ topFloor <= topFloor' /\ TypeOK'
         /\ \A u \in log' \ log : \A v \in seen : TsOf[v] <= TsOf[u]
         /\ \A u \in Record : Owed(u)' =>
              \/ Owed(u) /\ (u \in queries => u \in queries')
              \/ \A v \in seen : TsOf[v] < TsOf[u]
<1>. USE DEF TypeOK
<1>1. ASSUME NEW a \in Record, Append(a)
      PROVE  /\ UNCHANGED <<fwd, cursor, done, failures>> /\ UNCHANGED poll
             /\ seen \subseteq seen' /\ topFloor <= topFloor' /\ TypeOK'
             /\ \A u \in log' \ log : \A v \in seen : TsOf[v] <= TsOf[u]
             /\ \A u \in Record : Owed(u)' =>
                  \/ Owed(u) /\ (u \in queries => u \in queries')
                  \/ \A v \in seen : TsOf[v] < TsOf[u]
  <2>1. /\ UNCHANGED <<queries, fwd, cursor, done, failures, topFloor, forgotten>>
        /\ UNCHANGED poll /\ log' = log \cup {a} /\ seen' = seen \cup {a}
        /\ \A v \in seen : TsOf[v] <= TsOf[a]
        /\ a \notin seen /\ UNCHANGED enabled
    BY <1>1 DEF Append, checkpoint
  <2>2. TypeOK'
    BY <2>1 DEF poll
  <2>3. ASSUME NEW u \in Record, Owed(u)', u \notin log
        PROVE  \A v \in seen : TsOf[v] < TsOf[u]
    <3>1. u = a /\ Distinct(u)
      BY <2>1, <2>3 DEF Owed, Distinct
    <3>2. ASSUME NEW v \in seen PROVE TsOf[v] < TsOf[u]
      <4>1. v \in Record /\ v # u /\ TsOf[v] <= TsOf[u] /\ TsOf[v] # TsOf[u]
        BY <2>1, <3>1 DEF Distinct
      <4>. QED
        BY <4>1, TimeType
    <3>. QED
      BY <3>2
  <2>4. ASSUME NEW u \in Record, Owed(u)', u \in log
        PROVE  Owed(u)
    BY <2>1, <2>4 DEF Owed, Distinct
  <2>. QED
    BY <2>1, <2>2, <2>3, <2>4
<1>2. ASSUME NEW a \in Record, Rotate(a)
      PROVE  /\ UNCHANGED <<fwd, cursor, done, failures>> /\ UNCHANGED poll
             /\ seen \subseteq seen' /\ topFloor <= topFloor' /\ TypeOK'
             /\ log' \subseteq log
             /\ \A u \in Record : Owed(u)' =>
                  Owed(u) /\ (u \in queries => u \in queries')
  BY <1>2 DEF Rotate, checkpoint, poll, Owed, Distinct
<1>3. ASSUME NEW cutoff \in Cutoff, Cleanup(cutoff)
      PROVE  /\ UNCHANGED <<fwd, cursor, done, failures>> /\ UNCHANGED poll
             /\ seen \subseteq seen' /\ topFloor <= topFloor' /\ TypeOK'
             /\ log' \subseteq log
             /\ \A u \in Record : Owed(u)' =>
                  Owed(u) /\ (u \in queries => u \in queries')
  <2>1. /\ UNCHANGED <<log, seen, fwd, cursor, done, forgotten, failures, enabled>>
        /\ UNCHANGED poll
        /\ topFloor' = Greater(topFloor, cutoff)
    BY <1>3 DEF Cleanup, checkpoint
  <2>2. PICK gone \in SUBSET Expired(cutoff) : queries' = queries \ gone
    BY <1>3 DEF Cleanup, Expire
  <2>3. /\ cutoff \in Nat /\ topFloor' \in Nat
        /\ topFloor <= topFloor' /\ cutoff <= topFloor'
    BY <2>1, RecordAssumption DEF Greater
  <2>4. TypeOK'
    BY <2>1, <2>2, <2>3 DEF poll
  <2>5. ASSUME NEW u \in Record, Owed(u)'
        PROVE  Owed(u) /\ (u \in queries => u \in queries')
    <3>1. TsOf[u] >= topFloor' /\ TsOf[u] \in Nat
      BY <2>5, TimeType DEF Owed
    <3>2. TsOf[u] >= topFloor /\ ~ (TsOf[u] < cutoff)
      BY <2>3, <3>1
    <3>3. Owed(u)
      BY <2>1, <2>5, <3>2 DEF Owed, Distinct
    <3>. QED
      BY <2>2, <3>2, <3>3 DEF Expired
  <2>. QED
    BY <2>1, <2>3, <2>4, <2>5
<1>4. ASSUME NEW c \in Client, DeleteDevice(c)
      PROVE  /\ UNCHANGED <<fwd, cursor, done, failures>> /\ UNCHANGED poll
             /\ seen \subseteq seen' /\ topFloor <= topFloor' /\ TypeOK'
             /\ log' \subseteq log
             /\ \A u \in Record : Owed(u)' =>
                  Owed(u) /\ (u \in queries => u \in queries')
  BY <1>4 DEF DeleteDevice, Forget, checkpoint, poll, Owed, Distinct
<1>5. CASE SwitchIngest
  BY <1>5 DEF SwitchIngest, checkpoint, poll, Owed, Distinct
<1>6. CASE UNCHANGED vars
  BY <1>6 DEF vars, checkpoint, poll, Owed, Distinct
<1>. QED
  BY <1>1, <1>2, <1>3, <1>4, <1>5, <1>6 DEF BesidePoll

\* Whatever has been reached is older than what is newer than everything.
LEMMA NewerThanReached ==
  ASSUME NEW ts \in Nat, Reached(ts), NEW u \in Record,
         \A v \in seen : TsOf[v] < TsOf[u]
  PROVE  TsOf[u] > ts
BY TimeType DEF Reached

\* Whatever happens beside a poll, it still skips nothing.
LEMMA BesidePollKeepsIInv ==
  ASSUME IInv, BesidePoll
  PROVE  IInv'
<1>. USE DEF IInv
<1>1. /\ UNCHANGED <<fwd, cursor, done>>
      /\ UNCHANGED <<phase, pages, older, newest, batch, floor, nextCursor, nextDone>>
      /\ seen \subseteq seen' /\ topFloor <= topFloor' /\ TypeOK'
      /\ \A u \in log' \ log : \A v \in seen : TsOf[v] <= TsOf[u]
      /\ \A u \in Record : Owed(u)' =>
           \/ Owed(u) /\ (u \in queries => u \in queries')
           \/ \A v \in seen : TsOf[v] < TsOf[u]
  BY BesidePollFacts DEF poll
<1>2. /\ fwd \in Nat /\ newest \in Nat /\ older \in Nat /\ floor \in Nat
      /\ topFloor \in Nat /\ topFloor' \in Nat /\ seen \subseteq Record
  BY <1>1 DEF TypeOK
<1>3. \A ts : Reached(ts) => Reached(ts)'
  BY <1>1 DEF Reached
<1>4. PollIsSane'
  <2>1. floor' <= topFloor'
    BY <1>1, <1>2 DEF PollIsSane
  <2>2. Reached(fwd)' /\ (phase' # "idle" => Reached(newest)')
    BY <1>1, <1>3 DEF PollIsSane, Reached
  <2>. QED
    BY <1>1, <2>1, <2>2 DEF PollIsSane
<1>5. NothingSkipped'
  <2>. SUFFICES ASSUME NEW u \in Record, Owed(u)', TsOf[u] <= fwd'
                PROVE  (u \in queries \/ (~ done /\ cursor # None /\ TsOf[u] < cursor))'
    BY DEF NothingSkipped
  <2>1. ~ (\A v \in seen : TsOf[v] < TsOf[u])
    BY <1>1, <1>2, NewerThanReached, TimeType DEF PollIsSane
  <2>. QED
    BY <1>1, <2>1 DEF NothingSkipped
<1>6. ForwardReadsAll'
  <2>. SUFFICES ASSUME phase = "forward", older # None, NEW u \in Record, Owed(u)'
                PROVE  /\ TsOf[u] > fwd /\ TsOf[u] >= older
                            => u \in batch \/ TsOf[u] > newest
                       /\ TsOf[u] <= fwd => TsOf[u] < older
    BY <1>1 DEF ForwardReadsAll
  <2>1. CASE \A v \in seen : TsOf[v] < TsOf[u]
    <3>1. TsOf[u] > newest /\ TsOf[u] > fwd
      BY <1>2, <2>1, NewerThanReached DEF PollIsSane
    <3>. QED
      BY <1>2, <3>1, TimeType
  <2>2. CASE Owed(u)
    BY <2>2 DEF ForwardReadsAll
  <2>. QED
    BY <1>1, <2>1, <2>2
<1>7. PollSkipsNothing'
  <2>. SUFFICES ASSUME phase \in {"backfill", "write"}, NEW u \in Record, Owed(u)',
                       TsOf[u] <= newest
                PROVE  \/ u \in queries' \cup batch
                       \/ ~ nextDone /\ nextCursor # None /\ TsOf[u] < nextCursor
    BY <1>1 DEF PollSkipsNothing
  <2>1. ~ (\A v \in seen : TsOf[v] < TsOf[u])
    BY <1>2, NewerThanReached, TimeType DEF PollIsSane
  <2>. QED
    BY <1>1, <2>1 DEF PollSkipsNothing
<1>8. PagesAreDelta'
  <2>. SUFFICES ASSUME phase = "forward", older # None
                PROVE  /\ Reached(older)'
                       /\ \/ pages * PageSize <= Cardinality(Delta(older))'
                          \/ /\ pages * PageSize < PageSize + Cardinality(Delta(older))'
                             /\ OlderThan(older)' = {}
    BY <1>1 DEF PagesAreDelta
  <2>1. Reached(older)
    BY DEF PagesAreDelta
  <2>2. Reached(older)'
    BY <1>1, <2>1 DEF Reached
  <2>3. /\ Cardinality(Delta(older)) \in Nat /\ Cardinality(Delta(older))' \in Nat
        /\ Cardinality(Delta(older)) <= Cardinality(Delta(older))'
    <3>1. Delta(older) \subseteq Delta(older)' /\ Delta(older)' \in SUBSET Record
      BY <1>1 DEF Delta, TypeOK
    <3>. QED
      BY <3>1, TimesAreFinite, FS_Subset, FS_CardinalityType
  <2>4. OlderThan(older) = {} => OlderThan(older)' = {}
    <3>. SUFFICES ASSUME OlderThan(older) = {}, NEW u \in log', TsOf[u] < older
                  PROVE  FALSE
      BY <1>1 DEF OlderThan
    <3>1. u \in log' \ log /\ u \in Record
      BY <1>1 DEF OlderThan, TypeOK
    <3>2. PICK v \in seen : TsOf[v] = older
      BY <2>1 DEF Reached, None
    <3>3. TsOf[v] <= TsOf[u] /\ v \in Record
      BY <1>1, <1>2, <3>1
    <3>. QED
      BY <1>2, <3>1, <3>2, <3>3, TimeType
  <2>5. pages \in Nat /\ PageSize \in Nat /\ pages * PageSize \in Nat
    BY IngestAssumption DEF TypeOK
  <2>. QED
    BY <2>2, <2>3, <2>4, <2>5 DEF PagesAreDelta
<1>. QED
  BY <1>1, <1>4, <1>5, <1>6, <1>7, <1>8

-----------------------------------------------------------------------------
(* The steps of a poll.                                                    *)

LEMMA InitIInv == Init => IInv
<1>. SUFFICES ASSUME Init PROVE IInv
  OBVIOUS
<1>. USE DEF Init, Empty
<1>1. TypeOK
  <2>1. done \in BOOLEAN /\ nextDone \in BOOLEAN /\ enabled \in BOOLEAN
    BY Zenon
  <2>2. pages \in 0..MaxPages /\ failures \in 0..MaxFailures
    BY IngestAssumption
  <2>. QED
    BY <2>1, <2>2 DEF TypeOK, Phase, None
<1>2. PollIsSane
  BY DEF PollIsSane, Reached
<1>3. NothingSkipped
  BY TimeType DEF NothingSkipped
<1>4. ForwardReadsAll /\ PollSkipsNothing /\ PagesAreDelta
  BY DEF ForwardReadsAll, PollSkipsNothing, PagesAreDelta
<1>. QED
  BY <1>1, <1>2, <1>3, <1>4 DEF IInv

\* A poll starts from the checkpoint with nothing read.
LEMMA StartPollKeepsIInv ==
  ASSUME IInv, NEW f \in Cutoff, StartPoll(f)
  PROVE  IInv'
<1>. USE DEF IInv
<1>1. /\ UNCHANGED <<queries, log, seen, fwd, cursor, done, enabled, forgotten, failures>>
      /\ phase' = "forward" /\ pages' = 0 /\ older' = None /\ newest' = fwd
      /\ batch' = {} /\ floor' = f /\ nextCursor' = cursor /\ nextDone' = done
      /\ topFloor' = Greater(topFloor, f)
  BY DEF StartPoll, checkpoint
<1>2. /\ f \in Nat /\ topFloor \in Nat /\ topFloor' \in Nat /\ fwd \in Nat
      /\ topFloor' >= topFloor /\ topFloor' >= f
  BY <1>1, RecordAssumption DEF Greater, TypeOK
<1>3. TypeOK'
  BY <1>1, <1>2, IngestAssumption DEF TypeOK, Phase, None
<1>4. PollIsSane'
  <2>1. done => cursor = None
    BY DEF TypeOK
  <2>2. pages' < MaxPages
    BY <1>1, IngestAssumption
  <2>3. Reached(fwd)' /\ Reached(newest)' /\ newest' >= fwd' /\ floor' <= topFloor'
    BY <1>1, <1>2 DEF PollIsSane, Reached
  <2>. QED
    BY <1>1, <2>1, <2>2, <2>3 DEF PollIsSane
<1>5. NothingSkipped'
  <2>1. \A u \in Record : Owed(u)' => Owed(u)
    BY <1>1, <1>2, TimeType DEF Owed, Distinct
  <2>. QED
    BY <1>1, <2>1 DEF NothingSkipped
<1>6. ForwardReadsAll' /\ PollSkipsNothing' /\ PagesAreDelta'
  BY <1>1 DEF ForwardReadsAll, PollSkipsNothing, PagesAreDelta
<1>. QED
  BY <1>3, <1>4, <1>5, <1>6

\* Reading a page leaves everything but the poll's locals alone, and what is
\* owed stays owed.
Reading ==
  UNCHANGED <<queries, log, seen, fwd, cursor, done, enabled, floor, topFloor,
              forgotten, failures>>

LEMMA ReadingChangesNothingOwed ==
  ASSUME Reading
  PROVE  /\ \A u : Owed(u)' <=> Owed(u)
         /\ \A ts : Reached(ts)' <=> Reached(ts)
         /\ \A ts : OlderThan(ts)' = OlderThan(ts)
         /\ \A ts : Delta(ts)' = Delta(ts)
         /\ NothingSkipped => NothingSkipped'
<1>1. /\ \A u : Owed(u)' <=> Owed(u)
      /\ \A ts : Reached(ts)' <=> Reached(ts)
      /\ \A ts : OlderThan(ts)' = OlderThan(ts)
      /\ \A ts : Delta(ts)' = Delta(ts)
  BY DEF Reading, Owed, Distinct, Reached, OlderThan, Delta
<1>2. NothingSkipped => NothingSkipped'
  BY <1>1 DEF Reading, NothingSkipped
<1>. QED
  BY <1>1, <1>2

\* What a page of the forward pass does whichever way the pass goes on: the
\* types hold, and the newest time is that of a record.
LEMMA ForwardPageIsSane ==
  ASSUME IInv, NEW page \in Pages(older), ReadForward(page)
  PROVE  /\ Reading
         /\ phase = "forward" /\ pages' = pages + 1 /\ pages' \in 0..MaxPages
         /\ nextCursor = cursor /\ nextDone = done
         /\ batch' \subseteq (seen \cap Readable)
         /\ newest' \in Nat /\ newest' >= fwd
         /\ Reached(newest)'
<1>. USE DEF IInv
<1>1. /\ Reading
      /\ phase = "forward" /\ pages' = pages + 1
      /\ nextCursor = cursor /\ nextDone = done
  BY DEF ReadForward, Reading, checkpoint, PollIsSane
<1>2. page \in SUBSET seen
  BY DEF Pages, OlderThan, TypeOK
<1>3. /\ batch' \subseteq (seen \cap Readable)
      /\ newest' \in Nat /\ newest' >= newest
      /\ newest' = newest \/ \E w \in page : TsOf[w] = newest'
  BY <1>2, ReadForwardFacts
<1>4. newest >= fwd /\ newest \in Nat /\ fwd \in Nat /\ Reached(newest)
  BY <1>1 DEF PollIsSane, TypeOK
<1>5. newest' >= fwd
  BY <1>3, <1>4
<1>6. Reached(newest)'
  BY <1>1, <1>2, <1>3, <1>4 DEF Reached, Reading
<1>7. pages' \in 0..MaxPages
  <2>1. pages \in 0..MaxPages /\ pages < MaxPages /\ MaxPages \in Nat
    BY <1>1, IngestAssumption DEF PollIsSane, TypeOK
  <2>. QED
    BY <1>1, <2>1
<1>. QED
  BY <1>1, <1>3, <1>5, <1>6, <1>7

\* What the forward pass has passed by after a page: everything above the
\* horizon that is not in the batch is newer than the newest time, except what
\* is older than the page.
LEMMA ForwardPageMissesNothing ==
  ASSUME IInv, NEW page \in Pages(older), ReadForward(page),
         NEW u \in Record, Owed(u), TsOf[u] > fwd, u \notin OlderThan(older) \ page
  PROVE  u \in batch' \/ TsOf[u] > newest'
<1>. USE DEF IInv
<1>1. page \in SUBSET seen /\ page \subseteq OlderThan(older) /\ seen \subseteq Record
  BY DEF Pages, OlderThan, TypeOK
<1>2. /\ newest' = newest \/ \E w \in page : TsOf[w] = newest'
      /\ newest' >= newest /\ newest' \in Nat /\ batch \subseteq batch'
      /\ u \in page => u \in batch'
  BY <1>1, ReadForwardFacts
<1>3. CASE u \in page
  BY <1>2, <1>3
<1>4. CASE u \notin OlderThan(older)
  <2>1. u \in log
    BY DEF Owed
  <2>2. older # None /\ ~ (TsOf[u] < older)
    BY <1>4, <2>1 DEF OlderThan
  <2>3. older \in Nat /\ newest \in Nat /\ TsOf[u] \in Nat
    BY TimeType DEF TypeOK
  <2>4. u \in batch \/ TsOf[u] > newest
    BY <2>2, <2>3 DEF ForwardReadsAll, ReadForward
  <2>5. ASSUME NEW w \in page, TsOf[w] = newest' PROVE TsOf[u] > newest'
    <3>1. TsOf[w] < older
      BY <1>1, <2>2 DEF OlderThan
    <3>. QED
      BY <1>2, <2>2, <2>3, <2>5, <3>1
  <2>. QED
    BY <1>2, <2>4, <2>5
<1>. QED
  BY <1>3, <1>4

\* A page that reaches neither the horizon nor the end of the log nor the floor
\* leaves what is known below it.
LEMMA NotCaughtUpFacts ==
  ASSUME IInv, NEW page \in Pages(older), NEW oldest \in Oldest(page, older),
         ReadForward(page), ~ CaughtUp(page, oldest)
  PROVE  /\ oldest \in Nat /\ oldest # None /\ oldest >= floor
         /\ \A u \in page \cap Readable : TsOf[u] > fwd
         /\ \A u \in Record : Owed(u) =>
              /\ TsOf[u] > fwd /\ TsOf[u] >= oldest => u \in batch' \/ TsOf[u] > newest'
              /\ TsOf[u] <= fwd => TsOf[u] < oldest
<1>. USE DEF IInv
<1>1. older \in Nat /\ fwd \in Nat /\ floor \in Nat
  BY DEF TypeOK
<1>2. oldest \in Nat /\ oldest # None /\ ~ (oldest < floor)
  BY <1>1, PageFacts DEF CaughtUp
<1>3. \A u \in page \cap Readable : TsOf[u] > fwd
  BY <1>1, TimeType, IngestAssumption DEF CaughtUp, Known
<1>4. ASSUME NEW u \in OlderThan(older) \ page, Owed(u)
      PROVE  TsOf[u] < oldest
  BY <1>1, <1>2, <1>4, LeftForNextPage DEF Owed
<1>5. ASSUME NEW u \in Record, Owed(u), TsOf[u] > fwd, TsOf[u] >= oldest
      PROVE  u \in batch' \/ TsOf[u] > newest'
  <2>1. u \notin OlderThan(older) \ page
    BY <1>2, <1>4, <1>5, TimeType
  <2>. QED
    BY <1>5, <2>1, ForwardPageMissesNothing
<1>6. ASSUME NEW u \in Record, Owed(u), TsOf[u] <= fwd
      PROVE  TsOf[u] < oldest
  <2>1. u \in Readable /\ u \in log
    BY <1>6 DEF Owed, Distinct
  <2>2. u \notin page
    BY <1>1, <1>3, <1>6, <2>1, TimeType
  <2>3. u \in OlderThan(older)
    <3>1. older # None => TsOf[u] < older
      BY <1>6 DEF ForwardReadsAll, ReadForward
    <3>. QED
      BY <2>1, <3>1 DEF OlderThan
  <2>. QED
    BY <1>4, <1>6, <2>2, <2>3
<1>. QED
  BY <1>1, <1>2, <1>3, <1>5, <1>6

\* A forward pass that has caught up has read everything above the horizon.
LEMMA ForwardCaughtUpKeepsIInv ==
  ASSUME IInv, ForwardCaughtUp
  PROVE  IInv'
<1>. USE DEF IInv
<1>0. PICK page \in Pages(older) : \E oldest \in Oldest(page, older) :
        /\ ReadForward(page) /\ CaughtUp(page, oldest)
        /\ phase' = IF BackfillNext(pages + 1) THEN "backfill" ELSE "write"
        /\ UNCHANGED <<older, nextCursor, nextDone>>
  BY DEF ForwardCaughtUp
<1>1. PICK oldest \in Oldest(page, older) :
        /\ ReadForward(page) /\ CaughtUp(page, oldest)
        /\ phase' = IF BackfillNext(pages + 1) THEN "backfill" ELSE "write"
        /\ UNCHANGED <<older, nextCursor, nextDone>>
  BY <1>0
<1>2. /\ Reading
      /\ phase = "forward" /\ pages' = pages + 1 /\ pages' \in 0..MaxPages
      /\ nextCursor = cursor /\ nextDone = done
      /\ batch' \subseteq (seen \cap Readable)
      /\ newest' \in Nat /\ newest' >= fwd /\ Reached(newest)'
  BY <1>1, ForwardPageIsSane
<1>3. /\ \A u : Owed(u)' <=> Owed(u)
      /\ \A ts : Reached(ts)' <=> Reached(ts)
      /\ NothingSkipped'
  BY <1>2, ReadingChangesNothingOwed
<1>4. /\ phase' \in {"backfill", "write"}
      /\ phase' = "backfill" => ~ nextDone /\ nextCursor # None /\ pages' < MaxPages
  BY <1>1, <1>2 DEF BackfillNext
<1>5. TypeOK'
  BY <1>1, <1>2, <1>4 DEF Reading, TypeOK, Phase
<1>6. PollIsSane'
  <2>1. Reached(fwd)' /\ newest' >= fwd' /\ floor' <= topFloor'
    BY <1>2, <1>3 DEF PollIsSane, Reading, Reached
  <2>. QED
    BY <1>1, <1>2, <1>4, <2>1 DEF PollIsSane
<1>7. PollSkipsNothing'
  <2>. SUFFICES ASSUME NEW u \in Record, Owed(u), TsOf[u] <= newest'
                PROVE  \/ u \in queries \cup batch'
                       \/ ~ done /\ cursor # None /\ TsOf[u] < cursor
    BY <1>1, <1>2, <1>3 DEF PollSkipsNothing, Reading
  <2>1. CASE TsOf[u] <= fwd
    BY <2>1 DEF NothingSkipped
  <2>2. CASE TsOf[u] > fwd
    <3>1. older \in Nat /\ fwd \in Nat /\ TsOf[u] \in Nat /\ u \in log
      BY TimeType DEF TypeOK, Owed
    <3>2. u \notin OlderThan(older) \ page
      <4>. SUFFICES ASSUME u \in OlderThan(older) \ page PROVE FALSE
        OBVIOUS
      <4>1. \A v \in page : v \in Record /\ TsOf[v] >= TsOf[u]
        BY <3>1, PageFacts
      <4>2. CASE Known(page) # {}
        BY <2>2, <3>1, <4>1, <4>2, TimeType DEF Known
      <4>3. CASE oldest = None
        BY <3>1, <4>3, PageFacts
      <4>4. CASE oldest # None /\ oldest < floor
        BY <3>1, <4>4, LeftBelowFloor
      <4>. QED
        BY <1>1, <4>2, <4>3, <4>4 DEF CaughtUp
    <3>3. u \in batch' \/ TsOf[u] > newest'
      BY <1>1, <2>2, <3>2, ForwardPageMissesNothing
    <3>. QED
      BY <1>2, <3>1, <3>3
  <2>. QED
    BY <2>1, <2>2, TimeType DEF TypeOK
<1>8. ForwardReadsAll' /\ PagesAreDelta'
  BY <1>4 DEF ForwardReadsAll, PagesAreDelta
<1>. QED
  BY <1>3, <1>5, <1>6, <1>7, <1>8

\* A forward pass that runs out of budget leaves the rest to the backfill.
LEMMA ForwardOutOfBudgetKeepsIInv ==
  ASSUME IInv, ForwardOutOfBudget
  PROVE  IInv'
<1>. USE DEF IInv
<1>0. PICK page \in Pages(older) : \E oldest \in Oldest(page, older) :
        /\ ReadForward(page) /\ ~ CaughtUp(page, oldest)
        /\ nextCursor' = oldest /\ nextDone' = FALSE /\ phase' = "write"
        /\ UNCHANGED older
  BY DEF ForwardOutOfBudget
<1>1. PICK oldest \in Oldest(page, older) :
        /\ ReadForward(page) /\ ~ CaughtUp(page, oldest)
        /\ nextCursor' = oldest /\ nextDone' = FALSE /\ phase' = "write"
        /\ UNCHANGED older
  BY <1>0
<1>2. /\ Reading
      /\ phase = "forward" /\ pages' = pages + 1 /\ pages' \in 0..MaxPages
      /\ batch' \subseteq (seen \cap Readable)
      /\ newest' \in Nat /\ newest' >= fwd /\ Reached(newest)'
  BY <1>1, ForwardPageIsSane
<1>3. /\ \A u : Owed(u)' <=> Owed(u)
      /\ \A ts : Reached(ts)' <=> Reached(ts)
      /\ NothingSkipped'
  BY <1>2, ReadingChangesNothingOwed
<1>4. /\ oldest \in Nat /\ oldest # None
      /\ \A u \in Record : Owed(u) =>
           /\ TsOf[u] > fwd /\ TsOf[u] >= oldest => u \in batch' \/ TsOf[u] > newest'
           /\ TsOf[u] <= fwd => TsOf[u] < oldest
  BY <1>1, NotCaughtUpFacts
<1>5. TypeOK'
  BY <1>1, <1>2, <1>4 DEF Reading, TypeOK, Phase
<1>6. PollIsSane'
  <2>1. Reached(fwd)' /\ newest' >= fwd' /\ floor' <= topFloor'
    BY <1>2, <1>3 DEF PollIsSane, Reading, Reached
  <2>. QED
    BY <1>1, <1>2, <2>1 DEF PollIsSane
<1>7. PollSkipsNothing'
  <2>. SUFFICES ASSUME NEW u \in Record, Owed(u), TsOf[u] <= newest'
                PROVE  u \in batch' \/ TsOf[u] < oldest
    BY <1>1, <1>2, <1>3, <1>4 DEF PollSkipsNothing
  <2>1. fwd \in Nat /\ TsOf[u] \in Nat
    BY TimeType DEF TypeOK
  <2>. QED
    BY <1>2, <1>4, <2>1
<1>8. ForwardReadsAll' /\ PagesAreDelta'
  BY <1>1 DEF ForwardReadsAll, PagesAreDelta
<1>. QED
  BY <1>3, <1>5, <1>6, <1>7, <1>8

\* The pages read so far were full of the delta, and so is this one, or nothing
\* is left after it.
LEMMA NextPageIsDelta ==
  ASSUME IInv, NEW page \in Pages(older), NEW oldest \in Oldest(page, older),
         ReadForward(page), ~ CaughtUp(page, oldest)
  PROVE  /\ Reached(oldest)
         /\ \/ (pages + 1) * PageSize <= Cardinality(Delta(oldest))
            \/ /\ (pages + 1) * PageSize < PageSize + Cardinality(Delta(oldest))
               /\ OlderThan(oldest) = {}
<1>. USE DEF IInv
<1>1. /\ oldest \in Nat /\ oldest # None
      /\ \A u \in page \cap Readable : TsOf[u] > fwd
  BY NotCaughtUpFacts
<1>2. /\ older \in Nat /\ pages \in Nat /\ seen \subseteq Record
  BY DEF TypeOK
<1>3. /\ page \subseteq OlderThan(older) /\ page \subseteq seen
      /\ \A v \in page : oldest <= TsOf[v]
  BY <1>1, <1>2, PageFacts
<1>4. PICK w \in page : TsOf[w] = oldest
  BY <1>1, <1>2, PageFacts
<1>5. Reached(oldest)
  BY <1>3, <1>4 DEF Reached
<1>6. /\ page \subseteq Delta(oldest)
      /\ older # None => Delta(older) \subseteq Delta(oldest) /\ page \cap Delta(older) = {}
  <2>1. page \subseteq Delta(oldest)
    BY <1>1, <1>3 DEF Delta
  <2>2. ASSUME older # None
        PROVE  Delta(older) \subseteq Delta(oldest) /\ page \cap Delta(older) = {}
    <3>1. \A v \in page : v \in Record /\ TsOf[v] < older
      BY <1>2, <1>3, <2>2 DEF OlderThan
    <3>2. oldest < older
      BY <1>4, <3>1
    <3>3. ASSUME NEW v \in Delta(older) PROVE v \in Delta(oldest) /\ v \notin page
      BY <1>1, <1>2, <3>1, <3>2, <3>3, TimeType DEF Delta
    <3>. QED
      BY <3>3
  <2>. QED
    BY <2>1, <2>2
<1>7. /\ IsFiniteSet(page) /\ IsFiniteSet(Delta(older)) /\ IsFiniteSet(Delta(oldest))
      /\ Cardinality(page) \in Nat /\ Cardinality(Delta(older)) \in Nat
      /\ Cardinality(Delta(oldest)) \in Nat
      /\ Cardinality(page) <= Cardinality(Delta(oldest))
      /\ Cardinality(page) > 0
  <2>1. page \in SUBSET Record /\ Delta(older) \in SUBSET Record
        /\ Delta(oldest) \in SUBSET Record
    BY <1>2, <1>3 DEF Delta
  <2>2. IsFiniteSet(page) /\ IsFiniteSet(Delta(older)) /\ IsFiniteSet(Delta(oldest))
    BY <2>1, TimesAreFinite
  <2>3. /\ Cardinality(page) \in Nat /\ Cardinality(Delta(older)) \in Nat
        /\ Cardinality(Delta(oldest)) \in Nat
    BY <2>2, FS_CardinalityType
  <2>4. Cardinality(page) <= Cardinality(Delta(oldest))
    BY <1>6, <2>2, FS_Subset
  <2>5. Cardinality(page) # 0
    BY <1>4, <2>2, FS_EmptySet
  <2>. QED
    BY <2>2, <2>3, <2>4, <2>5
<1>8. /\ PageSize \in Nat /\ pages * PageSize \in Nat
      /\ (pages + 1) * PageSize = pages * PageSize + PageSize
  BY <1>2, IngestAssumption
<1>9. \/ Cardinality(page) = PageSize
      \/ Cardinality(page) < PageSize /\ page = OlderThan(older) /\ OlderThan(oldest) = {}
  <2>1. \/ Cardinality(page) = PageSize
        \/ page = OlderThan(older) /\ Cardinality(page) < PageSize
    BY DEF Pages
  <2>2. ASSUME page = OlderThan(older), NEW u \in OlderThan(oldest)
        PROVE  FALSE
    <3>1. u \in log /\ u \in Record /\ TsOf[u] < oldest
      BY <1>1, <2>2 DEF OlderThan, TypeOK
    <3>2. w \in Record /\ (older # None => TsOf[w] < older)
      BY <1>2, <1>3, <1>4 DEF OlderThan
    <3>3. u \in page
      BY <1>2, <1>4, <2>2, <3>1, <3>2, TimeType DEF OlderThan
    <3>. QED
      BY <1>1, <1>3, <3>1, <3>3, TimeType
  <2>. QED
    BY <2>1, <2>2
<1>10. CASE older = None
  <2>1. pages = 0
    BY <1>10 DEF PagesAreDelta, ReadForward
  <2>. QED
    BY <1>5, <1>7, <1>8, <1>9, <2>1
<1>11. CASE older # None
  <2>1. pages * PageSize <= Cardinality(Delta(older))
    <3>1. OlderThan(older) # {}
      BY <1>3, <1>4
    <3>. QED
      BY <1>11, <3>1 DEF PagesAreDelta, ReadForward
  <2>2. Cardinality(page) + Cardinality(Delta(older)) <= Cardinality(Delta(oldest))
    <3>1. Cardinality(page \cup Delta(older))
            = Cardinality(page) + Cardinality(Delta(older))
                - Cardinality(page \cap Delta(older))
      BY <1>7, FS_Union, Zenon
    <3>2. Cardinality(page \cap Delta(older)) = 0
      BY <1>6, <1>11, FS_EmptySet
    <3>3. Cardinality(page \cup Delta(older)) <= Cardinality(Delta(oldest))
      BY <1>6, <1>7, <1>11, FS_Subset
    <3>. QED
      BY <1>7, <3>1, <3>2, <3>3
  <2>. QED
    BY <1>5, <1>7, <1>8, <1>9, <2>1, <2>2
<1>. QED
  BY <1>10, <1>11

\* A forward pass that goes on has missed nothing.
LEMMA ForwardContinuesKeepsIInv ==
  ASSUME IInv, ForwardContinues
  PROVE  IInv'
<1>. USE DEF IInv
<1>0. PICK page \in Pages(older) : \E oldest \in Oldest(page, older) :
        /\ ReadForward(page) /\ ~ CaughtUp(page, oldest)
        /\ pages + 1 < MaxPages /\ older' = oldest
        /\ UNCHANGED <<phase, nextCursor, nextDone>>
  BY DEF ForwardContinues
<1>1. PICK oldest \in Oldest(page, older) :
        /\ ReadForward(page) /\ ~ CaughtUp(page, oldest)
        /\ pages + 1 < MaxPages /\ older' = oldest
        /\ UNCHANGED <<phase, nextCursor, nextDone>>
  BY <1>0
<1>2. /\ Reading
      /\ phase = "forward" /\ pages' = pages + 1 /\ pages' \in 0..MaxPages
      /\ nextCursor = cursor /\ nextDone = done
      /\ batch' \subseteq (seen \cap Readable)
      /\ newest' \in Nat /\ newest' >= fwd /\ Reached(newest)'
  BY <1>1, ForwardPageIsSane
<1>3. /\ \A u : Owed(u)' <=> Owed(u)
      /\ \A ts : Reached(ts)' <=> Reached(ts)
      /\ \A ts : OlderThan(ts)' = OlderThan(ts)
      /\ \A ts : Delta(ts)' = Delta(ts)
      /\ NothingSkipped'
  BY <1>2, ReadingChangesNothingOwed
<1>4. /\ oldest \in Nat /\ oldest # None
      /\ \A u \in Record : Owed(u) =>
           /\ TsOf[u] > fwd /\ TsOf[u] >= oldest => u \in batch' \/ TsOf[u] > newest'
           /\ TsOf[u] <= fwd => TsOf[u] < oldest
  BY <1>1, NotCaughtUpFacts
<1>5. TypeOK'
  BY <1>1, <1>2, <1>4 DEF Reading, TypeOK, Phase
<1>6. PollIsSane'
  <2>1. Reached(fwd)' /\ newest' >= fwd' /\ floor' <= topFloor'
    BY <1>2, <1>3 DEF PollIsSane, Reading, Reached
  <2>2. phase' = "forward" /\ pages' < MaxPages
    BY <1>1, <1>2
  <2>. QED
    BY <1>1, <1>2, <2>1, <2>2 DEF PollIsSane, Reading
<1>7. ForwardReadsAll'
  BY <1>1, <1>2, <1>3, <1>4 DEF ForwardReadsAll, Reading
<1>8. PollSkipsNothing'
  BY <1>1, <1>2 DEF PollSkipsNothing
<1>9. PagesAreDelta'
  <2>1. /\ Reached(oldest)
        /\ \/ (pages + 1) * PageSize <= Cardinality(Delta(oldest))
           \/ /\ (pages + 1) * PageSize < PageSize + Cardinality(Delta(oldest))
              /\ OlderThan(oldest) = {}
    BY <1>1, NextPageIsDelta
  <2>2. /\ Reached(older)' /\ Cardinality(Delta(older))' = Cardinality(Delta(oldest))
        /\ OlderThan(older)' = OlderThan(oldest)
    BY <1>1, <1>2, <2>1 DEF Reading, Reached, Delta, OlderThan
  <2>3. pages' = pages + 1 /\ older' # None
    BY <1>1, <1>2, <1>4
  <2>. QED
    BY <2>1, <2>2, <2>3 DEF PagesAreDelta
<1>. QED
  BY <1>3, <1>5, <1>6, <1>7, <1>8, <1>9

\* What a page of the backfill pass does whichever way the pass goes on: what
\* is owed and was ahead of the cursor is in the batch, or older than the page.
LEMMA BackfillPageFacts ==
  ASSUME IInv, NEW page \in Pages(nextCursor),
         NEW oldest \in Oldest(page, nextCursor), ReadBackfill(page)
  PROVE  /\ Reading /\ UNCHANGED <<older, newest>>
         /\ phase = "backfill" /\ pages' = pages + 1 /\ pages' \in 0..MaxPages
         /\ oldest \in Nat
         /\ batch \subseteq batch' /\ batch' \subseteq (seen \cap Readable)
         /\ \A u \in Record : Owed(u) /\ TsOf[u] <= newest =>
              \/ u \in queries \cup batch'
              \/ oldest # None /\ oldest >= floor /\ TsOf[u] < oldest
<1>. USE DEF IInv
<1>1. /\ Reading /\ UNCHANGED <<older, newest>>
      /\ phase = "backfill" /\ pages' = pages + 1 /\ batch' = batch \cup Kept(page)
  BY DEF ReadBackfill, Reading, checkpoint
<1>2. /\ nextCursor \in Nat /\ nextCursor # None /\ floor \in Nat /\ topFloor \in Nat
      /\ floor <= topFloor
  BY <1>1 DEF TypeOK, PollIsSane
<1>3. page \subseteq seen /\ oldest \in Nat
  BY <1>2, PageFacts
<1>4. batch \subseteq batch' /\ batch' \subseteq (seen \cap Readable)
  BY <1>1, <1>3 DEF Kept, TypeOK
<1>5. pages' \in 0..MaxPages
  <2>1. pages \in 0..MaxPages /\ pages < MaxPages /\ MaxPages \in Nat
    BY <1>1, IngestAssumption DEF PollIsSane, TypeOK
  <2>. QED
    BY <1>1, <2>1
<1>6. ASSUME NEW u \in Record, Owed(u), TsOf[u] <= newest
      PROVE  \/ u \in queries \cup batch'
             \/ oldest # None /\ oldest >= floor /\ TsOf[u] < oldest
  <2>. SUFFICES ASSUME u \notin queries \cup batch'
                PROVE  oldest # None /\ oldest >= floor /\ TsOf[u] < oldest
    OBVIOUS
  <2>1. TsOf[u] < nextCursor /\ u \in log /\ u \in Readable /\ TsOf[u] >= topFloor
    BY <1>1, <1>4, <1>6 DEF PollSkipsNothing, Owed, Distinct
  <2>2. u \notin page
    <3>1. TsOf[u] >= floor
      BY <1>2, <2>1, TimeType
    <3>. QED
      BY <1>1, <2>1, <3>1 DEF Kept
  <2>3. u \in OlderThan(nextCursor) \ page
    BY <2>1, <2>2 DEF OlderThan
  <2>4. oldest # None
    BY <1>2, <2>3, PageFacts
  <2>5. oldest >= floor
    BY <1>2, <1>3, <1>6, <2>3, <2>4, LeftBelowFloor
  <2>6. TsOf[u] < oldest
    BY <1>2, <1>6, <2>3, <2>4, LeftForNextPage DEF Owed
  <2>. QED
    BY <2>4, <2>5, <2>6
<1>. QED
  BY <1>1, <1>3, <1>4, <1>5, <1>6

\* The backfill ends where nothing is left that is owed.
LEMMA BackfillEndsKeepsIInv ==
  ASSUME IInv, BackfillEnds
  PROVE  IInv'
<1>. USE DEF IInv
<1>0. PICK page \in Pages(nextCursor) : \E oldest \in Oldest(page, nextCursor) :
        /\ ReadBackfill(page) /\ (oldest = None \/ oldest < floor)
        /\ nextCursor' = None /\ nextDone' = TRUE /\ phase' = "write"
  BY DEF BackfillEnds
<1>1. PICK oldest \in Oldest(page, nextCursor) :
        /\ ReadBackfill(page) /\ (oldest = None \/ oldest < floor)
        /\ nextCursor' = None /\ nextDone' = TRUE /\ phase' = "write"
  BY <1>0
<1>2. /\ Reading /\ UNCHANGED <<older, newest>>
      /\ phase = "backfill" /\ pages' = pages + 1 /\ pages' \in 0..MaxPages
      /\ oldest \in Nat
      /\ batch \subseteq batch' /\ batch' \subseteq (seen \cap Readable)
      /\ \A u \in Record : Owed(u) /\ TsOf[u] <= newest =>
           \/ u \in queries \cup batch'
           \/ oldest # None /\ oldest >= floor /\ TsOf[u] < oldest
  BY <1>1, BackfillPageFacts
<1>3. /\ \A u : Owed(u)' <=> Owed(u)
      /\ \A ts : Reached(ts)' <=> Reached(ts)
      /\ NothingSkipped'
  BY <1>2, ReadingChangesNothingOwed
<1>4. TypeOK'
  BY <1>1, <1>2 DEF Reading, TypeOK, Phase, None
<1>5. PollIsSane'
  <2>1. Reached(fwd)' /\ Reached(newest)' /\ newest' >= fwd' /\ floor' <= topFloor'
    BY <1>2, <1>3 DEF PollIsSane, Reading, Reached
  <2>. QED
    BY <1>1, <1>2, <2>1 DEF PollIsSane
<1>6. PollSkipsNothing'
  <2>. SUFFICES ASSUME NEW u \in Record, Owed(u), TsOf[u] <= newest
                PROVE  u \in queries \cup batch'
    BY <1>2, <1>3 DEF PollSkipsNothing, Reading
  <2>1. floor \in Nat
    BY DEF TypeOK
  <2>. QED
    BY <1>1, <1>2, <2>1
<1>7. ForwardReadsAll' /\ PagesAreDelta'
  BY <1>1 DEF ForwardReadsAll, PagesAreDelta
<1>. QED
  BY <1>3, <1>4, <1>5, <1>6, <1>7

\* The backfill moves its cursor only past what it has read.
LEMMA BackfillContinuesKeepsIInv ==
  ASSUME IInv, BackfillContinues
  PROVE  IInv'
<1>. USE DEF IInv
<1>0. PICK page \in Pages(nextCursor) : \E oldest \in Oldest(page, nextCursor) :
        /\ ReadBackfill(page) /\ oldest # None /\ oldest >= floor
        /\ nextCursor' = oldest /\ UNCHANGED nextDone
        /\ phase' = IF pages + 1 < MaxPages THEN "backfill" ELSE "write"
  BY DEF BackfillContinues
<1>1. PICK oldest \in Oldest(page, nextCursor) :
        /\ ReadBackfill(page) /\ oldest # None /\ oldest >= floor
        /\ nextCursor' = oldest /\ UNCHANGED nextDone
        /\ phase' = IF pages + 1 < MaxPages THEN "backfill" ELSE "write"
  BY <1>0
<1>2. /\ Reading /\ UNCHANGED <<older, newest>>
      /\ phase = "backfill" /\ pages' = pages + 1 /\ pages' \in 0..MaxPages
      /\ oldest \in Nat
      /\ batch \subseteq batch' /\ batch' \subseteq (seen \cap Readable)
      /\ \A u \in Record : Owed(u) /\ TsOf[u] <= newest =>
           \/ u \in queries \cup batch'
           \/ oldest # None /\ oldest >= floor /\ TsOf[u] < oldest
  BY <1>1, BackfillPageFacts
<1>3. /\ \A u : Owed(u)' <=> Owed(u)
      /\ \A ts : Reached(ts)' <=> Reached(ts)
      /\ NothingSkipped'
  BY <1>2, ReadingChangesNothingOwed
<1>4. ~ nextDone /\ phase' \in {"backfill", "write"}
      /\ (phase' = "backfill" => pages' < MaxPages)
  BY <1>1, <1>2 DEF PollIsSane
<1>5. TypeOK'
  BY <1>1, <1>2, <1>4 DEF Reading, TypeOK, Phase
<1>6. PollIsSane'
  <2>1. Reached(fwd)' /\ Reached(newest)' /\ newest' >= fwd' /\ floor' <= topFloor'
    BY <1>2, <1>3 DEF PollIsSane, Reading, Reached
  <2>. QED
    BY <1>1, <1>2, <1>4, <2>1 DEF PollIsSane
<1>7. PollSkipsNothing'
  BY <1>1, <1>2, <1>3, <1>4 DEF PollSkipsNothing, Reading
<1>8. ForwardReadsAll' /\ PagesAreDelta'
  BY <1>4 DEF ForwardReadsAll, PagesAreDelta
<1>. QED
  BY <1>3, <1>5, <1>6, <1>7, <1>8

\* Records and checkpoint are written together: what the poll would leave
\* behind is what the new checkpoint accounts for.
LEMMA WriteKeepsIInv ==
  ASSUME IInv, Write
  PROVE  IInv'
<1>. USE DEF IInv
<1>1. /\ phase = "write" /\ queries' = queries \cup batch
      /\ fwd' = newest /\ cursor' = nextCursor /\ done' = nextDone
      /\ phase' = "idle" /\ pages' = 0 /\ older' = None /\ newest' = 0
      /\ batch' = {} /\ floor' = 0 /\ nextCursor' = None /\ nextDone' = FALSE
      /\ UNCHANGED <<log, seen, enabled, topFloor, forgotten, failures>>
  BY DEF Write, Import, PollOver
<1>2. TypeOK'
  <2>1. done' \in BOOLEAN /\ nextDone' \in BOOLEAN /\ (done' => cursor' = None)
    BY <1>1, Zenon DEF TypeOK, PollIsSane
  <2>2. pages' \in 0..MaxPages
    BY <1>1, IngestAssumption
  <2>. QED
    BY <1>1, <2>1, <2>2 DEF TypeOK, Phase, None
<1>3. PollIsSane'
  <2>1. Reached(fwd)' /\ floor' <= topFloor'
    BY <1>1 DEF PollIsSane, Reached, TypeOK
  <2>. QED
    BY <1>1, <2>1 DEF PollIsSane
<1>4. NothingSkipped'
  <2>1. \A u : Owed(u)' <=> Owed(u)
    BY <1>1 DEF Owed, Distinct
  <2>. QED
    BY <1>1, <2>1 DEF NothingSkipped, PollSkipsNothing
<1>5. ForwardReadsAll' /\ PollSkipsNothing' /\ PagesAreDelta'
  BY <1>1 DEF ForwardReadsAll, PollSkipsNothing, PagesAreDelta
<1>. QED
  BY <1>2, <1>3, <1>4, <1>5

\* A poll that fails leaves the checkpoint and what it accounts for alone.
LEMMA FailKeepsIInv ==
  ASSUME IInv, Fail
  PROVE  IInv'
<1>. USE DEF IInv
<1>1. /\ failures < MaxFailures /\ failures' = failures + 1
      /\ phase' = "idle" /\ pages' = 0 /\ older' = None /\ newest' = 0
      /\ batch' = {} /\ floor' = 0 /\ nextCursor' = None /\ nextDone' = FALSE
      /\ UNCHANGED <<queries, log, seen, fwd, cursor, done, enabled, topFloor, forgotten>>
  BY DEF Fail, PollOver, checkpoint
<1>2. TypeOK'
  <2>1. done' \in BOOLEAN /\ nextDone' \in BOOLEAN /\ (done' => cursor' = None)
    BY <1>1, Zenon DEF TypeOK
  <2>2. pages' \in 0..MaxPages /\ failures' \in 0..MaxFailures
    BY <1>1, IngestAssumption DEF TypeOK
  <2>. QED
    BY <1>1, <2>1, <2>2 DEF TypeOK, Phase, None
<1>3. PollIsSane'
  <2>1. Reached(fwd)' /\ floor' <= topFloor'
    BY <1>1 DEF PollIsSane, Reached, TypeOK
  <2>. QED
    BY <1>1, <2>1 DEF PollIsSane
<1>4. NothingSkipped'
  <2>1. \A u : Owed(u)' <=> Owed(u)
    BY <1>1 DEF Owed, Distinct
  <2>. QED
    BY <1>1, <2>1 DEF NothingSkipped
<1>5. ForwardReadsAll' /\ PollSkipsNothing' /\ PagesAreDelta'
  BY <1>1 DEF ForwardReadsAll, PollSkipsNothing, PagesAreDelta
<1>. QED
  BY <1>2, <1>3, <1>4, <1>5

-----------------------------------------------------------------------------
(* The theorems.                                                           *)

LEMMA NextKeepsIInv == IInv /\ [Next]_vars => IInv'
<1>. SUFFICES ASSUME IInv, [Next]_vars PROVE IInv'
  OBVIOUS
<1>1. CASE \E f \in Cutoff : StartPoll(f)
  BY <1>1, StartPollKeepsIInv
<1>2. CASE ForwardCaughtUp \/ ForwardContinues \/ ForwardOutOfBudget
  BY <1>2, ForwardCaughtUpKeepsIInv, ForwardContinuesKeepsIInv,
     ForwardOutOfBudgetKeepsIInv
<1>3. CASE BackfillEnds \/ BackfillContinues
  BY <1>3, BackfillEndsKeepsIInv, BackfillContinuesKeepsIInv
<1>4. CASE Write \/ Fail
  BY <1>4, WriteKeepsIInv, FailKeepsIInv
<1>5. CASE BesidePoll
  BY <1>5, BesidePollKeepsIInv
<1>. QED
  BY <1>1, <1>2, <1>3, <1>4, <1>5 DEF Next, Poll, BesidePoll

LEMMA AlwaysIInv == IngestSpec => []IInv
BY InitIInv, NextKeepsIInv, PTL DEF IngestSpec

\* Checkpoint, locals and records are always well formed, whatever a poll meets.
THEOREM TypeCorrect == IngestSpec => []TypeOK
<1>1. IInv => TypeOK
  BY DEF IInv
<1>. QED
  BY <1>1, AlwaysIInv, PTL

\* No record at or below the horizon is ever skipped, however polls run out of
\* budget, fail, or overlap with logging, rotation, cleanups and deletions.
THEOREM NothingIsSkipped == IngestSpec => []NothingSkipped
<1>1. IInv => NothingSkipped
  BY DEF IInv
<1>. QED
  BY <1>1, AlwaysIInv, PTL

\* A forward pass that goes on has read nothing but full pages of the delta.
THEOREM ForwardCostStaysDelta == IngestSpec => []ForwardCostIsDelta
<1>1. IInv => ForwardCostIsDelta
  <2>. SUFFICES ASSUME IInv, phase = "forward"
                PROVE  pages * PageSize < PageSize
                         + Cardinality({u \in seen : TsOf[u] > fwd \/ u \notin Readable})
    BY DEF ForwardCostIsDelta
  <2> DEFINE All == {u \in seen : TsOf[u] > fwd \/ u \notin Readable}
  <2>1. PageSize \in Nat \ {0} /\ pages \in Nat /\ pages * PageSize \in Nat
    BY IngestAssumption DEF IInv, TypeOK
  <2>2. /\ Cardinality(All) \in Nat /\ Cardinality(Delta(older)) \in Nat
        /\ Cardinality(Delta(older)) <= Cardinality(All)
    <3>1. All \in SUBSET Record /\ Delta(older) \subseteq All
      BY DEF IInv, TypeOK, Delta
    <3>. QED
      BY <3>1, TimesAreFinite, FS_Subset, FS_CardinalityType
  <2>3. CASE older = None
    BY <2>1, <2>2, <2>3 DEF IInv, PagesAreDelta
  <2>4. CASE older # None
    BY <2>1, <2>2, <2>4 DEF IInv, PagesAreDelta
  <2>. QED
    BY <2>3, <2>4
<1>. QED
  BY <1>1, AlwaysIInv, PTL

\* Only a finished poll moves the horizon, and only forward.
LEMMA StepsKeepHorizon ==
  ASSUME IInv, [Next]_vars
  PROVE  fwd' >= fwd
<1>. USE DEF IInv
<1>1. fwd \in Nat
  BY DEF TypeOK
<1>2. CASE Write
  BY <1>2 DEF Write, PollIsSane
<1>3. CASE UNCHANGED fwd
  BY <1>1, <1>3
<1>4. Write \/ UNCHANGED fwd
  BY DEF Next, Poll, StartPoll, ForwardCaughtUp, ForwardContinues,
     ForwardOutOfBudget, ReadForward, BackfillEnds, BackfillContinues,
     ReadBackfill, Fail, Append, Rotate, Cleanup, DeleteDevice, SwitchIngest,
     vars, checkpoint
<1>. QED
  BY <1>2, <1>3, <1>4

\* The horizon never moves back.
THEOREM HorizonOnlyRises == IngestSpec => HorizonNeverMovesBack
<1>1. IInv /\ [Next]_vars => [fwd' >= fwd]_vars
  BY StepsKeepHorizon
<1>. QED
  BY <1>1, AlwaysIInv, PTL DEF IngestSpec, HorizonNeverMovesBack
=============================================================================
