--------------------------- MODULE LogStoreProofs ---------------------------
(***************************************************************************)
(* Proofs about LogStore, for every set of records, domains and clients    *)
(* and every value of the bounds.                                          *)
(***************************************************************************)
EXTENDS LogStore, FiniteSetTheorems, WellFoundedInduction, TLAPS

-----------------------------------------------------------------------------
(* Counting.                                                               *)

\* Min and Max of a non-empty finite set of natural numbers are elements of it
\* and enclose it: the greatest is one with the fewest above it.
LEMMA MinMaxOfNaturals ==
  ASSUME NEW S \in SUBSET Nat, S # {}, IsFiniteSet(S)
  PROVE  /\ Min(S) \in S /\ \A x \in S : Min(S) <= x
         /\ Max(S) \in S /\ \A x \in S : Max(S) >= x
<1>1. ASSUME NEW T \in SUBSET Nat, T # {}
      PROVE  \E x \in T : \A y \in T : x <= y
  <2>1. PICK x \in T : \A y \in T : ~ (<<y, x>> \in OpToRel(<, Nat))
    BY <1>1, NatLessThanWellFounded, WFMin
  <2>2. \A y \in T : ~ (y < x)
    BY <2>1 DEF OpToRel
  <2>. QED
    BY <2>2
<1> DEFINE Above(x) == {y \in S : y > x}
           Counts == {Cardinality(Above(x)) : x \in S}
<1>2. \A x \in S : IsFiniteSet(Above(x)) /\ Cardinality(Above(x)) \in Nat
  BY FS_Subset, FS_CardinalityType
<1>3. PICK n \in Counts : \A m \in Counts : n <= m
  <2>1. Counts \in SUBSET Nat /\ Counts # {}
    BY <1>2
  <2>. QED
    BY <1>1, <2>1
<1>4. PICK x \in S : n = Cardinality(Above(x))
  BY <1>3
<1>5. ASSUME NEW y \in S, y > x PROVE FALSE
  <2>1. (\A z \in S : z > y => z > x) /\ ~ (y > y)
    BY <1>5, x \in Nat, y \in Nat
  <2>2. Above(y) \in SUBSET Above(x) /\ y \in Above(x) /\ y \notin Above(y)
    BY <1>5, <2>1
  <2>3. Cardinality(Above(y)) <= n /\ Cardinality(Above(y)) # n
    BY <1>2, <1>4, <2>2, FS_Subset
  <2>4. Cardinality(Above(y)) \in Counts
    OBVIOUS
  <2>5. n <= Cardinality(Above(y)) /\ Cardinality(Above(y)) \in Nat /\ n \in Nat
    BY <1>2, <1>3, <1>4, <2>4
  <2> HIDE DEF Above
  <2>. QED
    BY <2>3, <2>5
<1>6. \A y \in S : x >= y
  BY <1>5
<1>7. Min(S) \in S /\ \A y \in S : Min(S) <= y
  BY <1>1 DEF Min
<1>8. Max(S) \in S /\ \A y \in S : Max(S) >= y
  BY <1>6 DEF Max
<1>. QED
  BY <1>7, <1>8

\* What is counted is finite, because the records are.
LEMMA CountType ==
  ASSUME NEW S \in SUBSET Record
  PROVE  /\ IsFiniteSet(S)
         /\ Count(S) \in Nat
         /\ CountBlocked(S) \in Nat
<1>1. IsFiniteSet(Record)
  BY RecordAssumption
<1>2. IsFiniteSet(S) /\ IsFiniteSet(S \cap Blocked)
  BY <1>1, FS_Subset, S \cap Blocked \in SUBSET Record
<1>. QED
  BY <1>2, FS_CardinalityType DEF Count, CountBlocked

\* Adding records that were not there adds their numbers.
LEMMA CountAdded ==
  ASSUME NEW S \in SUBSET Record, NEW T \in SUBSET Record, S \cap T = {}
  PROVE  /\ Count(S \cup T) = Count(S) + Count(T)
         /\ CountBlocked(S \cup T) = CountBlocked(S) + CountBlocked(T)
<1>1. /\ IsFiniteSet(S) /\ IsFiniteSet(T)
      /\ IsFiniteSet(S \cap Blocked) /\ IsFiniteSet(T \cap Blocked)
  BY CountType, S \cap Blocked \in SUBSET Record, T \cap Blocked \in SUBSET Record
<1>2. /\ Cardinality(S) \in Nat /\ Cardinality(T) \in Nat
      /\ Cardinality(S \cap Blocked) \in Nat /\ Cardinality(T \cap Blocked) \in Nat
  BY <1>1, FS_CardinalityType
<1>3. Cardinality(S \cap T) = 0
  BY FS_EmptySet
<1>4. Cardinality(S \cup T) = Cardinality(S) + Cardinality(T)
  <2>1. Cardinality(S \cup T)
          = Cardinality(S) + Cardinality(T) - Cardinality(S \cap T)
    BY <1>1, FS_Union, Zenon
  <2>. QED
    BY <1>2, <1>3, <2>1
<1>5. /\ (S \cup T) \cap Blocked = (S \cap Blocked) \cup (T \cap Blocked)
      /\ (S \cap Blocked) \cap (T \cap Blocked) = {}
  OBVIOUS
<1>6. Cardinality((S \cap Blocked) \cap (T \cap Blocked)) = 0
  BY <1>5, FS_EmptySet
<1>7. Cardinality((S \cup T) \cap Blocked)
        = Cardinality(S \cap Blocked) + Cardinality(T \cap Blocked)
  <2>1. Cardinality((S \cap Blocked) \cup (T \cap Blocked))
          = Cardinality(S \cap Blocked) + Cardinality(T \cap Blocked)
              - Cardinality((S \cap Blocked) \cap (T \cap Blocked))
    BY <1>1, FS_Union, Zenon
  <2>2. Cardinality((S \cup T) \cap Blocked)
          = Cardinality((S \cap Blocked) \cup (T \cap Blocked))
    BY <1>5, Zenon
  <2>. QED
    BY <1>2, <1>6, <2>1, <2>2
<1>. QED
  BY <1>4, <1>7 DEF Count, CountBlocked

\* Removing records removes their numbers.
LEMMA CountRemoved ==
  ASSUME NEW S \in SUBSET Record, NEW T \in SUBSET S
  PROVE  /\ Count(S \ T) = Count(S) - Count(T)
         /\ CountBlocked(S \ T) = CountBlocked(S) - CountBlocked(T)
         /\ Count(T) <= Count(S)
         /\ CountBlocked(T) <= CountBlocked(S)
<1>1. /\ S \ T \in SUBSET Record /\ T \in SUBSET Record
      /\ (S \ T) \cap T = {} /\ (S \ T) \cup T = S
  OBVIOUS
<1>2. /\ Count(S) = Count(S \ T) + Count(T)
      /\ CountBlocked(S) = CountBlocked(S \ T) + CountBlocked(T)
  BY <1>1, CountAdded
<1>3. /\ Count(S \ T) \in Nat /\ Count(T) \in Nat
      /\ CountBlocked(S \ T) \in Nat /\ CountBlocked(T) \in Nat
  BY <1>1, CountType
<1>. QED
  BY <1>2, <1>3

\* Nothing is counted only if nothing is there.
LEMMA CountZero ==
  ASSUME NEW S \in SUBSET Record
  PROVE  /\ Count(S) = 0 <=> S = {}
         /\ Count({}) = 0
         /\ CountBlocked({}) = 0
BY CountType, FS_EmptySet, {} \cap Blocked = {} DEF Count, CountBlocked

-----------------------------------------------------------------------------
(* The first and the last time of a set of records.                        *)

\* The first- and last-seen time of a non-empty set of records are the times
\* of records of it, and enclose it.
LEMMA SeenBounds ==
  ASSUME NEW S \in SUBSET Record, S # {}
  PROVE  /\ FirstSeen(S) \in Nat /\ LastSeen(S) \in Nat
         /\ \E u \in S : TsOf[u] = FirstSeen(S)
         /\ \E u \in S : TsOf[u] = LastSeen(S)
         /\ \A u \in S : FirstSeen(S) <= TsOf[u] /\ TsOf[u] <= LastSeen(S)
<1>1. /\ Times(S) \in SUBSET Nat /\ Times(S) # {}
      /\ IsFiniteSet(S)
  BY RecordAssumption, CountType DEF Times
<1>2. IsFiniteSet(Times(S))
  <2> DEFINE f == [u \in S |-> TsOf[u]]
  <2>1. f \in Surjection(S, Times(S))
    BY DEF Times, Surjection
  <2>. QED
    BY <1>1, <2>1, FS_Surjection
<1>3. /\ FirstSeen(S) \in Times(S)
      /\ \A t \in Times(S) : FirstSeen(S) <= t
  BY <1>1, <1>2, MinMaxOfNaturals DEF FirstSeen
<1>4. /\ LastSeen(S) \in Times(S)
      /\ \A t \in Times(S) : LastSeen(S) >= t
  BY <1>1, <1>2, MinMaxOfNaturals DEF LastSeen
<1>. QED
  BY <1>1, <1>3, <1>4, RecordAssumption DEF Times

-----------------------------------------------------------------------------
(* What the row operators do to a row that counts a set of records.        *)

Covers(row, S) == row.count >= Count(S) /\ row.blocked >= CountBlocked(S)

\* Adding records to a row gives a row, and keeps it covering and exact.
LEMMA AddedRow ==
  ASSUME NEW row \in Row, NEW known \in BOOLEAN, NEW S, NEW T,
         S \subseteq Record, T \subseteq Record, S \cap T = {}, T # {}
  PROVE  /\ Added(row, known, T) \in Row
         /\ Added(row, known, T).count >= row.count
         /\ Added(row, known, T).count > 0
         /\ Covers(row, S) => Covers(Added(row, known, T), S \cup T)
         /\ Exact(row, S) => Exact(Added(row, known, T), S \cup T)
<1>1. /\ row.count \in Nat /\ row.blocked \in Nat
      /\ row.first \in Nat /\ row.last \in Nat
  BY DEF Row
<1>2. FirstSeen(T) \in Nat /\ LastSeen(T) \in Nat
  BY SeenBounds
<1>3. /\ Count(S) \in Nat /\ CountBlocked(S) \in Nat
      /\ Count(T) \in Nat /\ CountBlocked(T) \in Nat
      /\ Count(T) # 0
  BY CountType, CountZero
<1>4. /\ Count(S \cup T) = Count(S) + Count(T)
      /\ CountBlocked(S \cup T) = CountBlocked(S) + CountBlocked(T)
  BY CountAdded
<1>5. /\ Added(row, known, T).count = row.count + Count(T)
      /\ Added(row, known, T).blocked = row.blocked + CountBlocked(T)
  BY DEF Added
<1>6. Added(row, known, T) \in Row
  BY <1>1, <1>2, <1>3 DEF Added, Row
<1>. QED
  BY <1>1, <1>3, <1>4, <1>5, <1>6 DEF Covers, Exact

\* A row that counts records exactly goes on doing so.
LEMMA AddedExactly ==
  ASSUME NEW row, NEW known, NEW S, NEW T, NEW all, NEW after,
         row \in Row, known \in BOOLEAN, S \subseteq Record, T \subseteq Record,
         S \cap T = {}, T # {}, all = S \cup T,
         Exact(row, S), after = Added(row, known, T)
  PROVE  after \in Row /\ Exact(after, all)
BY AddedRow

\* A row that gained records counts something.
LEMMA AddedCounts ==
  ASSUME NEW row, NEW known, NEW T, NEW after,
         row \in Row, known \in BOOLEAN, T \subseteq Record, T # {},
         after = Added(row, known, T)
  PROVE  after.count > 0
<1>1. {} \subseteq Record /\ {} \cap T = {}
  OBVIOUS
<1>. QED
  BY <1>1, AddedRow

\* So does removing records it counts.
LEMMA RemovedRow ==
  ASSUME NEW row \in Row, NEW S, NEW T, NEW left,
         S \subseteq Record, T \subseteq S, left \subseteq Record
  PROVE  /\ Removed(row, T, left) \in Row
         /\ Covers(row, S) => /\ Covers(Removed(row, T, left), S \ T)
                              /\ Removed(row, T, left).count = 0 => S \ T = {}
         /\ Exact(row, S) => Exact(Removed(row, T, left), S \ T)
<1>1. /\ row.count \in Nat /\ row.blocked \in Nat
      /\ row.first \in Nat /\ row.last \in Nat
  BY DEF Row
<1>2. left # {} => FirstSeen(left) \in Nat
  BY SeenBounds
<1>3. /\ Count(S) \in Nat /\ CountBlocked(S) \in Nat
      /\ Count(T) \in Nat /\ CountBlocked(T) \in Nat
      /\ Count(S \ T) \in Nat /\ CountBlocked(S \ T) \in Nat
      /\ Count(S \ T) = 0 <=> S \ T = {}
  BY CountType, CountZero, T \in SUBSET Record, S \ T \in SUBSET Record
<1>4. /\ Count(S \ T) = Count(S) - Count(T)
      /\ CountBlocked(S \ T) = CountBlocked(S) - CountBlocked(T)
  BY CountRemoved
<1>5. /\ Removed(row, T, left).count = Monus(row.count, Count(T))
      /\ Removed(row, T, left).blocked = Monus(row.blocked, CountBlocked(T))
  BY DEF Removed, Row
<1>6. Removed(row, T, left) \in Row
  BY <1>1, <1>2, <1>3 DEF Removed, Row, Monus
<1>. QED
  BY <1>1, <1>3, <1>4, <1>5, <1>6 DEF Covers, Exact, Monus

\* A row that counts records exactly goes on doing so here too.
LEMMA RemovedExactly ==
  ASSUME NEW row, NEW S, NEW T, NEW left, NEW after,
         row \in Row, S \subseteq Record, T \subseteq S, left = S \ T,
         Exact(row, S), after = Removed(row, T, left)
  PROVE  after \in Row /\ Exact(after, left)
BY RemovedRow

\* A row that is emptied by removing records it covers has lost all of them.
LEMMA EmptiedRow ==
  ASSUME NEW row \in Row, NEW S, NEW T, NEW left,
         S \subseteq Record, T \subseteq S, left \subseteq Record,
         Covers(row, S), Removed(row, T, left).count = 0
  PROVE  S \ T = {}
BY RemovedRow

-----------------------------------------------------------------------------
(* The inductive invariant: the rows are well formed, and what they count  *)
(* covers what is stored, so that nothing stored is pruned.                *)

IInv ==
  /\ TypeOK
  /\ ClientCountersExact
  /\ DomainCountersCover

\* The counters of rows that are counted exactly cover the rows.
LEMMA ExactCovers ==
  ASSUME NEW row \in Row, NEW S \in SUBSET Record, Exact(row, S)
  PROVE  Covers(row, S)
BY CountType DEF Exact, Covers, Row

\* A cleanup deletes stored records only.
LEMMA ExpiredStored ==
  ASSUME TypeOK, NEW cutoff, NEW gone \in OldestExpired(cutoff)
  PROVE  gone \in SUBSET queries /\ gone \in SUBSET Record
BY DEF OldestExpired, Expired, TypeOK

\* Pruning what a cleanup has emptied takes no stored record with it: a row
\* whose counter has reached zero counted the records that were deleted, and
\* it counted all of its stored records.
LEMMA PruningTakesNothing ==
  ASSUME IInv, NEW gone \in SUBSET queries, NEW u \in queries \ gone
  PROVE  /\ DomainOf[u] \notin EmptyDomains(gone)
         /\ ClientOf[u] \notin EmptyClients(gone)
<1> USE DEF IInv
<1>1. u \in Record /\ queries \in SUBSET Record
  BY DEF TypeOK
<1>2. DomainOf[u] \in Domain /\ ClientOf[u] \in Client
  BY <1>1, StoreAssumption, RecordAssumption
<1>3. DomainOf[u] \notin EmptyDomains(gone)
  <2> DEFINE d == DomainOf[u]
             mine == OfDomain(queries, d)
             lost == OfDomain(gone, d)
             left == OfDomain(queries \ gone, d)
  <2>1. /\ domainRow[d] \in Row /\ mine \in SUBSET Record
        /\ lost \in SUBSET mine /\ left \in SUBSET Record
        /\ u \in mine \ lost
    BY <1>1, <1>2 DEF TypeOK, OfDomain
  <2>2. Covers(domainRow[d], mine)
    BY <1>2 DEF DomainCountersCover, Covers
  <2>3. CASE lost = {}
    <3>1. Count(mine) \in Nat /\ Count(mine) # 0
      BY <2>1, CountType, CountZero
    <3>2. domainRow[d].count # 0
      BY <2>1, <2>2, <3>1 DEF Covers, Row
    <3>. QED
      BY <1>2, <2>3, <3>2 DEF EmptyDomains, DomainRowsWithout
  <2>4. CASE lost # {}
    <3> HIDE DEF mine, lost, left
    <3>0. Removed(domainRow[d], lost, left).count = 0 => mine \ lost = {}
      BY <2>1, <2>2, EmptiedRow
    <3>1. Removed(domainRow[d], lost, left).count # 0
      BY <2>1, <3>0
    <3>. QED
      BY <1>2, <2>4, <3>1 DEF EmptyDomains, DomainRowsWithout, lost, left
  <2>. QED
    BY <2>3, <2>4
<1>4. ClientOf[u] \notin EmptyClients(gone)
  <2> DEFINE c == ClientOf[u]
             mine == OfClient(queries, c)
             lost == OfClient(gone, c)
             left == OfClient(queries \ gone, c)
  <2>1. /\ clientRow[c] \in Row /\ mine \in SUBSET Record
        /\ lost \in SUBSET mine /\ left \in SUBSET Record
        /\ u \in mine \ lost
    BY <1>1, <1>2 DEF TypeOK, OfClient
  <2>2. Covers(clientRow[c], mine)
    BY <1>2, <2>1, ExactCovers DEF ClientCountersExact
  <2>3. CASE lost = {}
    <3>1. Count(mine) \in Nat /\ Count(mine) # 0
      BY <2>1, CountType, CountZero
    <3>2. clientRow[c].count # 0
      BY <2>1, <2>2, <3>1 DEF Covers, Row
    <3>. QED
      BY <1>2, <2>3, <3>2 DEF EmptyClients, ClientRowsWithout
  <2>4. CASE lost # {}
    <3> HIDE DEF mine, lost, left
    <3>0. Removed(clientRow[c], lost, left).count = 0 => mine \ lost = {}
      BY <2>1, <2>2, EmptiedRow
    <3>1. Removed(clientRow[c], lost, left).count # 0
      BY <2>1, <3>0
    <3>. QED
      BY <1>2, <2>4, <3>1 DEF EmptyClients, ClientRowsWithout, lost, left
  <2>. QED
    BY <2>3, <2>4
<1>. QED
  BY <1>3, <1>4

-----------------------------------------------------------------------------
(* What each write transaction does to the stored records.                 *)

\* A cleanup stores nothing and takes what it deleted, and nothing else.
LEMMA CleanupTakes ==
  ASSUME IInv, NEW cutoff, NEW gone \in OldestExpired(cutoff),
         queries' = {u \in queries \ gone : /\ DomainOf[u] \notin EmptyDomains(gone)
                                            /\ ClientOf[u] \notin EmptyClients(gone)}
  PROVE  /\ queries' = queries \ gone
         /\ gone \subseteq queries
         /\ queries \subseteq Record
<1>1. gone \in SUBSET queries /\ queries \subseteq Record
  BY ExpiredStored DEF IInv, TypeOK
<1>2. \A u \in queries \ gone : /\ DomainOf[u] \notin EmptyDomains(gone)
                                /\ ClientOf[u] \notin EmptyClients(gone)
  BY <1>1, PruningTakesNothing
<1>. QED
  BY <1>1, <1>2

\* A cleanup's rows, before it prunes: still rows, still covering, and still
\* exact where they were.
LEMMA RowsWithout ==
  ASSUME IInv, NEW gone \in SUBSET queries
  PROVE  /\ \A d \in Domain :
              LET mine == OfDomain(queries, d)
                  left == OfDomain(queries \ gone, d)
                  row == DomainRowsWithout(gone)[d] IN
              /\ row \in Row
              /\ Covers(row, left)
              /\ Exact(domainRow[d], mine) => Exact(row, left)
              /\ d \notin domains => row = NoRow
         /\ \A c \in Client :
              LET left == OfClient(queries \ gone, c)
                  row == ClientRowsWithout(gone)[c] IN
              /\ row \in Row
              /\ Exact(row, left)
              /\ c \notin clients => row = NoRow
<1>1. queries \in SUBSET Record /\ gone \in SUBSET Record
  BY DEF IInv, TypeOK
<1>2. ASSUME NEW d \in Domain
      PROVE  LET mine == OfDomain(queries, d)
                 left == OfDomain(queries \ gone, d)
                 row == DomainRowsWithout(gone)[d] IN
             /\ row \in Row
             /\ Covers(row, left)
             /\ Exact(domainRow[d], mine) => Exact(row, left)
             /\ d \notin domains => row = NoRow
  <2> DEFINE mine == OfDomain(queries, d)
             lost == OfDomain(gone, d)
             left == OfDomain(queries \ gone, d)
             row == DomainRowsWithout(gone)[d]
  <2>1. domainRow[d] \in Row /\ Covers(domainRow[d], mine)
    BY DEF IInv, TypeOK, DomainCountersCover, Covers
  <2>2. /\ mine \in SUBSET Record /\ lost \in SUBSET mine
        /\ left \in SUBSET Record /\ left = mine \ lost
    BY <1>1 DEF OfDomain
  <2>3. row = IF lost = {} THEN domainRow[d] ELSE Removed(domainRow[d], lost, left)
    BY DEF DomainRowsWithout
  <2>4. d \notin domains => domainRow[d] = NoRow /\ lost = {}
    BY DEF IInv, TypeOK, OfDomain
  <2> HIDE DEF mine, lost, left, row
  <2>5. CASE lost = {}
    <3>1. left = mine /\ row = domainRow[d]
      BY <2>2, <2>3, <2>5
    <3>. QED
      BY <2>1, <2>4, <3>1 DEF mine, left, row
  <2>6. CASE lost # {}
    <3>1. /\ row \in Row
          /\ Covers(row, left)
          /\ Exact(domainRow[d], mine) => Exact(row, left)
      BY <2>1, <2>2, <2>3, <2>6, RemovedRow
    <3>. QED
      BY <2>4, <2>6, <3>1 DEF mine, left, row
  <2>. QED
    BY <2>5, <2>6
<1>3. ASSUME NEW c \in Client
      PROVE  LET left == OfClient(queries \ gone, c)
                 row == ClientRowsWithout(gone)[c] IN
             /\ row \in Row
             /\ Exact(row, left)
             /\ c \notin clients => row = NoRow
  <2> DEFINE mine == OfClient(queries, c)
             lost == OfClient(gone, c)
             left == OfClient(queries \ gone, c)
             row == ClientRowsWithout(gone)[c]
  <2>1. clientRow[c] \in Row /\ Exact(clientRow[c], mine)
    BY DEF IInv, TypeOK, ClientCountersExact
  <2>2. /\ mine \in SUBSET Record /\ lost \in SUBSET mine
        /\ left \in SUBSET Record /\ left = mine \ lost
    BY <1>1 DEF OfClient
  <2>3. row = IF lost = {} THEN clientRow[c] ELSE Removed(clientRow[c], lost, left)
    BY DEF ClientRowsWithout
  <2>4. c \notin clients => clientRow[c] = NoRow /\ lost = {}
    BY DEF IInv, TypeOK, OfClient
  <2> HIDE DEF mine, lost, left, row
  <2>5. CASE lost = {}
    <3>1. left = mine /\ row = clientRow[c]
      BY <2>2, <2>3, <2>5
    <3>. QED
      BY <2>1, <2>4, <3>1 DEF left, row
  <2>6. CASE lost # {}
    <3>1. row = Removed(clientRow[c], lost, left)
      BY <2>3, <2>6
    <3>2. row \in Row /\ Exact(row, left)
      BY <2>1, <2>2, <3>1, RemovedExactly
    <3>. QED
      BY <2>4, <2>6, <3>2 DEF left, row
  <2>. QED
    BY <2>5, <2>6
<1>. QED
  BY <1>2, <1>3

-----------------------------------------------------------------------------
(* Every write transaction preserves the inductive invariant.              *)

\* An import's rows: those that gained nothing are as they were, the others
\* count what they gained as well.
LEMMA RowsWith ==
  ASSUME IInv, NEW batch \in SUBSET Record, StoreRecords(batch)
  PROVE  /\ \A d \in Domain :
              /\ domainRow'[d] \in Row
              /\ Covers(domainRow'[d], OfDomain(queries', d))
              /\ Exact(domainRow[d], OfDomain(queries, d)) =>
                   Exact(domainRow'[d], OfDomain(queries', d))
              /\ d \notin domains' => domainRow'[d] = NoRow
         /\ \A c \in Client :
              /\ clientRow'[c] \in Row
              /\ Exact(clientRow'[c], OfClient(queries', c))
              /\ c \notin clients' => clientRow'[c] = NoRow
<1> DEFINE fresh == Fresh(batch)
<1>1. /\ queries \subseteq Record /\ fresh \subseteq Record
      /\ queries \cap fresh = {} /\ queries' = queries \cup fresh
  BY DEF IInv, TypeOK, StoreRecords, Fresh, Import
<1>2. ASSUME NEW d \in Domain
      PROVE  /\ domainRow'[d] \in Row
             /\ Covers(domainRow'[d], OfDomain(queries', d))
             /\ Exact(domainRow[d], OfDomain(queries, d)) =>
                  Exact(domainRow'[d], OfDomain(queries', d))
             /\ d \notin domains' => domainRow'[d] = NoRow
  <2> DEFINE mine == OfDomain(queries, d)
             new == OfDomain(fresh, d)
             all == OfDomain(queries', d)
             row == domainRow'[d]
  <2>1. domainRow[d] \in Row /\ Covers(domainRow[d], mine)
    BY DEF IInv, TypeOK, DomainCountersCover, Covers
  <2>2. /\ mine \subseteq Record /\ new \subseteq Record
        /\ mine \cap new = {} /\ all = mine \cup new
    BY <1>1 DEF OfDomain
  <2>3. row = IF new = {} THEN domainRow[d]
              ELSE Added(domainRow[d], d \in domains, new)
    BY DEF StoreRecords
  <2>4. d \notin domains' => domainRow[d] = NoRow /\ new = {}
    BY DEF IInv, TypeOK, OfDomain, StoreRecords
  <2>5. (d \in domains) \in BOOLEAN
    OBVIOUS
  <2> HIDE DEF mine, new, all, row, fresh
  <2>6. CASE new = {}
    <3>1. all = mine /\ row = domainRow[d]
      BY <2>2, <2>3, <2>6
    <3>. QED
      BY <2>1, <2>4, <3>1 DEF mine, all, row
  <2>7. CASE new # {}
    <3>1. /\ row \in Row
          /\ Covers(row, all)
          /\ Exact(domainRow[d], mine) => Exact(row, all)
      BY <2>1, <2>2, <2>3, <2>5, <2>7, AddedRow
    <3>. QED
      BY <2>4, <2>7, <3>1 DEF mine, all, row
  <2>. QED
    BY <2>6, <2>7
<1>3. ASSUME NEW c \in Client
      PROVE  /\ clientRow'[c] \in Row
             /\ Exact(clientRow'[c], OfClient(queries', c))
             /\ c \notin clients' => clientRow'[c] = NoRow
  <2> DEFINE mine == OfClient(queries, c)
             new == OfClient(fresh, c)
             all == OfClient(queries', c)
             row == clientRow'[c]
             known == c \in clients
  <2>1. clientRow[c] \in Row /\ Exact(clientRow[c], mine)
    BY DEF IInv, TypeOK, ClientCountersExact
  <2>2. /\ mine \subseteq Record /\ new \subseteq Record
        /\ mine \cap new = {} /\ all = mine \cup new
    BY <1>1 DEF OfClient
  <2>3. row = IF new = {} THEN clientRow[c]
              ELSE Added(clientRow[c], known, new)
    BY DEF StoreRecords
  <2>4. c \notin clients' => clientRow[c] = NoRow /\ new = {}
    BY DEF IInv, TypeOK, OfClient, StoreRecords
  <2>5. known \in BOOLEAN
    OBVIOUS
  <2> HIDE DEF mine, new, all, row, known, fresh
  <2>6. CASE new = {}
    <3>1. all = mine /\ row = clientRow[c]
      BY <2>2, <2>3, <2>6
    <3>. QED
      BY <2>1, <2>4, <3>1 DEF all, row
  <2>7. CASE new # {}
    <3>1. row = Added(clientRow[c], known, new)
      BY <2>3, <2>7
    <3>2. row \in Row /\ Exact(row, all)
      BY <2>1, <2>2, <2>5, <2>7, <3>1, AddedExactly
    <3>. QED
      BY <2>4, <2>7, <3>2 DEF all, row
  <2>. QED
    BY <2>6, <2>7
<1>. QED
  BY <1>2, <1>3

\* An import keeps the minutes in stats_minute well formed.
LEMMA MinutesWith ==
  ASSUME IInv, NEW batch \in SUBSET Record, StoreRecords(batch)
  PROVE  minutes' \in [Bucket -> Tally]
<1>1. ASSUME NEW b \in Bucket
      PROVE  /\ minutes[b].total + Count(InBucket(Fresh(batch), b)) \in Nat
             /\ minutes[b].blocked + CountBlocked(InBucket(Fresh(batch), b)) \in Nat
  <2>1. InBucket(Fresh(batch), b) \in SUBSET Record
    BY DEF InBucket, Fresh
  <2>2. minutes[b].total \in Nat /\ minutes[b].blocked \in Nat
    BY DEF IInv, TypeOK, Tally
  <2>3. /\ Count(InBucket(Fresh(batch), b)) \in Nat
        /\ CountBlocked(InBucket(Fresh(batch), b)) \in Nat
    BY <2>1, CountType
  <2>. QED
    BY <2>2, <2>3
<1>. QED
  BY <1>1 DEF StoreRecords, Tally

\* An import keeps the invariant.
LEMMA StoreKeepsIInv ==
  ASSUME IInv, NEW batch \in SUBSET Record, StoreRecords(batch)
  PROVE  IInv'
<1>1. TypeOK'
  <2>1. /\ queries' = queries \cup Fresh(batch)
        /\ domains' = domains \cup {DomainOf[u] : u \in Fresh(batch)}
        /\ clients' = clients \cup {ClientOf[u] : u \in Fresh(batch)}
        /\ named' = named /\ clearedTo' = clearedTo
        /\ Fresh(batch) \subseteq Record
    BY DEF StoreRecords, Import, Fresh
  <2>2. /\ queries' \subseteq Record
        /\ domains' \subseteq Domain /\ clients' \subseteq Client
        /\ named' \subseteq clients' /\ clearedTo' \in Nat
        /\ \A u \in queries' : DomainOf[u] \in domains' /\ ClientOf[u] \in clients'
    BY <2>1, RecordAssumption, StoreAssumption DEF IInv, TypeOK
  <2>3. domainRow' \in [Domain -> Row] /\ clientRow' \in [Client -> Row]
    BY RowsWith DEF StoreRecords
  <2>. QED
    BY <2>2, <2>3, RowsWith, MinutesWith DEF TypeOK
<1>2. ClientCountersExact'
  BY RowsWith DEF ClientCountersExact
<1>3. DomainCountersCover'
  BY RowsWith DEF IInv, DomainCountersCover, Covers
<1>. QED
  BY <1>1, <1>2, <1>3 DEF IInv

\* A cleanup keeps the invariant: what it prunes has nothing left to count.
LEMMA CleanupKeepsIInv ==
  ASSUME IInv, NEW cutoff \in Cutoff, Cleanup(cutoff)
  PROVE  IInv'
<1>1. PICK gone \in OldestExpired(cutoff) : Cleanup(cutoff)!(gone)
  BY DEF Cleanup
<1>2. /\ queries' = queries \ gone
      /\ gone \in SUBSET queries
      /\ queries \subseteq Record
  BY <1>1, CleanupTakes
<1>3. /\ domains' = domains \ EmptyDomains(gone)
      /\ clients' = clients \ EmptyClients(gone)
      /\ domainRow' = [d \in Domain |->
           IF d \in EmptyDomains(gone) THEN NoRow ELSE DomainRowsWithout(gone)[d]]
      /\ clientRow' = [c \in Client |->
           IF c \in EmptyClients(gone) THEN NoRow ELSE ClientRowsWithout(gone)[c]]
      /\ named' = named
  BY <1>1
<1>4. NoRow \in Row
  BY DEF NoRow, Row
<1>5. /\ \A d \in EmptyDomains(gone) : OfDomain(queries', d) = {}
      /\ \A c \in EmptyClients(gone) : OfClient(queries', c) = {}
  BY <1>2, PruningTakesNothing DEF OfDomain, OfClient
<1>6. \A S : S = {} => Exact(NoRow, S) /\ Covers(NoRow, S)
  BY CountZero DEF Exact, Covers, NoRow
<1>7. TypeOK'
  <2>1. domainRow' \in [Domain -> Row] /\ clientRow' \in [Client -> Row]
    BY <1>2, <1>3, <1>4, RowsWithout
  <2>2. /\ \A d \in Domain \ domains' : domainRow'[d] = NoRow
        /\ \A c \in Client \ clients' : clientRow'[c] = NoRow
    BY <1>2, <1>3, RowsWithout
  <2>3. /\ queries' \subseteq Record
        /\ domains' \subseteq Domain /\ clients' \subseteq Client
        /\ named' \subseteq clients'
    BY <1>2, <1>3 DEF IInv, TypeOK, EmptyClients
  <2>4. \A u \in queries' : DomainOf[u] \in domains' /\ ClientOf[u] \in clients'
    BY <1>2, <1>3, PruningTakesNothing DEF IInv, TypeOK
  <2>5. minutes' \in [Bucket -> Tally]
    BY <1>1 DEF IInv, TypeOK, ClearMinutes, NoTally, Tally
  <2>6. clearedTo' \in Nat
    BY <1>1, RecordAssumption DEF IInv, TypeOK
  <2>. QED
    BY <2>1, <2>2, <2>3, <2>4, <2>5, <2>6 DEF TypeOK
<1>8. ClientCountersExact'
  <2> SUFFICES ASSUME NEW c \in Client
               PROVE  Exact(clientRow'[c], OfClient(queries', c))
    BY DEF ClientCountersExact
  <2>1. CASE c \in EmptyClients(gone)
    BY <1>3, <1>5, <1>6, <2>1
  <2>2. CASE c \notin EmptyClients(gone)
    <3>1. clientRow'[c] = ClientRowsWithout(gone)[c]
      BY <1>3, <2>2
    <3>. QED
      BY <1>2, <3>1, RowsWithout
  <2>. QED
    BY <2>1, <2>2
<1>9. DomainCountersCover'
  <2> SUFFICES ASSUME NEW d \in Domain
               PROVE  /\ Covers(domainRow'[d], OfDomain(queries', d))
                      /\ Lasting(OfDomain(Record, d)) =>
                           Exact(domainRow'[d], OfDomain(queries', d))
    BY DEF DomainCountersCover, Covers
  <2>1. CASE d \in EmptyDomains(gone)
    BY <1>3, <1>5, <1>6, <2>1
  <2>2. CASE d \notin EmptyDomains(gone)
    <3>1. domainRow'[d] = DomainRowsWithout(gone)[d]
      BY <1>3, <2>2
    <3>2. /\ Covers(domainRow'[d], OfDomain(queries', d))
          /\ Exact(domainRow[d], OfDomain(queries, d)) =>
               Exact(domainRow'[d], OfDomain(queries', d))
      BY <1>2, <3>1, RowsWithout
    <3>. QED
      BY <3>2 DEF IInv, DomainCountersCover
  <2>. QED
    BY <2>1, <2>2
<1>. QED
  BY <1>7, <1>8, <1>9 DEF IInv

\* Forgetting a device keeps the invariant: domains may count more than is
\* stored from then on, never less.
LEMMA DeleteDeviceKeepsIInv ==
  ASSUME IInv, NEW c \in Client, DeleteDevice(c)
  PROVE  IInv'
<1>1. /\ c \in clients /\ c \in Forgettable
      /\ queries' = {u \in queries : ClientOf[u] # c}
      /\ clients' = clients \ {c}
      /\ clientRow' = [clientRow EXCEPT ![c] = NoRow]
      /\ named' = named \ {c}
      /\ UNCHANGED <<domains, domainRow, minutes, clearedTo>>
      /\ queries \subseteq Record
  BY DEF DeleteDevice, Forget, IInv, TypeOK
<1>2. NoRow \in Row
  BY DEF NoRow, Row
<1>3. TypeOK'
  BY <1>1, <1>2 DEF IInv, TypeOK
<1>4. ClientCountersExact'
  <2> SUFFICES ASSUME NEW k \in Client
               PROVE  Exact(clientRow'[k], OfClient(queries', k))
    BY DEF ClientCountersExact
  <2>1. CASE k = c
    <3>1. clientRow'[k] = NoRow /\ OfClient(queries', k) = {}
      BY <1>1, <2>1 DEF IInv, TypeOK, OfClient
    <3>. QED
      BY <3>1, CountZero DEF Exact, NoRow
  <2>2. CASE k # c
    <3>1. clientRow'[k] = clientRow[k] /\ OfClient(queries', k) = OfClient(queries, k)
      BY <1>1, <2>2 DEF IInv, TypeOK, OfClient
    <3>. QED
      BY <3>1 DEF IInv, ClientCountersExact
  <2>. QED
    BY <2>1, <2>2
<1>5. DomainCountersCover'
  <2> SUFFICES ASSUME NEW d \in Domain
               PROVE  /\ Covers(domainRow'[d], OfDomain(queries', d))
                      /\ Lasting(OfDomain(Record, d)) =>
                           Exact(domainRow'[d], OfDomain(queries', d))
    BY DEF DomainCountersCover, Covers
  <2> DEFINE mine == OfDomain(queries, d)
             left == OfDomain(queries', d)
  <2>1. /\ mine \subseteq Record /\ left \subseteq mine
        /\ Lasting(OfDomain(Record, d)) => left = mine
    BY <1>1 DEF OfDomain, Lasting
  <2>2. /\ Covers(domainRow[d], mine)
        /\ Lasting(OfDomain(Record, d)) => Exact(domainRow[d], mine)
        /\ domainRow[d] \in Row /\ domainRow'[d] = domainRow[d]
    BY <1>1 DEF IInv, TypeOK, DomainCountersCover, Covers
  <2> HIDE DEF mine, left
  <2>3. Covers(domainRow[d], left)
    <3>1. /\ Count(left) <= Count(mine) /\ CountBlocked(left) <= CountBlocked(mine)
          /\ Count(left) \in Nat /\ CountBlocked(left) \in Nat
          /\ Count(mine) \in Nat /\ CountBlocked(mine) \in Nat
      BY <2>1, CountRemoved, CountType
    <3>. QED
      BY <2>2, <3>1 DEF Covers, Row
  <2>. QED
    BY <2>1, <2>2, <2>3 DEF left
<1>. QED
  BY <1>3, <1>4, <1>5 DEF IInv

\* Naming devices touches nothing that is counted.
LEMMA NamingKeepsIInv ==
  ASSUME IInv, NEW S \in SUBSET Client, NameDevices(S) \/ UnnameDevices(S)
  PROVE  IInv'
<1>1. /\ UNCHANGED <<queries, domains, domainRow, clients, clientRow, minutes,
                     clearedTo>>
      /\ named' \subseteq clients
  BY DEF NameDevices, UnnameDevices, IInv, TypeOK
<1>2. TypeOK'
  BY <1>1 DEF IInv, TypeOK
<1>3. ClientCountersExact' /\ DomainCountersCover'
  BY <1>1 DEF IInv, ClientCountersExact, DomainCountersCover
<1>. QED
  BY <1>2, <1>3 DEF IInv

\* An empty store satisfies the invariant.
LEMMA InitIInv == Init => IInv
<1> SUFFICES ASSUME Init PROVE IInv
  OBVIOUS
<1>1. NoRow \in Row /\ NoTally \in Tally
  BY DEF NoRow, Row, NoTally, Tally
<1>2. TypeOK
  BY <1>1 DEF Init, Empty, TypeOK
<1>3. /\ \A d \in Domain : OfDomain(queries, d) = {} /\ domainRow[d] = NoRow
      /\ \A c \in Client : OfClient(queries, c) = {} /\ clientRow[c] = NoRow
  BY DEF Init, Empty, OfDomain, OfClient
<1>4. ClientCountersExact
  BY <1>3, CountZero DEF ClientCountersExact, Exact, NoRow
<1>5. DomainCountersCover
  BY <1>3, CountZero DEF DomainCountersCover, Exact, NoRow
<1>. QED
  BY <1>2, <1>4, <1>5 DEF IInv

\* Every write transaction keeps the invariant.
LEMMA NextIInv == IInv /\ [Next]_vars => IInv'
<1> SUFFICES ASSUME IInv, [Next]_vars PROVE IInv'
  OBVIOUS
<1>1. ASSUME NEW batch \in SUBSET Record, StoreRecords(batch) PROVE IInv'
  BY <1>1, StoreKeepsIInv
<1>2. ASSUME NEW cutoff \in Cutoff, Cleanup(cutoff) PROVE IInv'
  BY <1>2, CleanupKeepsIInv
<1>3. ASSUME NEW S \in SUBSET Client, NameDevices(S) \/ UnnameDevices(S) PROVE IInv'
  BY <1>3, NamingKeepsIInv
<1>4. ASSUME NEW c \in Client, DeleteDevice(c) PROVE IInv'
  BY <1>4, DeleteDeviceKeepsIInv
<1>5. CASE UNCHANGED vars
  BY <1>5 DEF vars, IInv, TypeOK, ClientCountersExact, DomainCountersCover
<1>. QED
  BY <1>1, <1>2, <1>3, <1>4, <1>5 DEF Next

\* The invariant holds in every state of the store.
LEMMA AlwaysIInv == StoreSpec => []IInv
BY InitIInv, NextIInv, PTL DEF StoreSpec

-----------------------------------------------------------------------------
(* The theorems.                                                           *)

\* Every row of every table is well formed and every stored query has the
\* domain and the client it refers to, in every state of the store.
THEOREM TypeCorrect == StoreSpec => []TypeOK
<1>1. IInv => TypeOK
  BY DEF IInv
<1>. QED
  BY <1>1, AlwaysIInv, PTL

\* The counters of a device are exact, whatever is imported, cleaned up,
\* forgotten and imported again.
THEOREM ClientCountersStayExact == StoreSpec => []ClientCountersExact
<1>1. IInv => ClientCountersExact
  BY DEF IInv
<1>. QED
  BY <1>1, AlwaysIInv, PTL

\* The counters of a domain never run low: pruning the domains at zero can
\* never cascade to a stored query.
THEOREM DomainCountersStayCovering == StoreSpec => []DomainCountersCover
<1>1. IInv => DomainCountersCover
  BY DEF IInv
<1>. QED
  BY <1>1, AlwaysIInv, PTL

\* No domain is ever listed at zero: the rows an import creates count what it
\* stored, and a cleanup prunes every row it has emptied.
THEOREM NoDomainIsEmpty == StoreSpec => []NoEmptyDomain
<1> DEFINE I == IInv /\ NoEmptyDomain
<1>1. Init => I
  BY InitIInv DEF Init, NoEmptyDomain
<1>2. I /\ [Next]_vars => I'
  <2> SUFFICES ASSUME IInv, NoEmptyDomain, [Next]_vars
               PROVE  NoEmptyDomain'
    BY NextIInv
  <2>1. ASSUME NEW batch \in SUBSET Record, StoreRecords(batch)
        PROVE  NoEmptyDomain'
    <3> DEFINE fresh == Fresh(batch)
    <3> SUFFICES ASSUME NEW d \in domains' PROVE domainRow'[d].count > 0
      BY DEF NoEmptyDomain
    <3>1. /\ fresh \subseteq Record
          /\ d \in domains \/ \E u \in fresh : DomainOf[u] = d
          /\ d \in Domain
          /\ domainRow[d] \in Row
      BY <2>1, StoreAssumption DEF StoreRecords, Fresh, IInv, TypeOK
    <3> DEFINE new == OfDomain(fresh, d)
               known == d \in domains
    <3>2. domainRow'[d] = IF new = {} THEN domainRow[d]
                          ELSE Added(domainRow[d], known, new)
      BY <2>1, <3>1 DEF StoreRecords
    <3>3. /\ new \subseteq Record
          /\ new = {} => d \in domains
          /\ known \in BOOLEAN
      BY <3>1 DEF OfDomain
    <3> HIDE DEF new, known, fresh
    <3>4. CASE new = {}
      BY <3>2, <3>3, <3>4 DEF NoEmptyDomain
    <3>5. CASE new # {}
      <4>1. domainRow'[d] = Added(domainRow[d], known, new)
        BY <3>2, <3>5
      <4>. QED
        BY <3>1, <3>3, <3>5, <4>1, AddedCounts
    <3>. QED
      BY <3>4, <3>5
  <2>2. ASSUME NEW cutoff \in Cutoff, Cleanup(cutoff)
        PROVE  NoEmptyDomain'
    <3>1. PICK gone \in OldestExpired(cutoff) : Cleanup(cutoff)!(gone)
      BY <2>2 DEF Cleanup
    <3> SUFFICES ASSUME NEW d \in domains' PROVE domainRow'[d].count > 0
      BY DEF NoEmptyDomain
    <3>2. /\ gone \in SUBSET queries
          /\ d \in domains /\ d \in Domain /\ d \notin EmptyDomains(gone)
          /\ domainRow'[d] = DomainRowsWithout(gone)[d]
      BY <3>1, ExpiredStored DEF IInv, TypeOK
    <3>3. domainRow'[d].count \in Nat
      BY <3>2, RowsWithout DEF Row
    <3>4. CASE gone = {}
      <4>1. domainRow'[d] = domainRow[d]
        BY <3>2, <3>4 DEF DomainRowsWithout, OfDomain
      <4>. QED
        BY <3>2, <4>1 DEF NoEmptyDomain
    <3>5. CASE gone # {}
      BY <3>2, <3>3, <3>5 DEF EmptyDomains
    <3>. QED
      BY <3>4, <3>5
  <2>3. ASSUME NEW S \in SUBSET Client, NameDevices(S) \/ UnnameDevices(S)
        PROVE  NoEmptyDomain'
    BY <2>3 DEF NameDevices, UnnameDevices, NoEmptyDomain
  <2>4. ASSUME NEW c \in Client, DeleteDevice(c)
        PROVE  NoEmptyDomain'
    BY <2>4 DEF DeleteDevice, NoEmptyDomain
  <2>5. CASE UNCHANGED vars
    BY <2>5 DEF vars, NoEmptyDomain
  <2>. QED
    BY <2>1, <2>2, <2>3, <2>4, <2>5 DEF Next
<1>. QED
  BY <1>1, <1>2, PTL DEF StoreSpec

-----------------------------------------------------------------------------
(* First- and last-seen times.                                             *)

\* The times of a row enclose the records it stands for, or are theirs.
Encloses(row, S) == S # {} => row.first <= FirstSeen(S) /\ row.last >= LastSeen(S)
SeenExactly(row, S) == S # {} => row.first = FirstSeen(S) /\ row.last = LastSeen(S)

\* A time that is one of the records' and the least, or the greatest, of them.
LEMMA SeenIs ==
  ASSUME NEW S \in SUBSET Record, NEW u \in S
  PROVE  /\ (\A v \in S : TsOf[u] <= TsOf[v]) => FirstSeen(S) = TsOf[u]
         /\ (\A v \in S : TsOf[v] <= TsOf[u]) => LastSeen(S) = TsOf[u]
<1>1. \A v \in S : TsOf[v] \in Nat
  BY RecordAssumption
<1>2. PICK v \in S : TsOf[v] = FirstSeen(S)
  BY SeenBounds
<1>3. PICK w \in S : TsOf[w] = LastSeen(S)
  BY SeenBounds
<1>4. FirstSeen(S) <= TsOf[u] /\ TsOf[u] <= LastSeen(S)
  BY SeenBounds
<1>. QED
  BY <1>1, <1>2, <1>3, <1>4

\* The bounds of two sets of records together.
LEMMA SeenTogether ==
  ASSUME NEW S \in SUBSET Record, NEW T \in SUBSET Record, S # {}, T # {}
  PROVE  /\ FirstSeen(S \cup T) = IF FirstSeen(S) < FirstSeen(T)
                                  THEN FirstSeen(S) ELSE FirstSeen(T)
         /\ LastSeen(S \cup T) = IF LastSeen(S) > LastSeen(T)
                                 THEN LastSeen(S) ELSE LastSeen(T)
<1> DEFINE first == IF FirstSeen(S) < FirstSeen(T) THEN FirstSeen(S) ELSE FirstSeen(T)
           last == IF LastSeen(S) > LastSeen(T) THEN LastSeen(S) ELSE LastSeen(T)
<1>1. /\ FirstSeen(S) \in Nat /\ LastSeen(S) \in Nat
      /\ FirstSeen(T) \in Nat /\ LastSeen(T) \in Nat
  BY SeenBounds
<1>2. \A u \in S : FirstSeen(S) <= TsOf[u] /\ TsOf[u] <= LastSeen(S) /\ TsOf[u] \in Nat
  BY SeenBounds, RecordAssumption
<1>3. \A u \in T : FirstSeen(T) <= TsOf[u] /\ TsOf[u] <= LastSeen(T) /\ TsOf[u] \in Nat
  BY SeenBounds, RecordAssumption
<1>4. \A u \in S \cup T : first <= TsOf[u] /\ TsOf[u] <= last
  BY <1>1, <1>2, <1>3
<1>5. PICK u \in S \cup T : TsOf[u] = first
  <2>1. (\E u \in S : TsOf[u] = FirstSeen(S)) /\ (\E u \in T : TsOf[u] = FirstSeen(T))
    BY SeenBounds
  <2>. QED
    BY <2>1
<1>6. PICK v \in S \cup T : TsOf[v] = last
  <2>1. (\E v \in S : TsOf[v] = LastSeen(S)) /\ (\E v \in T : TsOf[v] = LastSeen(T))
    BY SeenBounds
  <2>. QED
    BY <2>1
<1>7. S \cup T \in SUBSET Record
  OBVIOUS
<1> HIDE DEF first, last
<1>8. FirstSeen(S \cup T) = first /\ LastSeen(S \cup T) = last
  BY <1>4, <1>5, <1>6, <1>7, SeenIs
<1>. QED
  BY <1>8 DEF first, last

\* Adding records widens the bounds of a row to enclose them, and no further.
LEMMA SeenAdded ==
  ASSUME NEW row \in Row, NEW known \in BOOLEAN,
         NEW S \in SUBSET Record, NEW T \in SUBSET Record, T # {}, S # {} => known
  PROVE  /\ Encloses(row, S) => Encloses(Added(row, known, T), S \cup T)
         /\ SeenExactly(row, S) /\ (known => S # {}) =>
              SeenExactly(Added(row, known, T), S \cup T)
<1>1. row.first \in Nat /\ row.last \in Nat /\ FirstSeen(T) \in Nat /\ LastSeen(T) \in Nat
  BY SeenBounds DEF Row
<1>2. CASE S = {}
  <2>1. S \cup T = T
    BY <1>2
  <2>. QED
    BY <1>1, <1>2, <2>1 DEF Encloses, SeenExactly, Added
<1>3. CASE S # {}
  <2>1. FirstSeen(S) \in Nat /\ LastSeen(S) \in Nat
    BY <1>3, SeenBounds
  <2>. QED
    BY <1>1, <1>3, <2>1, SeenTogether DEF Encloses, SeenExactly, Added
<1>. QED
  BY <1>2, <1>3

\* Where fewer records are left their bounds lie within the old ones.
LEMMA SeenOfPart ==
  ASSUME NEW S \in SUBSET Record, NEW L \in SUBSET S, L # {}
  PROVE  FirstSeen(S) <= FirstSeen(L) /\ LastSeen(L) <= LastSeen(S)
<1>1. L \in SUBSET Record /\ S # {}
  OBVIOUS
<1>. QED
  BY <1>1, SeenBounds

\* A cleanup takes the oldest records: a newest one is left, if any is.
LEMMA NewestIsLeft ==
  ASSUME TypeOK, NEW cutoff \in Cutoff, NEW gone \in OldestExpired(cutoff),
         NEW u \in gone, NEW v \in queries \ gone
  PROVE  TsOf[u] <= TsOf[v]
<1>1. /\ u \in Record /\ v \in Record /\ TsOf[u] \in Nat /\ TsOf[v] \in Nat
      /\ cutoff \in Nat /\ TsOf[u] < cutoff
  BY RecordAssumption DEF OldestExpired, Expired, TypeOK
<1>2. CASE TsOf[v] < cutoff
  BY <1>2 DEF OldestExpired, Expired
<1>. QED
  BY <1>1, <1>2

\* The row of a domain after a cleanup, as far as its times go.
LEMMA SeenAfterCleanup ==
  ASSUME IInv, NEW cutoff \in Cutoff, NEW gone \in OldestExpired(cutoff), NEW d \in Domain
  PROVE  LET mine == OfDomain(queries, d)
             left == OfDomain(queries \ gone, d)
             row == DomainRowsWithout(gone)[d] IN
         /\ Encloses(domainRow[d], mine) => Encloses(row, left)
         /\ SeenExactly(domainRow[d], mine) => SeenExactly(row, left)
<1> DEFINE mine == OfDomain(queries, d)
           lost == OfDomain(gone, d)
           left == OfDomain(queries \ gone, d)
           row == DomainRowsWithout(gone)[d]
<1>1. /\ mine \in SUBSET Record /\ lost \in SUBSET mine
      /\ left \in SUBSET mine /\ left \in SUBSET Record /\ left = mine \ lost
  BY ExpiredStored DEF IInv, TypeOK, OfDomain
<1>2. row = IF lost = {} THEN domainRow[d] ELSE Removed(domainRow[d], lost, left)
  BY DEF DomainRowsWithout
<1>3. domainRow[d] \in Row
  BY DEF IInv, TypeOK
<1>4. \A u \in lost, v \in left : TsOf[u] <= TsOf[v]
  BY NewestIsLeft DEF IInv, OfDomain
<1> HIDE DEF mine, lost, left, row
<1>5. CASE lost = {}
  <2>1. left = mine /\ row = domainRow[d]
    BY <1>1, <1>2, <1>5
  <2>. QED
    BY <2>1 DEF mine, left, row
<1>6. CASE left = {}
  BY <1>6 DEF left, Encloses, SeenExactly
<1>7. CASE lost # {} /\ left # {}
  <2>1. row.first = FirstSeen(left) /\ row.last = domainRow[d].last
    BY <1>2, <1>7 DEF Removed
  <2>2. /\ FirstSeen(left) \in Nat /\ LastSeen(left) \in Nat
        /\ FirstSeen(mine) \in Nat /\ LastSeen(mine) \in Nat
        /\ domainRow[d].last \in Nat /\ mine # {}
    BY <1>1, <1>3, <1>7, SeenBounds DEF Row
  <2>3. LastSeen(left) = LastSeen(mine)
    <3>1. PICK v \in left : TsOf[v] = LastSeen(left)
      BY <1>1, <1>7, SeenBounds
    <3>2. \A u \in left : TsOf[u] <= TsOf[v]
      BY <1>1, <1>7, <3>1, SeenBounds
    <3>3. \A u \in mine : TsOf[u] <= TsOf[v]
      BY <1>1, <1>4, <3>2
    <3>. QED
      BY <1>1, <3>1, <3>3, SeenIs
  <2>4. Encloses(domainRow[d], mine) => Encloses(row, left)
    BY <2>1, <2>2, <2>3 DEF Encloses
  <2>5. SeenExactly(domainRow[d], mine) => SeenExactly(row, left)
    BY <2>1, <2>2, <2>3 DEF SeenExactly
  <2>. QED
    BY <2>4, <2>5 DEF mine, left, row
<1>. QED
  BY <1>5, <1>6, <1>7

\* What DomainSeenTruthful says of one domain.
SeenTruthful(d) ==
  /\ Encloses(domainRow[d], OfDomain(queries, d))
  /\ Lasting(OfDomain(Record, d)) => SeenExactly(domainRow[d], OfDomain(queries, d))

LEMMA SeenOfEveryDomain == DomainSeenTruthful <=> \A d \in Domain : SeenTruthful(d)
BY DEF DomainSeenTruthful, SeenTruthful, Encloses, SeenExactly

LEMMA StoreKeepsSeen ==
  ASSUME IInv, NoEmptyDomain, DomainSeenTruthful,
         NEW batch \in SUBSET Record, StoreRecords(batch), NEW d \in Domain
  PROVE  SeenTruthful(d)'
<1> DEFINE fresh == Fresh(batch)
           mine == OfDomain(queries, d)
           new == OfDomain(fresh, d)
           all == OfDomain(queries', d)
           known == d \in domains
<1>1. /\ queries \subseteq Record /\ fresh \subseteq Record
      /\ queries' = queries \cup fresh
  BY DEF IInv, TypeOK, StoreRecords, Fresh, Import
<1>2. /\ mine \in SUBSET Record /\ new \in SUBSET Record /\ all = mine \cup new
  BY <1>1 DEF OfDomain
<1>3. domainRow'[d] = IF new = {} THEN domainRow[d] ELSE Added(domainRow[d], known, new)
  BY DEF StoreRecords
<1>4. known \in BOOLEAN /\ (mine # {} => known) /\ domainRow[d] \in Row
  BY DEF IInv, TypeOK, OfDomain
<1>5. SeenTruthful(d)
  BY SeenOfEveryDomain
<1>6. Lasting(OfDomain(Record, d)) /\ known => mine # {}
  <2>1. Lasting(OfDomain(Record, d)) => Exact(domainRow[d], mine)
    BY DEF IInv, DomainCountersCover
  <2>2. known => domainRow[d].count > 0
    BY DEF NoEmptyDomain
  <2>3. Count({}) = 0
    BY CountZero
  <2>. QED
    BY <2>1, <2>2, <2>3 DEF Exact
<1> HIDE DEF fresh, mine, new, all, known
<1>7. CASE new = {}
  <2>1. all = mine /\ domainRow'[d] = domainRow[d]
    BY <1>2, <1>3, <1>7
  <2>. QED
    BY <1>5, <2>1 DEF SeenTruthful, mine, all
<1>8. CASE new # {}
  <2>1. domainRow'[d] = Added(domainRow[d], known, new)
    BY <1>3, <1>8
  <2>2. Encloses(domainRow[d], mine) => Encloses(domainRow'[d], all)
    BY <1>2, <1>4, <1>8, <2>1, SeenAdded
  <2>3. SeenExactly(domainRow[d], mine) /\ (known => mine # {}) =>
          SeenExactly(domainRow'[d], all)
    BY <1>2, <1>4, <1>8, <2>1, SeenAdded
  <2>. QED
    BY <1>5, <1>6, <2>2, <2>3 DEF SeenTruthful, mine, all
<1>. QED
  BY <1>7, <1>8

LEMMA CleanupKeepsSeen ==
  ASSUME IInv, DomainSeenTruthful, NEW cutoff \in Cutoff, Cleanup(cutoff), NEW d \in Domain
  PROVE  SeenTruthful(d)'
<1>1. PICK gone \in OldestExpired(cutoff) : Cleanup(cutoff)!(gone)
  BY DEF Cleanup
<1>2. /\ queries' = queries \ gone
      /\ gone \in SUBSET queries
      /\ queries \subseteq Record
  BY <1>1, CleanupTakes
<1>3. domainRow'[d] = IF d \in EmptyDomains(gone) THEN NoRow ELSE DomainRowsWithout(gone)[d]
  BY <1>1
<1>4. SeenTruthful(d)
  BY SeenOfEveryDomain
<1>5. CASE d \in EmptyDomains(gone)
  <2>1. OfDomain(queries', d) = {}
    BY <1>2, <1>5, PruningTakesNothing DEF OfDomain
  <2>. QED
    BY <2>1 DEF SeenTruthful, Encloses, SeenExactly
<1>6. CASE d \notin EmptyDomains(gone)
  <2>1. domainRow'[d] = DomainRowsWithout(gone)[d]
    BY <1>3, <1>6
  <2>. QED
    BY <1>2, <1>4, <2>1, SeenAfterCleanup DEF SeenTruthful
<1>. QED
  BY <1>5, <1>6

LEMMA DeleteDeviceKeepsSeen ==
  ASSUME IInv, DomainSeenTruthful, NEW c \in Client, DeleteDevice(c), NEW d \in Domain
  PROVE  SeenTruthful(d)'
<1> DEFINE mine == OfDomain(queries, d)
           left == OfDomain(queries', d)
<1>1. /\ mine \in SUBSET Record /\ left \in SUBSET mine /\ left \in SUBSET Record
      /\ Lasting(OfDomain(Record, d)) => left = mine
      /\ domainRow'[d] = domainRow[d] /\ domainRow[d] \in Row
  BY DEF DeleteDevice, Forget, IInv, TypeOK, OfDomain, Lasting
<1>2. SeenTruthful(d)
  BY SeenOfEveryDomain
<1> HIDE DEF mine, left
<1>3. Encloses(domainRow[d], mine) => Encloses(domainRow'[d], left)
  <2>1. CASE left = {}
    BY <2>1 DEF Encloses
  <2>2. CASE left # {}
    <3>1. /\ FirstSeen(mine) <= FirstSeen(left) /\ LastSeen(left) <= LastSeen(mine)
          /\ mine # {}
      BY <1>1, <2>2, SeenOfPart
    <3>2. /\ FirstSeen(left) \in Nat /\ LastSeen(left) \in Nat
          /\ FirstSeen(mine) \in Nat /\ LastSeen(mine) \in Nat
          /\ domainRow[d].first \in Nat /\ domainRow[d].last \in Nat
      BY <1>1, <2>2, <3>1, SeenBounds DEF Row
    <3>. QED
      BY <1>1, <3>1, <3>2 DEF Encloses
  <2>. QED
    BY <2>1, <2>2
<1>. QED
  BY <1>1, <1>2, <1>3 DEF SeenTruthful, mine, left

\* The first- and last-seen times of a domain enclose its stored queries and are
\* theirs where nothing was forgotten, although a cleanup refreshes the first
\* only: it takes the oldest records, so a newest one is left (retention.py).
THEOREM DomainSeenStaysTruthful == StoreSpec => []DomainSeenTruthful
<1>1. Init => DomainSeenTruthful
  BY DEF Init, Empty, DomainSeenTruthful, OfDomain
<1>2. IInv /\ NoEmptyDomain /\ DomainSeenTruthful /\ [Next]_vars => DomainSeenTruthful'
  <2> SUFFICES ASSUME IInv, NoEmptyDomain, DomainSeenTruthful, [Next]_vars
               PROVE  \A d \in Domain : SeenTruthful(d)'
    <3>1. DomainSeenTruthful' <=> \A d \in Domain : SeenTruthful(d)'
      BY DEF DomainSeenTruthful, SeenTruthful, Encloses, SeenExactly
    <3>. QED
      BY <3>1
  <2> TAKE d \in Domain
  <2>1. ASSUME NEW batch \in SUBSET Record, StoreRecords(batch) PROVE SeenTruthful(d)'
    BY <2>1, StoreKeepsSeen
  <2>2. ASSUME NEW cutoff \in Cutoff, Cleanup(cutoff) PROVE SeenTruthful(d)'
    BY <2>2, CleanupKeepsSeen
  <2>3. ASSUME NEW c \in Client, DeleteDevice(c) PROVE SeenTruthful(d)'
    BY <2>3, DeleteDeviceKeepsSeen
  <2>4. ASSUME UNCHANGED <<queries, domainRow>> PROVE SeenTruthful(d)'
    BY <2>4, SeenOfEveryDomain DEF SeenTruthful
  <2>. QED
    BY <2>1, <2>2, <2>3, <2>4 DEF Next, NameDevices, UnnameDevices, vars
<1>. QED
  BY <1>1, <1>2, AlwaysIInv, NoDomainIsEmpty, PTL DEF StoreSpec

-----------------------------------------------------------------------------
(* The totals of the minutes.                                              *)

TallyCovers(tally, S) == tally.total >= Count(S) /\ tally.blocked >= CountBlocked(S)
TallyExact(tally, S) == tally.total = Count(S) /\ tally.blocked = CountBlocked(S)

\* What MinutesCover says of one minute.
MinuteCovers(b) ==
  b * NS_PER_SECOND >= clearedTo =>
    /\ TallyCovers(minutes[b], InBucket(queries, b))
    /\ Lasting(InBucket(Record, b)) => TallyExact(minutes[b], InBucket(queries, b))

LEMMA CoverOfEveryMinute ==
  /\ MinutesCover <=> \A b \in Bucket : MinuteCovers(b)
  /\ MinutesCover' <=> \A b \in Bucket : MinuteCovers(b)'
BY DEF MinutesCover, MinuteCovers, TallyCovers, TallyExact

\* A record's minute starts at or before the record, and is a number.
LEMMA BucketStartsBefore ==
  ASSUME NEW u \in Record
  PROVE  /\ BucketOf(u) \in Bucket
         /\ BucketOf(u) \in Nat
         /\ BucketOf(u) * NS_PER_SECOND <= TsOf[u]
<1> DEFINE t == TsOf[u]
           s == t \div NS_PER_SECOND
           b == (s \div MINUTE) * MINUTE
<1>1. t \in Nat /\ NS_PER_SECOND \in Nat \ {0} /\ MINUTE \in Nat \ {0}
  BY RecordAssumption, StoreAssumption
<1> HIDE DEF t
<1>2. s \in Nat /\ s * NS_PER_SECOND <= t
  BY <1>1
<1> HIDE DEF s
<1>3. b \in Nat /\ b <= s
  BY <1>1, <1>2
<1> HIDE DEF b
<1>4. b * NS_PER_SECOND <= s * NS_PER_SECOND
  BY <1>1, <1>2, <1>3
<1>5. b * NS_PER_SECOND \in Nat /\ s * NS_PER_SECOND \in Nat
  BY <1>1, <1>2, <1>3
<1>6. b * NS_PER_SECOND <= t
  BY <1>1, <1>2, <1>4, <1>5
<1>7. BucketOf(u) = b
  BY DEF BucketOf, b, s, t
<1>. QED
  BY <1>3, <1>6, <1>7 DEF Bucket, t

\* Every minute is a number of seconds.
LEMMA BucketsAreNumbers == Bucket \subseteq Nat
BY BucketStartsBefore DEF Bucket

\* Adding the numbers of a part that is new keeps a total covering and exact.
LEMMA TallyAdded ==
  ASSUME NEW tally \in Tally, NEW S \in SUBSET Record, NEW T \in SUBSET Record,
         S \cap T = {}, NEW after,
         after = [total   |-> tally.total + Count(T),
                  blocked |-> tally.blocked + CountBlocked(T)]
  PROVE  /\ TallyCovers(tally, S) => TallyCovers(after, S \cup T)
         /\ TallyExact(tally, S) => TallyExact(after, S \cup T)
<1>1. /\ Count(S) \in Nat /\ CountBlocked(S) \in Nat
      /\ Count(T) \in Nat /\ CountBlocked(T) \in Nat
  BY CountType
<1>2. /\ Count(S \cup T) = Count(S) + Count(T)
      /\ CountBlocked(S \cup T) = CountBlocked(S) + CountBlocked(T)
  BY CountAdded
<1>3. tally.total \in Nat /\ tally.blocked \in Nat
  BY DEF Tally
<1>. QED
  BY <1>1, <1>2, <1>3 DEF TallyCovers, TallyExact

LEMMA StoreKeepsMinutes ==
  ASSUME IInv, MinutesCover, NEW batch \in SUBSET Record, StoreRecords(batch),
         NEW b \in Bucket
  PROVE  MinuteCovers(b)'
<1> DEFINE fresh == Fresh(batch)
           mine == InBucket(queries, b)
           new == InBucket(fresh, b)
           all == InBucket(queries', b)
<1>1. /\ queries \subseteq Record /\ fresh \subseteq Record
      /\ queries \cap fresh = {} /\ queries' = queries \cup fresh
  BY DEF IInv, TypeOK, StoreRecords, Fresh, Import
<1>2. /\ mine \in SUBSET Record /\ new \in SUBSET Record
      /\ mine \cap new = {} /\ all = mine \cup new
  BY <1>1 DEF InBucket
<1>3. /\ minutes'[b] = [total   |-> minutes[b].total + Count(new),
                        blocked |-> minutes[b].blocked + CountBlocked(new)]
      /\ clearedTo' = clearedTo
      /\ minutes[b] \in Tally
  BY DEF StoreRecords, IInv, TypeOK
<1>4. MinuteCovers(b)
  BY CoverOfEveryMinute
<1> HIDE DEF fresh, mine, new, all
<1>5. /\ TallyCovers(minutes[b], mine) => TallyCovers(minutes'[b], all)
      /\ TallyExact(minutes[b], mine) => TallyExact(minutes'[b], all)
  BY <1>2, <1>3, TallyAdded
<1>. QED
  BY <1>3, <1>4, <1>5 DEF MinuteCovers, mine, all

\* A cleanup clears no minute that starts at or after its cut-off, and takes
\* no record of such a minute.
LEMMA CleanupKeepsMinutes ==
  ASSUME IInv, MinutesCover, NEW cutoff \in Cutoff, Cleanup(cutoff), NEW b \in Bucket
  PROVE  MinuteCovers(b)'
<1> SUFFICES ASSUME b * NS_PER_SECOND >= clearedTo' PROVE MinuteCovers(b)'
  BY DEF MinuteCovers
<1>1. PICK gone \in OldestExpired(cutoff) : Cleanup(cutoff)!(gone)
  BY DEF Cleanup
<1>2. /\ queries' = queries \ gone
      /\ gone \in SUBSET queries
      /\ queries \subseteq Record
  BY <1>1, CleanupTakes
<1>3. /\ NS_PER_SECOND \in Nat \ {0} /\ cutoff \in Nat /\ clearedTo \in Nat
      /\ b \in Nat
  BY RecordAssumption, StoreAssumption, BucketsAreNumbers DEF IInv, TypeOK
<1>4. clearedTo' = IF cutoff > clearedTo THEN cutoff ELSE clearedTo
  BY <1>1
<1>5. b * NS_PER_SECOND \in Nat
  BY <1>3
<1>6. b * NS_PER_SECOND >= cutoff /\ b * NS_PER_SECOND >= clearedTo
  BY <1>3, <1>4, <1>5
<1>7. minutes'[b] = minutes[b]
  <2>1. ~ (b < cutoff \div NS_PER_SECOND)
    <3>1. b < cutoff \div NS_PER_SECOND => b * NS_PER_SECOND < cutoff
      BY <1>3
    <3>. QED
      BY <1>3, <1>5, <1>6, <3>1
  <2>. QED
    BY <1>1, <2>1 DEF ClearMinutes
<1>8. InBucket(queries', b) = InBucket(queries, b)
  <2> SUFFICES ASSUME NEW u \in gone, BucketOf(u) = b PROVE FALSE
    BY <1>2 DEF InBucket
  <2>1. u \in Record /\ TsOf[u] < cutoff /\ TsOf[u] \in Nat
    BY <1>2, RecordAssumption DEF OldestExpired, Expired
  <2>2. b * NS_PER_SECOND <= TsOf[u]
    BY <2>1, BucketStartsBefore
  <2>. QED
    BY <1>3, <1>5, <1>6, <2>1, <2>2
<1>. QED
  BY <1>6, <1>7, <1>8, CoverOfEveryMinute DEF MinuteCovers

LEMMA DeleteDeviceKeepsMinutes ==
  ASSUME IInv, MinutesCover, NEW c \in Client, DeleteDevice(c), NEW b \in Bucket
  PROVE  MinuteCovers(b)'
<1> DEFINE mine == InBucket(queries, b)
           left == InBucket(queries', b)
<1>1. /\ mine \in SUBSET Record /\ left \in SUBSET mine
      /\ Lasting(InBucket(Record, b)) => left = mine
      /\ minutes'[b] = minutes[b] /\ minutes[b] \in Tally /\ clearedTo' = clearedTo
  BY DEF DeleteDevice, Forget, IInv, TypeOK, InBucket, Lasting
<1>2. MinuteCovers(b)
  BY CoverOfEveryMinute
<1> HIDE DEF mine, left
<1>3. TallyCovers(minutes[b], mine) => TallyCovers(minutes[b], left)
  <2>1. Count(left) <= Count(mine) /\ CountBlocked(left) <= CountBlocked(mine)
    BY <1>1, CountRemoved
  <2>2. /\ Count(left) \in Nat /\ Count(mine) \in Nat
        /\ CountBlocked(left) \in Nat /\ CountBlocked(mine) \in Nat
        /\ minutes[b].total \in Nat /\ minutes[b].blocked \in Nat
    BY <1>1, CountType, left \in SUBSET Record DEF Tally
  <2>. QED
    BY <2>1, <2>2 DEF TallyCovers
<1>. QED
  BY <1>1, <1>2, <1>3 DEF MinuteCovers, mine, left

\* The per-minute totals agree with the stored queries of every minute that
\* starts at or after the last cut-off, and count no less where a device was
\* forgotten, although imports add to them, cleanups clear them by the minute
\* and deletions never tell them (ingest_store.py, retention.py).
THEOREM MinutesStayCovering == StoreSpec => []MinutesCover
<1>1. Init => MinutesCover
  <2>1. ASSUME Init, NEW b \in Bucket PROVE MinuteCovers(b)
    <3>1. minutes[b] = NoTally /\ InBucket(queries, b) = {}
      BY <2>1 DEF Init, Empty, InBucket
    <3>2. Count({}) = 0 /\ CountBlocked({}) = 0
      BY CountZero, {} \in SUBSET Record
    <3>. QED
      BY <3>1, <3>2 DEF MinuteCovers, TallyCovers, TallyExact, NoTally
  <2>. QED
    BY <2>1, CoverOfEveryMinute
<1>2. IInv /\ MinutesCover /\ [Next]_vars => MinutesCover'
  <2> SUFFICES ASSUME IInv, MinutesCover, [Next]_vars
               PROVE  \A b \in Bucket : MinuteCovers(b)'
    BY CoverOfEveryMinute
  <2> TAKE b \in Bucket
  <2>1. ASSUME NEW batch \in SUBSET Record, StoreRecords(batch) PROVE MinuteCovers(b)'
    BY <2>1, StoreKeepsMinutes
  <2>2. ASSUME NEW cutoff \in Cutoff, Cleanup(cutoff) PROVE MinuteCovers(b)'
    BY <2>2, CleanupKeepsMinutes
  <2>3. ASSUME NEW c \in Client, DeleteDevice(c) PROVE MinuteCovers(b)'
    BY <2>3, DeleteDeviceKeepsMinutes
  <2>4. ASSUME UNCHANGED <<queries, minutes, clearedTo>> PROVE MinuteCovers(b)'
    BY <2>4, CoverOfEveryMinute DEF MinuteCovers
  <2>. QED
    BY <2>1, <2>2, <2>3, <2>4 DEF Next, NameDevices, UnnameDevices, vars
<1>. QED
  BY <1>1, <1>2, AlwaysIInv, PTL DEF StoreSpec

-----------------------------------------------------------------------------
\* The store implements QueryLog: its imports, cleanups and deletions are
\* those of a plain set of records, and everything else leaves the set alone.
THEOREM StoreImplementsQueryLog == StoreSpec => ImplementsQueryLog
<1>1. Init => Empty
  BY DEF Init
<1>2. IInv /\ [Next]_vars => [Change]_queries
  <2> SUFFICES ASSUME IInv, [Next]_vars PROVE [Change]_queries
    OBVIOUS
  <2>1. ASSUME NEW batch \in SUBSET Record, StoreRecords(batch) PROVE Change
    <3>1. Fresh(batch) \in SUBSET Record /\ Import(Fresh(batch))
      BY <2>1 DEF StoreRecords, Fresh
    <3>. QED
      BY <3>1 DEF Change
  <2>2. ASSUME NEW cutoff \in Cutoff, Cleanup(cutoff) PROVE Change
    <3>1. PICK gone \in OldestExpired(cutoff) : Cleanup(cutoff)!(gone)
      BY <2>2 DEF Cleanup
    <3>2. queries' = queries \ gone
      BY <3>1, CleanupTakes
    <3>3. Expire(cutoff)
      BY <3>2 DEF Expire, OldestExpired
    <3>. QED
      BY <3>3 DEF Change
  <2>3. ASSUME NEW S \in SUBSET Client, NameDevices(S) \/ UnnameDevices(S)
        PROVE  UNCHANGED queries
    BY <2>3 DEF NameDevices, UnnameDevices
  <2>4. ASSUME NEW c \in Client, DeleteDevice(c) PROVE Change
    BY <2>4 DEF DeleteDevice, Change
  <2>5. CASE UNCHANGED vars
    BY <2>5 DEF vars
  <2>. QED
    BY <2>1, <2>2, <2>3, <2>4, <2>5 DEF Next
<1>. QED
  BY <1>1, <1>2, AlwaysIInv, PTL DEF StoreSpec, ImplementsQueryLog, Spec
=============================================================================
