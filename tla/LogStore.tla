------------------------------ MODULE LogStore ------------------------------
(***************************************************************************)
(* The stored query log: the tables queries, domains, clients and          *)
(* stats_minute, and the three write transactions that change them         *)
(* (services/ingest_store.py, services/retention.py and                    *)
(* services/device_service.py).  Every action is one write transaction:    *)
(* Database.write serialises them and rolls a failed one back, so a crash  *)
(* or an exception inside one leaves no trace here.                        *)
(*                                                                         *)
(* The store keeps three redundant summaries of the queries table: the     *)
(* counters and the first/last-seen times on domains and clients, and the  *)
(* per-minute totals.  They are maintained by deltas and never recomputed, *)
(* and a domain whose counter reaches zero is deleted, which cascades to   *)
(* its queries: a counter that ran low would destroy log records.          *)
(***************************************************************************)
EXTENDS QueryLog, FiniteSetsExt

CONSTANTS
  Domain,          \* the names that are queried
  DomainOf,        \* [Record -> Domain]
  Blocked,         \* the records AdGuard blocked
  NS_PER_SECOND,   \* nanoseconds in a second
  MINUTE,          \* seconds in a bucket of stats_minute
  MaxRows,         \* MAX_ROWS_PER_RUN: rows one cleanup may delete
  Forgettable,     \* the clients the user may delete
  MaxCount         \* bound on every counter, for a finite state space

ASSUME StoreAssumption ==
  /\ DomainOf \in [Record -> Domain]
  /\ Blocked \subseteq Record
  /\ NS_PER_SECOND \in Nat \ {0}
  /\ MINUTE \in Nat \ {0}
  /\ MaxRows \in Nat \ {0}
  /\ Forgettable \subseteq Client
  /\ MaxCount \in Nat

VARIABLES
  domains,      \* names with a row in the domains table
  domainRow,    \* [Domain -> Row]: its counters; NoRow where there is no row
  clients,      \* addresses with a row in the clients table
  clientRow,    \* [Client -> Row]
  named,        \* clients with an alias or a person
  minutes,      \* [Bucket -> Tally]: stats_minute; NoTally where no row
  clearedTo     \* history: the highest cut-off a cleanup has enforced

vars == <<queries, domains, domainRow, clients, clientRow, named, minutes,
          clearedTo>>

-----------------------------------------------------------------------------
(* The columns of the tables, and the rows a set of records stands for.    *)

Row == [count : Nat, blocked : Nat, first : Nat, last : Nat]
NoRow == [count |-> 0, blocked |-> 0, first |-> 0, last |-> 0]

Tally == [total : Nat, blocked : Nat]
NoTally == [total |-> 0, blocked |-> 0]

BucketOf(u) == ((TsOf[u] \div NS_PER_SECOND) \div MINUTE) * MINUTE
Bucket == {BucketOf(u) : u \in Record}

OfDomain(S, d) == {u \in S : DomainOf[u] = d}
OfClient(S, c) == {u \in S : ClientOf[u] = c}
InBucket(S, b) == {u \in S : BucketOf(u) = b}

Times(S) == {TsOf[u] : u \in S}
FirstSeen(S) == Min(Times(S))
LastSeen(S) == Max(Times(S))

Count(S) == Cardinality(S)
CountBlocked(S) == Cardinality(S \cap Blocked)

-----------------------------------------------------------------------------
(* store_records: the counters grow by what the batch added.               *)

\* As if the upsert overwrote the bounds of a row it finds.
AddedWithoutBounds(row, known, mine) ==
  [row EXCEPT !.count = @ + Count(mine), !.blocked = @ + CountBlocked(mine),
              !.first = FirstSeen(mine), !.last = LastSeen(mine)]

\* The upsert keeps the wider bounds, the later UPDATE adds the counts.
Added(row, known, mine) ==
  [count   |-> row.count + Count(mine),
   blocked |-> row.blocked + CountBlocked(mine),
   first   |-> IF known /\ row.first < FirstSeen(mine)
               THEN row.first ELSE FirstSeen(mine),
   last    |-> IF known /\ row.last > LastSeen(mine)
               THEN row.last ELSE LastSeen(mine)]

\* As if the records already stored were not skipped.
FreshOrKnown(batch) == batch

\* The records of a batch that are not stored yet.
Fresh(batch) == batch \ queries

\* A batch that holds nothing new changes nothing (the early return).
StoreRecords(batch) ==
  LET fresh == Fresh(batch) IN
  /\ fresh # {}
  /\ Import(fresh)
  /\ domains' = domains \cup {DomainOf[u] : u \in fresh}
  /\ clients' = clients \cup {ClientOf[u] : u \in fresh}
  /\ domainRow' = [d \in Domain |->
       IF OfDomain(fresh, d) = {} THEN domainRow[d]
       ELSE Added(domainRow[d], d \in domains, OfDomain(fresh, d))]
  /\ clientRow' = [c \in Client |->
       IF OfClient(fresh, c) = {} THEN clientRow[c]
       ELSE Added(clientRow[c], c \in clients, OfClient(fresh, c))]
  /\ minutes' = [b \in Bucket |->
       [total   |-> minutes[b].total + Count(InBucket(fresh, b)),
        blocked |-> minutes[b].blocked + CountBlocked(InBucket(fresh, b))]]
  /\ UNCHANGED <<named, clearedTo>>

-----------------------------------------------------------------------------
(* cleanup: enforce the retention window.                                  *)

Budget(cutoff) ==
  IF Count(Expired(cutoff)) < MaxRows THEN Count(Expired(cutoff)) ELSE MaxRows

\* As if the rows to delete were taken in no order.
OldestExpiredUnordered(cutoff) ==
  {gone \in SUBSET Expired(cutoff) : Count(gone) = Budget(cutoff)}

\* The rows the chunks of one run delete: the oldest, as many as allowed.
OldestExpired(cutoff) ==
  {gone \in SUBSET Expired(cutoff) :
     /\ Count(gone) = Budget(cutoff)
     /\ \A u \in gone, v \in Expired(cutoff) \ gone : TsOf[u] <= TsOf[v]}

\* As if one row too many was counted.
MonusOffByOne(m, n) == IF m > n + 1 THEN m - n - 1 ELSE 0

\* MAX(0, m - n)
Monus(m, n) == IF m > n THEN m - n ELSE 0

\* A row after _apply_deltas and _refresh_first_seen: gone are its records
\* that were deleted, left the ones that remain.
Removed(row, gone, left) ==
  [count   |-> Monus(row.count, Count(gone)),
   blocked |-> Monus(row.blocked, CountBlocked(gone)),
   first   |-> IF left = {} THEN row.first ELSE FirstSeen(left),
   last    |-> row.last]

DomainRowsWithout(gone) ==
  [d \in Domain |->
     IF OfDomain(gone, d) = {} THEN domainRow[d]
     ELSE Removed(domainRow[d], OfDomain(gone, d), OfDomain(queries \ gone, d))]

ClientRowsWithout(gone) ==
  [c \in Client |->
     IF OfClient(gone, c) = {} THEN clientRow[c]
     ELSE Removed(clientRow[c], OfClient(gone, c), OfClient(queries \ gone, c))]

\* The domains and clients a cleanup prunes, if it deleted a query at all.
EmptyDomains(gone) ==
  {d \in domains : gone # {} /\ DomainRowsWithout(gone)[d].count = 0}

\* Clients are kept when the user gave them an alias or a person.
EmptyClients(gone) ==
  {c \in clients \ named : gone # {} /\ ClientRowsWithout(gone)[c].count = 0}

\* As if a bucket was cleared as soon as it may hold an expired query.
ClearMinutesEarly(cutoff) ==
  minutes' = [b \in Bucket |->
    IF b <= cutoff \div NS_PER_SECOND THEN NoTally ELSE minutes[b]]

\* DELETE FROM stats_minute WHERE bucket < cutoff // NS_PER_SECOND
ClearMinutes(cutoff) ==
  minutes' = [b \in Bucket |->
    IF b < cutoff \div NS_PER_SECOND THEN NoTally ELSE minutes[b]]

\* The rows that go, the counters, the minutes, and the rows of domains and
\* clients that have become empty, which take the queries that still refer to
\* them with them (ON DELETE CASCADE).
Cleanup(cutoff) ==
  \E gone \in OldestExpired(cutoff) :
    /\ queries' = {u \in queries \ gone : /\ DomainOf[u] \notin EmptyDomains(gone)
                                         /\ ClientOf[u] \notin EmptyClients(gone)}
    /\ domains' = domains \ EmptyDomains(gone)
    /\ clients' = clients \ EmptyClients(gone)
    /\ domainRow' = [d \in Domain |->
         IF d \in EmptyDomains(gone) THEN NoRow ELSE DomainRowsWithout(gone)[d]]
    /\ clientRow' = [c \in Client |->
         IF c \in EmptyClients(gone) THEN NoRow ELSE ClientRowsWithout(gone)[c]]
    /\ ClearMinutes(cutoff)
    /\ clearedTo' = IF cutoff > clearedTo THEN cutoff ELSE clearedTo
    /\ UNCHANGED named

-----------------------------------------------------------------------------
(* device_service: naming and forgetting a device.                         *)

\* update_device and assign_devices give devices the alias or the person that
\* keeps a silent client from being pruned.
NameDevices(S) ==
  /\ S \subseteq clients \ named
  /\ S # {}
  /\ named' = named \cup S
  /\ UNCHANGED <<queries, domains, domainRow, clients, clientRow, minutes,
                 clearedTo>>

\* update_device and delete_person take it away again.
UnnameDevices(S) ==
  /\ S \subseteq named
  /\ S # {}
  /\ named' = named \ S
  /\ UNCHANGED <<queries, domains, domainRow, clients, clientRow, minutes,
                 clearedTo>>

\* As if the client row went and its queries stayed.
DeleteDeviceWithoutCascade(c) ==
  /\ c \in clients \cap Forgettable
  /\ clients' = clients \ {c}
  /\ clientRow' = [clientRow EXCEPT ![c] = NoRow]
  /\ named' = named \ {c}
  /\ UNCHANGED <<queries, domains, domainRow, minutes, clearedTo>>

\* DELETE FROM clients WHERE id = ?: the foreign key deletes the queries of
\* the device; the domains and the minutes they were counted in are not told.
DeleteDevice(c) ==
  /\ c \in clients \cap Forgettable
  /\ Forget(c)
  /\ clients' = clients \ {c}
  /\ clientRow' = [clientRow EXCEPT ![c] = NoRow]
  /\ named' = named \ {c}
  /\ UNCHANGED <<domains, domainRow, minutes, clearedTo>>

-----------------------------------------------------------------------------
Init ==
  /\ Empty
  /\ domains = {}
  /\ domainRow = [d \in Domain |-> NoRow]
  /\ clients = {}
  /\ clientRow = [c \in Client |-> NoRow]
  /\ named = {}
  /\ minutes = [b \in Bucket |-> NoTally]
  /\ clearedTo = 0

\* The state space is cut where a counter would pass MaxCount.
WithinBound ==
  /\ \A d \in Domain : domainRow'[d].count <= MaxCount
  /\ \A b \in Bucket : minutes'[b].total <= MaxCount

Next ==
  \/ \E batch \in SUBSET Record : StoreRecords(batch) /\ WithinBound
  \/ \E cutoff \in Cutoff : Cleanup(cutoff)
  \/ \E S \in SUBSET Client : NameDevices(S) \/ UnnameDevices(S)
  \/ \E c \in Client : DeleteDevice(c)

StoreSpec == Init /\ [][Next]_vars

-----------------------------------------------------------------------------
(* Properties.                                                             *)

\* Every variable holds rows of its table, every stored query has the domain
\* and the client it refers to, and a row that is absent from a table carries
\* no counters into its next life.
TypeOK ==
  /\ queries \subseteq Record
  /\ \A u \in queries : DomainOf[u] \in domains /\ ClientOf[u] \in clients
  /\ domains \subseteq Domain
  /\ domainRow \in [Domain -> Row]
  /\ \A d \in Domain \ domains : domainRow[d] = NoRow
  /\ clients \subseteq Client
  /\ clientRow \in [Client -> Row]
  /\ \A c \in Client \ clients : clientRow[c] = NoRow
  /\ named \subseteq clients
  /\ minutes \in [Bucket -> Tally]
  /\ clearedTo \in Nat

\* No client the user may forget ever asked for these records.
Lasting(S) == \A u \in S : ClientOf[u] \notin Forgettable

Exact(row, S) == row.count = Count(S) /\ row.blocked = CountBlocked(S)

\* A device's counters are the numbers of its stored and of its stored
\* blocked queries, through every import, cleanup, deletion and re-import
\* ("the counters on domains and clients have to stay truthful").
ClientCountersExact ==
  \A c \in Client : Exact(clientRow[c], OfClient(queries, c))

\* A domain's counters never fall below its stored queries, so pruning the
\* domains at zero never takes a stored query with it; they are exact for a
\* domain that only devices nobody forgets have asked for.
DomainCountersCover ==
  \A d \in Domain :
    /\ domainRow[d].count >= Count(OfDomain(queries, d))
    /\ domainRow[d].blocked >= CountBlocked(OfDomain(queries, d))
    /\ Lasting(OfDomain(Record, d)) =>
         Exact(domainRow[d], OfDomain(queries, d))

\* The first- and last-seen times of a domain enclose its stored queries, and
\* are the times of the oldest and the newest where nothing was forgotten,
\* although a cleanup refreshes only the first and never looks at the last.
DomainSeenTruthful ==
  \A d \in Domain :
    LET mine == OfDomain(queries, d) IN
    mine # {} =>
      /\ domainRow[d].first <= FirstSeen(mine)
      /\ domainRow[d].last >= LastSeen(mine)
      /\ Lasting(OfDomain(Record, d)) =>
           /\ domainRow[d].first = FirstSeen(mine)
           /\ domainRow[d].last = LastSeen(mine)

\* The per-minute totals the dashboard draws agree with the queries of every
\* minute that starts at or after the last cut-off, and count no less where a
\* device was forgotten.  Nothing is promised of the minute a cut-off falls in.
MinutesCover ==
  \A b \in Bucket :
    b * NS_PER_SECOND >= clearedTo =>
      /\ minutes[b].total >= Count(InBucket(queries, b))
      /\ minutes[b].blocked >= CountBlocked(InBucket(queries, b))
      /\ Lasting(InBucket(Record, b)) =>
           /\ minutes[b].total = Count(InBucket(queries, b))
           /\ minutes[b].blocked = CountBlocked(InBucket(queries, b))

\* Every row of domains stands for something: no domain is listed at zero.
NoEmptyDomain == \A d \in domains : domainRow[d].count > 0

\* The store keeps the promises of QueryLog: a cleanup removes expired records
\* only, the oldest first, whatever its pruning cascades to, and forgetting a
\* device removes exactly what that device did.
ImplementsQueryLog == Spec
=============================================================================
