-------------------------- MODULE LogPagingProofs --------------------------
(***************************************************************************)
(* What is on screen passes the filter, and has no gap with the file       *)
(* provider, for any records, filters, sizes of a page and of a delta, and *)
(* any number of requests that are answered in any order.                  *)
(***************************************************************************)
EXTENDS LogPaging, FiniteSetTheorems, SequenceTheorems, WellFoundedInduction, TLAPS

-----------------------------------------------------------------------------
(* The inductive invariant.                                                *)

Row == [id : Nat, record : Record]

Requested ==
  [kind : {"reload", "more", "delta"}, token : Nat, filter : Filter, live : BOOLEAN,
   arg : Nat, answered : BOOLEAN, items : Seq(Row), more : BOOLEAN, stored : SUBSET Record]

PagingTypeOK ==
  /\ provider \in Provider
  /\ id \in [Record -> Nat] /\ arrived \subseteq Record /\ Stored \subseteq arrived
  /\ filter \in Filter /\ live \in BOOLEAN /\ token \in Nat
  /\ rows \in Seq(Row)
  /\ hasMore \in BOOLEAN /\ loading \in BOOLEAN /\ error \in BOOLEAN
  /\ requests \in Seq(Requested)
  /\ clean \in BOOLEAN /\ reused \in BOOLEAN

InFlight == {requests[k] : k \in DOMAIN requests}
Records(s) == {s[i].record : i \in DOMAIN s}

\* A request that is wanted is for what the page shows.
WantedIsCurrent ==
  \A r \in InFlight :
    /\ r.token <= token
    /\ r.token = token => r.filter = filter /\ r.live = live

\* At most one reload or further page is wanted, and the spinner tells of it.
OnePageAtATime ==
  \A j, k \in DOMAIN requests :
    Wanted(j) /\ Wanted(k) /\ requests[j].kind # "delta" /\ requests[k].kind # "delta" =>
      j = k /\ loading

ItemsMatch == \A r \in InFlight : Records(r.items) \subseteq Matches[r.filter]

\* The rows are those of the last reload and of what was added to them since.
Settled == ~ error /\ \A r \in InFlight : r.token = token => r.kind # "reload"

RowsAreOfTheFilter == Settled => Shown \subseteq Matches[filter]

\* With the file provider ids follow time, of what was ever answered as well,
\* as long as no id was given twice.
Fine == provider = "file" /\ ~ reused

Answered == {rows[i] : i \in DOMAIN rows}
              \cup UNION {{r.items[i] : i \in DOMAIN r.items} : r \in InFlight}

IdsFollowTime ==
  Fine => \E given \in [Record -> Nat] :
    /\ \A u, v \in arrived : u < v => given[u] < given[v]
    /\ \A u \in arrived : 0 < given[u] /\ given[u] <= TopId
    /\ \A u \in Stored : given[u] = id[u]
    /\ \A row \in Answered : row.record \in arrived /\ row.id = given[row.record]

\* An answer is sorted, and lacks nothing that is still stored between its ends:
\* what it lacks is older than its last row, and there was more then, or came
\* after it.
IsWhole(r) ==
  /\ \A i, j \in DOMAIN r.items : i < j => r.items[i].record > r.items[j].record
  /\ r.kind = "more" => \A i \in DOMAIN r.items : r.items[i].id < r.arg
  /\ r.kind = "delta" => \A i \in DOMAIN r.items : r.items[i].id > r.arg
  /\ r.more => r.items # <<>>
  /\ \A u \in Asked(r) :
       \/ u \in Records(r.items)
       \/ r.more /\ \A v \in Records(r.items) : u < v
       \/ r.kind # "more" /\ \A v \in Records(r.items) : u > v

AnswersAreWhole ==
  Fine => \A r \in InFlight :
    r.live => /\ r.kind = "more" => r.arg <= TopId
              /\ r.answered => IsWhole(r)

\* The rows on screen lack nothing that is still stored between their ends, and
\* what was asked for begins at one of them, or after the last.
Ready == Settled /\ live /\ clean /\ Fine

RowsAreWhole ==
  Ready /\ rows # <<>> =>
    /\ \A u \in Shown : u >= Last(rows).record
    /\ \A u \in Stored \cap Matches[filter] :
         (\E v \in Shown : u <= v) /\ (hasMore => u >= Last(rows).record) => u \in Shown
    /\ \A i, j \in DOMAIN rows :
         i < j /\ {rows[i].record, rows[j].record} \subseteq Stored =>
           rows[i].record > rows[j].record

RequestsStartAtRows ==
  Ready => \A r \in InFlight :
    r.token = token =>
      /\ r.kind = "delta" => r.arg \in Ids(rows)
      /\ r.kind = "more" => rows # <<>> /\ r.arg = Last(rows).id

Filtered ==
  PagingTypeOK /\ WantedIsCurrent /\ OnePageAtATime /\ ItemsMatch /\ RowsAreOfTheFilter

Gapless == IdsFollowTime /\ AnswersAreWhole /\ RowsAreWhole /\ RequestsStartAtRows
IInv == Filtered /\ Gapless

-----------------------------------------------------------------------------
(* Sets of numbers and their order.                                        *)

LEMMA LeastNumber ==
  ASSUME NEW S \in SUBSET Nat, S # {}
  PROVE  \E x \in S : \A y \in S : x <= y
<1>1. PICK x \in S : \A y \in S : ~ (<<y, x>> \in OpToRel(<, Nat))
  BY NatLessThanWellFounded, WFMin
<1>2. \A y \in S : ~ (y < x)
  BY <1>1 DEF OpToRel
<1>. QED
  BY <1>2

\* The greatest number of a finite set is one with the fewest above it.
LEMMA GreatestNumber ==
  ASSUME NEW S \in SUBSET Nat, S # {}, IsFiniteSet(S)
  PROVE  \E x \in S : \A y \in S : y <= x
<1> DEFINE Above(x) == {y \in S : y > x}
           Counts == {Cardinality(Above(x)) : x \in S}
<1>1. \A x \in S : IsFiniteSet(Above(x)) /\ Cardinality(Above(x)) \in Nat
  BY FS_Subset, FS_CardinalityType
<1>2. PICK n \in Counts : \A m \in Counts : n <= m
  <2>1. Counts \in SUBSET Nat /\ Counts # {}
    BY <1>1
  <2>. QED
    BY <2>1, LeastNumber
<1>3. PICK x \in S : n = Cardinality(Above(x))
  BY <1>2
<1>4. ASSUME NEW y \in S, y > x PROVE FALSE
  <2>1. \A z \in S : z > y => z > x
    BY <1>4, x \in Nat, y \in Nat
  <2>2. ~ (y > y)
    BY y \in Nat
  <2>3. Above(y) \in SUBSET Above(x) /\ y \in Above(x) /\ y \notin Above(y)
    BY <1>4, <2>1, <2>2
  <2>4. Cardinality(Above(y)) <= n /\ Cardinality(Above(y)) # n
    BY <1>1, <1>3, <2>3, FS_Subset
  <2>5. Cardinality(Above(y)) \in Counts
    OBVIOUS
  <2>6. n <= Cardinality(Above(y))
    BY <1>2, <2>5
  <2>7. Cardinality(Above(y)) \in Nat /\ n \in Nat
    BY <1>1, <1>3
  <2> HIDE DEF Above
  <2>. QED
    BY <2>4, <2>6, <2>7
<1>. QED
  BY <1>4

LEMMA TopIdIsGreatest ==
  ASSUME NEW given \in [Record -> Nat], NEW top, top = Max({0} \cup {given[u] : u \in Record})
  PROVE  /\ top \in Nat /\ \A u \in Record : given[u] <= top
         /\ top = 0 \/ \E u \in Record : top = given[u]
<1> DEFINE S == {0} \cup {given[u] : u \in Record}
<1>1. given \in Surjection(Record, {given[u] : u \in Record})
  BY DEF Surjection
<1>2. IsFiniteSet({given[u] : u \in Record})
  BY <1>1, PagingAssumption, FS_Surjection
<1>3. IsFiniteSet(S) /\ S \in SUBSET Nat /\ S # {}
  BY <1>2, FS_AddElement, {given[u] : u \in Record} \cup {0} = S
<1>4. PICK x \in S : \A y \in S : y <= x
  BY <1>3, GreatestNumber
<1> HIDE DEF S
<1>5. top \in S /\ \A y \in S : y <= top
  BY <1>3, <1>4 DEF Max, S
<1>6. top \in Nat /\ \A u \in Record : given[u] \in S
  BY <1>3, <1>5 DEF S
<1>. QED
  BY <1>5, <1>6 DEF S

\* A finite set of numbers can be counted from the least up: the smallest number
\* of elements for which it could not would be one more than one for which it can.
LEMMA Countable ==
  ASSUME NEW S \in SUBSET Nat, IsFiniteSet(S)
  PROVE  \E s \in [1..Cardinality(S) -> S] : \A i, j \in DOMAIN s : i < j => s[i] < s[j]
<1> DEFINE Counted(T) == \E s \in [1..Cardinality(T) -> T] :
                            \A i, j \in DOMAIN s : i < j => s[i] < s[j]
           Sizes == {Cardinality(T) : T \in {T \in SUBSET S : ~ Counted(T)}}
<1>1. \A T \in SUBSET S : IsFiniteSet(T) /\ Cardinality(T) \in Nat
  BY FS_Subset, FS_CardinalityType
<1>2. SUFFICES ASSUME ~ Counted(S) PROVE FALSE
  OBVIOUS
<1>3. PICK n \in Sizes : \A m \in Sizes : n <= m
  <2>1. Sizes \in SUBSET Nat /\ Sizes # {}
    BY <1>1, <1>2
  <2>. QED
    BY <2>1, LeastNumber
<1>4. PICK T \in SUBSET S : ~ Counted(T) /\ n = Cardinality(T)
  BY <1>3
<1>5. T # {}
  <2>1. ASSUME T = {} PROVE Counted(T)
    <3>1. 1..Cardinality(T) = {}
      BY <2>1, FS_EmptySet
    <3>2. <<>> \in [{} -> T] /\ DOMAIN <<>> = {}
      OBVIOUS
    <3>. QED
      BY <3>1, <3>2
  <2>. QED
    BY <1>4, <2>1
<1>6. PICK x \in T : \A y \in T : y <= x
  BY <1>1, <1>5, GreatestNumber, T \in SUBSET Nat
<1> DEFINE R == T \ {x}
<1>7. R \in SUBSET S /\ Cardinality(R) = n - 1 /\ n \in Nat \ {0}
  BY <1>1, <1>4, <1>5, FS_RemoveElement, FS_EmptySet
<1>8. Counted(R)
  <2>1. ASSUME ~ Counted(R) PROVE Cardinality(R) \in Sizes
    BY <1>7, <2>1
  <2> HIDE DEF Sizes, Counted, R
  <2>. QED
    BY <1>3, <1>7, <2>1
<1>9. PICK s \in [1..(n - 1) -> R] : \A i, j \in DOMAIN s : i < j => s[i] < s[j]
  BY <1>7, <1>8
<1> DEFINE t == [i \in 1..n |-> IF i = n THEN x ELSE s[i]]
<1>10. \A i \in 1..n : i # n => i \in 1..(n - 1) /\ s[i] \in T /\ s[i] < x
  <2> SUFFICES ASSUME NEW i \in 1..n, i # n
               PROVE  i \in 1..(n - 1) /\ s[i] \in T /\ s[i] < x
    OBVIOUS
  <2>1. i \in 1..(n - 1)
    BY <1>7
  <2>2. s[i] \in T /\ s[i] # x /\ s[i] <= x /\ s[i] \in Nat /\ x \in Nat
    BY <1>6, <1>9, <2>1
  <2>. QED
    BY <2>1, <2>2
<1>11. t \in [1..n -> T]
  BY <1>10
<1>12. ASSUME NEW i \in 1..n, NEW j \in 1..n, i < j PROVE t[i] < t[j]
  BY <1>7, <1>9, <1>10, <1>12
<1>. QED
  BY <1>4, <1>11, <1>12

\* Numbers in a row are a set counted from the least up: each of them once.
Climbs(s, S) ==
  /\ s \in Seq(S) /\ Len(s) \in Nat /\ DOMAIN s = 1..Len(s)
  /\ \A i, j \in 1..Len(s) : i < j => s[i] < s[j]
  /\ \A x \in S : \E i \in 1..Len(s) : s[i] = x

LEMMA AscendingClimbs ==
  ASSUME NEW S \in SUBSET Nat, IsFiniteSet(S)
  PROVE  Climbs(Ascending(S), S)
<1> DEFINE n == Cardinality(S)
           s == Ascending(S)
<1>1. s \in [1..n -> S] /\ \A i, j \in DOMAIN s : i < j => s[i] < s[j]
  BY Countable DEF Ascending
<1>2. n \in Nat
  BY FS_CardinalityType
<1> HIDE DEF s, n
<1>3. s \in Injection(1..n, S)
  <2>1. \A i, j \in 1..n : s[i] = s[j] => i = j
    <3> SUFFICES ASSUME NEW i \in 1..n, NEW j \in 1..n, s[i] = s[j], i # j PROVE FALSE
      OBVIOUS
    <3>1. s[i] \in Nat /\ s[j] \in Nat
      BY <1>1
    <3>2. i < j \/ j < i
      BY <1>2
    <3>3. s[i] < s[j] \/ s[j] < s[i]
      BY <1>1, <3>2
    <3>. QED
      BY <3>1, <3>3
  <2>. QED
    BY <1>1, <2>1 DEF Injection, IsInjective
<1>4. Cardinality(1..n) = n
  BY <1>2, FS_Interval
<1>5. s \in Surjection(1..n, S)
  BY <1>3, <1>4, FS_Injection DEF n
<1>6. s \in Seq(S) /\ Len(s) = n /\ DOMAIN s = 1..n
  BY <1>1, <1>2
<1>. QED
  BY <1>1, <1>2, <1>5, <1>6 DEF Climbs, Surjection, s

-----------------------------------------------------------------------------
(* Sequences of requests and of rows.                                      *)

LEMMA RemovedAt ==
  ASSUME NEW T, NEW s \in Seq(T), NEW k \in DOMAIN s
  PROVE  LET t == RemoveAt(s, k) IN
         /\ t \in Seq(T)
         /\ \A i \in DOMAIN t :
              LET j == IF i < k THEN i ELSE i + 1 IN j \in DOMAIN s /\ j # k /\ t[i] = s[j]
         /\ \A j \in DOMAIN s : j # k => \E i \in DOMAIN t : t[i] = s[j]
<1> DEFINE front == SubSeq(s, 1, k - 1)
           back == SubSeq(s, k + 1, Len(s))
           t == RemoveAt(s, k)
           n == Len(s)
<1>1. n \in Nat /\ DOMAIN s = 1..n /\ k \in 1..n /\ \A i \in 1..n : s[i] \in T
  OBVIOUS
<1>2. front \in Seq(T) /\ Len(front) = k - 1 /\ \A i \in 1..(k - 1) : front[i] = s[i]
  BY <1>1, SubSeqProperties
<1>3. back \in Seq(T) /\ Len(back) = n - k /\ \A i \in 1..(n - k) : back[i] = s[i + k]
  BY <1>1, SubSeqProperties
<1> HIDE DEF front, back
<1>4. /\ front \o back \in Seq(T) /\ Len(front \o back) = n - 1
      /\ \A i \in 1..(n - 1) : (front \o back)[i] = IF i <= k - 1 THEN front[i]
                                                  ELSE back[i - (k - 1)]
  <2>1. (k - 1) + (n - k) = n - 1 /\ k - 1 \in Nat /\ n - k \in Nat
    BY <1>1
  <2>2. /\ front \o back \in Seq(T) /\ Len(front \o back) = (k - 1) + (n - k)
        /\ \A i \in 1..((k - 1) + (n - k)) :
             (front \o back)[i] = IF i <= k - 1 THEN front[i] ELSE back[i - (k - 1)]
    <3>1. /\ front \o back \in Seq(T) /\ Len(front \o back) = Len(front) + Len(back)
          /\ \A i \in 1..(Len(front) + Len(back)) :
               (front \o back)[i] = IF i <= Len(front) THEN front[i] ELSE back[i - Len(front)]
      BY <1>2, <1>3, ConcatProperties
    <3>. QED
      BY <1>2, <1>3, <3>1
  <2>. QED
    BY <2>1, <2>2
<1>5. t = front \o back
  BY DEF RemoveAt, front, back
<1>6. t \in Seq(T) /\ DOMAIN t = 1..(n - 1)
  BY <1>4, <1>5
<1>7. ASSUME NEW i \in 1..(n - 1), i < k
      PROVE  i \in 1..n /\ i # k /\ t[i] = s[i]
  <2>1. i \in 1..(k - 1) /\ i <= k - 1
    BY <1>1, <1>7
  <2>. QED
    BY <1>1, <1>2, <1>4, <1>5, <2>1
<1>8. ASSUME NEW i \in 1..(n - 1), ~ (i < k)
      PROVE  i + 1 \in 1..n /\ i + 1 # k /\ t[i] = s[i + 1]
  <2>1. /\ ~ (i <= k - 1) /\ i - (k - 1) \in 1..(n - k) /\ i + 1 \in 1..n /\ i + 1 # k
        /\ (i - (k - 1)) + k = i + 1
    BY <1>1, <1>8
  <2>. QED
    BY <1>3, <1>4, <1>5, <2>1
<1> HIDE DEF t
<1>9. ASSUME NEW j \in 1..n, j # k PROVE \E i \in 1..(n - 1) : t[i] = s[j]
  <2>1. CASE j < k
    <3>1. j \in 1..(n - 1)
      BY <1>1, <2>1
    <3>. QED
      BY <1>7, <2>1, <3>1
  <2>2. CASE ~ (j < k)
    <3>1. j - 1 \in 1..(n - 1) /\ ~ (j - 1 < k) /\ (j - 1) + 1 = j
      BY <1>1, <1>9, <2>2
    <3>. QED
      BY <1>8, <3>1
  <2>. QED
    BY <2>1, <2>2
<1> HIDE DEF n
<1>. QED
  BY <1>1, <1>6, <1>7, <1>8, <1>9 DEF t

LEMMA ConcatElements ==
  ASSUME NEW T, NEW a \in Seq(T), NEW b \in Seq(T)
  PROVE  LET c == a \o b IN
         /\ c \in Seq(T) /\ Len(c) = Len(a) + Len(b)
         /\ \A j \in DOMAIN a : j \in DOMAIN c /\ c[j] = a[j]
         /\ \A j \in DOMAIN b : Len(a) + j \in DOMAIN c /\ c[Len(a) + j] = b[j]
         /\ \A i \in DOMAIN c : \/ i \in DOMAIN a
                               \/ \E j \in DOMAIN b : i = Len(a) + j
<1> DEFINE c == a \o b
           m == Len(a)
           n == Len(b)
<1>1. m \in Nat /\ n \in Nat /\ DOMAIN a = 1..m /\ DOMAIN b = 1..n
  OBVIOUS
<1>2. /\ c \in Seq(T) /\ Len(c) = m + n
      /\ \A i \in 1..(m + n) : c[i] = IF i <= m THEN a[i] ELSE b[i - m]
  BY ConcatProperties
<1>3. DOMAIN c = 1..(m + n)
  BY <1>2
<1> HIDE DEF c, m, n
<1>4. ASSUME NEW j \in 1..m PROVE j \in 1..(m + n) /\ c[j] = a[j]
  BY <1>1, <1>2
<1>5. ASSUME NEW j \in 1..n PROVE m + j \in 1..(m + n) /\ c[m + j] = b[j]
  <2>1. m + j \in 1..(m + n) /\ ~ (m + j <= m) /\ (m + j) - m = j
    BY <1>1
  <2>. QED
    BY <1>2, <2>1
<1>6. ASSUME NEW i \in 1..(m + n), i \notin 1..m PROVE \E j \in 1..n : i = m + j
  <2>1. i - m \in 1..n /\ i = m + (i - m)
    BY <1>1, <1>6
  <2>. QED
    BY <2>1
<1>. QED
  BY <1>1, <1>2, <1>3, <1>4, <1>5, <1>6 DEF c, m, n

\* What is not on screen of an answer is in the order of the answer.
LEMMA NotShownIs ==
  ASSUME NEW items \in Seq(Row), rows \in Seq(Row)
  PROVE  LET t == NotShown(items) IN
         /\ t \in Seq(Row)
         /\ \A i \in DOMAIN t : t[i].id \notin Ids(rows) /\ \E a \in DOMAIN items : t[i] = items[a]
         /\ \A a \in DOMAIN items : items[a].id \in Ids(rows) \/ \E i \in DOMAIN t : t[i] = items[a]
         /\ \A i, j \in DOMAIN t : i < j =>
              \E a, b \in DOMAIN items : a < b /\ t[i] = items[a] /\ t[j] = items[b]
<1> DEFINE S == {i \in DOMAIN items : items[i].id \notin Ids(rows)}
           new == Ascending(S)
           t == NotShown(items)
<1>1. DOMAIN items = 1..Len(items) /\ Len(items) \in Nat
  OBVIOUS
<1>2. S \in SUBSET Nat /\ S \in SUBSET (1..Len(items))
  BY <1>1
<1>3. IsFiniteSet(S)
  <2>1. IsFiniteSet(1..Len(items))
    BY <1>1, FS_Interval, 1 \in Int
  <2>. QED
    BY <1>2, <2>1, FS_Subset
<1>4. Climbs(new, S)
  BY <1>2, <1>3, AscendingClimbs
<1>5. t = [i \in DOMAIN new |-> items[new[i]]]
  BY DEF NotShown
<1> HIDE DEF new
<1>6. /\ new \in Seq(S) /\ Len(new) \in Nat /\ DOMAIN new = 1..Len(new)
      /\ \A i, j \in 1..Len(new) : i < j => new[i] < new[j]
      /\ \A x \in S : \E i \in 1..Len(new) : new[i] = x
  BY <1>4 DEF Climbs
<1>7. \A i \in 1..Len(new) : new[i] \in S
  BY <1>6
<1>8. DOMAIN t = 1..Len(new) /\ \A i \in 1..Len(new) : t[i] = items[new[i]]
  BY <1>5, <1>6
<1> HIDE DEF t
<1>9. \A i \in 1..Len(new) : t[i] \in Row
  BY <1>7, <1>8
<1>10. t \in Seq(Row)
  <2>1. t \in [1..Len(new) -> Row]
    BY <1>5, <1>6, <1>9
  <2>. QED
    BY <1>6, <2>1
<1>11. \A i \in DOMAIN t : t[i].id \notin Ids(rows) /\ \E a \in DOMAIN items : t[i] = items[a]
  BY <1>7, <1>8
<1>12. \A a \in DOMAIN items : items[a].id \in Ids(rows) \/ \E i \in DOMAIN t : t[i] = items[a]
  <2> SUFFICES ASSUME NEW a \in DOMAIN items, items[a].id \notin Ids(rows)
               PROVE  \E i \in DOMAIN t : t[i] = items[a]
    OBVIOUS
  <2>1. PICK i \in 1..Len(new) : new[i] = a
    BY <1>6
  <2>. QED
    BY <1>8, <2>1
<1>13. \A i, j \in DOMAIN t : i < j =>
         \E a, b \in DOMAIN items : a < b /\ t[i] = items[a] /\ t[j] = items[b]
  <2> SUFFICES ASSUME NEW i \in 1..Len(new), NEW j \in 1..Len(new), i < j
               PROVE  \E a, b \in DOMAIN items : a < b /\ t[i] = items[a] /\ t[j] = items[b]
    BY <1>8
  <2>1. new[i] < new[j] /\ new[i] \in DOMAIN items /\ new[j] \in DOMAIN items
    BY <1>6, <1>7
  <2>. QED
    BY <1>8, <2>1
<1>. QED
  BY <1>10, <1>11, <1>12, <1>13 DEF t

LEMMA MinOfTwo ==
  ASSUME NEW a \in Nat, NEW b \in Nat
  PROVE  Min({a, b}) = IF a <= b THEN a ELSE b
<1> DEFINE S == {a, b}
<1>1. \E x \in S : \A y \in S : x <= y
  BY a <= b \/ b <= a
<1>2. Min(S) \in S /\ \A y \in S : Min(S) <= y
  BY <1>1 DEF Min
<1>. QED
  BY <1>2

\* What a request is answered with comes from the table and passes its filter;
\* of what is sorted with the newest on top, it lacks only what is older.
LEMMA AskedIsFinite ==
  ASSUME NEW r, PagingTypeOK
  PROVE  Asked(r) \in SUBSET Nat /\ Asked(r) \in SUBSET Record /\ IsFiniteSet(Asked(r))
<1>1. Asked(r) \in SUBSET Record
  BY DEF Asked, Stored
<1>. QED
  BY <1>1, PagingAssumption, FS_Subset

LEMMA MatchingIs ==
  ASSUME NEW r \in Requested, PagingTypeOK
  PROVE  LET found == Matching(r) IN
         /\ found \in Seq(Asked(r)) /\ Len(found) \in Nat /\ DOMAIN found = 1..Len(found)
         /\ \A u \in Asked(r) : \E i \in 1..Len(found) : found[i] = u
         /\ r.live => \A i, j \in 1..Len(found) : i < j => found[i] > found[j]
<1> DEFINE s == Ascending(Asked(r))
           n == Len(s)
           found == Matching(r)
<1>1. /\ s \in Seq(Asked(r)) /\ n \in Nat /\ DOMAIN s = 1..n
      /\ \A i, j \in 1..n : i < j => s[i] < s[j]
      /\ \A x \in Asked(r) : \E i \in 1..n : s[i] = x
  BY AskedIsFinite, AscendingClimbs DEF Climbs
<1>2. Asked(r) \in SUBSET Nat
  BY AskedIsFinite
<1>3. r.live \in BOOLEAN
  BY DEF Requested
<1>4. CASE ~ r.live
  BY <1>1, <1>4 DEF Matching
<1>5. CASE r.live
  <2>1. found = [i \in 1..n |-> s[(n - i) + 1]]
    BY <1>5 DEF Matching, Reverse
  <2> HIDE DEF found, s, n
  <2>2. \A i \in 1..n : (n - i) + 1 \in 1..n /\ (n - ((n - i) + 1)) + 1 = i
    BY <1>1
  <2>3. found \in [1..n -> Asked(r)]
    BY <1>1, <2>1, <2>2
  <2>4. found \in Seq(Asked(r)) /\ Len(found) = n /\ DOMAIN found = 1..n
    BY <1>1, <2>3
  <2>5. ASSUME NEW u \in Asked(r) PROVE \E i \in 1..n : found[i] = u
    <3>1. PICK i \in 1..n : s[i] = u
      BY <1>1
    <3>2. found[(n - i) + 1] = u
      BY <2>1, <2>2, <3>1
    <3>. QED
      BY <2>2, <3>2
  <2>6. ASSUME NEW i \in 1..n, NEW j \in 1..n, i < j PROVE found[i] > found[j]
    <3>1. (n - j) + 1 < (n - i) + 1
      BY <1>1, <2>6
    <3>2. s[(n - j) + 1] < s[(n - i) + 1]
      BY <1>1, <2>2, <3>1
    <3>3. s[(n - j) + 1] \in Nat /\ s[(n - i) + 1] \in Nat
      BY <1>1, <1>2, <2>2
    <3>. QED
      BY <2>1, <3>2, <3>3
  <2>. QED
    BY <1>1, <2>4, <2>5, <2>6 DEF found
<1>. QED
  BY <1>3, <1>4, <1>5

LEMMA ListQueriesIs ==
  ASSUME NEW r \in Requested, PagingTypeOK
  PROVE  LET a == ListQueries(r) IN
         /\ a.items \in Seq(Row) /\ a.more \in BOOLEAN
         /\ \A i \in DOMAIN a.items : a.items[i].record \in Asked(r)
                                      /\ a.items[i].id = id[a.items[i].record]
         /\ r.live =>
              /\ \A i, j \in DOMAIN a.items : i < j => a.items[i].record > a.items[j].record
              /\ a.more => a.items # <<>>
              /\ \A u \in Asked(r) : \/ u \in Records(a.items)
                                     \/ a.more /\ \A v \in Records(a.items) : u < v
<1> DEFINE found == Matching(r)
           n == Len(found)
           off == OffsetOf(r)
           limit == LimitOf(r)
           to == Min({n, off + limit})
           part == SubSeq(found, off + 1, to)
           items == ListQueries(r).items
           more == ListQueries(r).more
<1>1. /\ found \in Seq(Asked(r)) /\ n \in Nat /\ DOMAIN found = 1..n
      /\ \A u \in Asked(r) : \E i \in 1..n : found[i] = u
      /\ r.live => \A i, j \in 1..n : i < j => found[i] > found[j]
  BY MatchingIs
<1>2. off \in Nat /\ limit \in Nat \ {0} /\ (r.live => off = 0)
  BY PagingAssumption DEF OffsetOf, LimitOf, Requested
<1>3. to = IF n <= off + limit THEN n ELSE off + limit
  BY <1>1, <1>2, MinOfTwo
<1>4. items = [i \in DOMAIN part |-> RowOf(part[i])] /\ (more <=> n > off + limit)
  BY DEF ListQueries
<1> HIDE DEF found, n, off, limit, to, items, more
<1>5. to \in Nat /\ to <= n /\ \A i \in (off + 1)..to : i \in 1..n /\ found[i] \in Asked(r)
  BY <1>1, <1>2, <1>3
<1>6. /\ part \in Seq(Asked(r)) /\ Len(part) = (IF off + 1 <= to THEN to - off ELSE 0)
      /\ \A i \in 1..(to - off) : part[i] = found[off + i]
  <2>1. off + 1 \in Int /\ to \in Int
    BY <1>2, <1>5
  <2>2. /\ part \in Seq(Asked(r))
        /\ Len(part) = IF off + 1 <= to THEN to - (off + 1) + 1 ELSE 0
        /\ \A i \in 1..(to - (off + 1) + 1) : part[i] = found[(off + 1) + i - 1]
    BY <1>5, <2>1, SubSeqProperties
  <2> HIDE DEF part
  <2>3. to - (off + 1) + 1 = to - off /\ \A i \in Int : (off + 1) + i - 1 = off + i
    BY <1>2, <1>5
  <2>4. Len(part) = (IF off + 1 <= to THEN to - off ELSE 0)
    BY <1>2, <1>5, <2>2
  <2>5. ASSUME NEW i \in 1..(to - off) PROVE part[i] = found[off + i]
    BY <1>2, <1>5, <2>2, <2>3
  <2>. QED
    BY <2>2, <2>4, <2>5
<1> HIDE DEF part
<1> DEFINE m == Len(part)
<1>7. m \in Nat /\ DOMAIN part = 1..m /\ \A i \in 1..m : part[i] \in Asked(r)
  BY <1>6
<1>8. \A u \in Asked(r) : RowOf(u) \in Row /\ RowOf(u).record = u /\ RowOf(u).id = id[u]
  BY AskedIsFinite DEF RowOf, Row, PagingTypeOK
<1>9. DOMAIN items = 1..m /\ \A i \in 1..m : items[i] = RowOf(part[i]) /\ items[i].record = part[i]
  BY <1>4, <1>7, <1>8
<1>10. items \in Seq(Row)
  <2>1. items \in [1..m -> Row]
    BY <1>4, <1>7, <1>8
  <2>. QED
    BY <1>7, <2>1
<1>11. more \in BOOLEAN
  BY DEF more, ListQueries
<1>12. ASSUME NEW i \in DOMAIN items
       PROVE  items[i].record \in Asked(r) /\ items[i].id = id[items[i].record]
  BY <1>7, <1>8, <1>9
<1>13. ASSUME r.live
       PROVE  /\ \A i, j \in DOMAIN items : i < j => items[i].record > items[j].record
              /\ more => items # <<>>
              /\ \A u \in Asked(r) : \/ u \in Records(items)
                                     \/ more /\ \A v \in Records(items) : u < v
  <2>1. m = to /\ to \in Nat /\ \A i \in 1..m : part[i] = found[i] /\ i \in 1..n
    <3>1. off = 0 /\ to - off = to
      BY <1>2, <1>5, <1>13
    <3>2. m = to
      BY <1>5, <1>6, <3>1
    <3>3. \A i \in 1..m : part[i] = found[0 + i] /\ i \in 1..n
      BY <1>1, <1>5, <1>6, <3>1, <3>2
    <3>4. \A i \in 1..m : 0 + i = i
      BY <1>7
    <3>. QED
      BY <1>5, <3>2, <3>3, <3>4
  <2>2. ASSUME NEW i \in 1..m, NEW j \in 1..m, i < j PROVE items[i].record > items[j].record
    BY <1>1, <1>9, <1>13, <2>1, <2>2
  <2>3. ASSUME more PROVE 1 \in DOMAIN items /\ to = limit
    <3>1. to = limit /\ limit >= 1
      BY <1>1, <1>2, <1>3, <1>4, <1>13, <2>3
    <3>. QED
      BY <1>2, <1>9, <2>1, <3>1
  <2>4. ASSUME NEW u \in Asked(r), u \notin Records(items)
        PROVE  more /\ \A v \in Records(items) : u < v
    <3>1. PICK p \in 1..n : found[p] = u
      BY <1>1
    <3>2. ~ (p <= m)
      <4>1. ASSUME p <= m PROVE u \in Records(items)
        <5>1. p \in 1..m
          BY <1>1, <1>7, <4>1
        <5>. QED
          BY <1>9, <2>1, <3>1, <5>1 DEF Records
      <4>. QED
        BY <2>4, <4>1
    <3>3. more
      BY <1>1, <1>2, <1>3, <1>4, <1>13, <2>1, <3>2
    <3>4. ASSUME NEW i \in 1..m PROVE u < part[i]
      <4>1. i < p /\ i \in 1..n /\ part[i] = found[i]
        BY <1>1, <1>7, <2>1, <3>2
      <4>2. found[i] > found[p]
        BY <1>1, <1>13, <4>1
      <4>3. u \in Nat /\ part[i] \in Nat
        BY <1>7, AskedIsFinite
      <4>. QED
        BY <3>1, <4>1, <4>2, <4>3
    <3>. QED
      BY <1>9, <3>3, <3>4 DEF Records
  <2>. QED
    BY <1>9, <2>2, <2>3, <2>4
<1>. QED
  BY <1>10, <1>11, <1>12, <1>13 DEF items, more

-----------------------------------------------------------------------------
(* What becomes of the requests in flight.                                 *)

LEMMA EveryRequest ==
  ASSUME PagingTypeOK
  PROVE  \A r \in InFlight : r \in Requested
BY DEF PagingTypeOK, InFlight

LEMMA EndsOfRows ==
  ASSUME PagingTypeOK, rows # <<>>
  PROVE  /\ Len(rows) \in Nat \ {0} /\ DOMAIN rows = 1..Len(rows)
         /\ Last(rows) = rows[Len(rows)] /\ Last(rows) \in Row /\ rows[1] \in Row
<1>1. rows \in Seq(Row) /\ Len(rows) \in Nat \ {0} /\ DOMAIN rows = 1..Len(rows)
  BY EmptySeq DEF PagingTypeOK
<1>2. Len(rows) \in 1..Len(rows) /\ 1 \in 1..Len(rows)
  BY <1>1
<1>. QED
  BY <1>1, <1>2, ElementOfSeq DEF Last

LEMMA NoItems == <<>> \in Seq(Row)
BY EmptySeq

LEMMA Sent ==
  ASSUME PagingTypeOK, NEW r \in Requested, Send(r)
  PROVE  /\ requests' \in Seq(Requested)
         /\ InFlight' = InFlight \cup {r}
         /\ \E n : /\ DOMAIN requests' = DOMAIN requests \cup {n} /\ n \notin DOMAIN requests
                   /\ requests'[n] = r /\ \A j \in DOMAIN requests : requests'[j] = requests[j]
<1> DEFINE n == Len(requests) + 1
<1>1. requests \in Seq(Requested) /\ requests' = Append(requests, r)
  BY DEF PagingTypeOK, Send
<1>2. Len(requests) \in Nat /\ DOMAIN requests = 1..Len(requests)
  BY <1>1
<1>3. /\ requests' \in Seq(Requested) /\ DOMAIN requests' = 1..n
      /\ requests'[n] = r /\ \A j \in DOMAIN requests : requests'[j] = requests[j]
  BY <1>1, <1>2, AppendProperties
<1>4. DOMAIN requests' = DOMAIN requests \cup {n} /\ n \notin DOMAIN requests
  BY <1>2, <1>3
<1> HIDE DEF n
<1>5. InFlight' = InFlight \cup {r}
  BY <1>3, <1>4 DEF InFlight
<1>. QED
  BY <1>3, <1>4, <1>5

LEMMA Taken ==
  ASSUME PagingTypeOK, NEW k \in DOMAIN requests, Take(k)
  PROVE  /\ requests' \in Seq(Requested)
         /\ InFlight' \subseteq InFlight
         /\ \A j \in DOMAIN requests : j # k => requests[j] \in InFlight'
         /\ \E from \in [DOMAIN requests' -> DOMAIN requests \ {k}] :
              /\ \A i \in DOMAIN requests' : requests'[i] = requests[from[i]]
              /\ \A i, j \in DOMAIN requests' : from[i] = from[j] => i = j
<1>1. requests \in Seq(Requested) /\ requests' = RemoveAt(requests, k)
  BY DEF PagingTypeOK, Take
<1>2. DOMAIN requests = 1..Len(requests) /\ Len(requests) \in Nat
  BY <1>1
<1> DEFINE from == [i \in DOMAIN requests' |-> IF i < k THEN i ELSE i + 1]
<1>3. /\ requests' \in Seq(Requested)
      /\ \A i \in DOMAIN requests' :
           LET j == IF i < k THEN i ELSE i + 1 IN
           j \in DOMAIN requests /\ j # k /\ requests'[i] = requests[j]
      /\ \A j \in DOMAIN requests : j # k => \E i \in DOMAIN requests' : requests'[i] = requests[j]
  BY <1>1, RemovedAt
<1>4. DOMAIN requests' \subseteq Nat
  BY <1>3
<1>5. from \in [DOMAIN requests' -> DOMAIN requests \ {k}]
  BY <1>3
<1>6. \A i \in DOMAIN requests' : requests'[i] = requests[from[i]]
  BY <1>3
<1>7. \A i, j \in DOMAIN requests' : from[i] = from[j] => i = j
  BY <1>2, <1>4
<1>8. InFlight' \subseteq InFlight
  BY <1>5, <1>6 DEF InFlight
<1>9. \A j \in DOMAIN requests : j # k => requests[j] \in InFlight'
  BY <1>3 DEF InFlight
<1>. QED
  BY <1>3, <1>5, <1>6, <1>7, <1>8, <1>9

\* No page is wanted any more once the one that was is taken.
LEMMA PagesTaken ==
  ASSUME PagingTypeOK, WantedIsCurrent, OnePageAtATime, ItemsMatch,
         NEW k \in DOMAIN requests, Take(k), token' = token, filter' = filter, live' = live
  PROVE  /\ WantedIsCurrent' /\ ItemsMatch'
         /\ loading' = loading => OnePageAtATime'
         /\ Wanted(k) /\ requests[k].kind # "delta" =>
              /\ OnePageAtATime'
              /\ \A r \in InFlight' : r.token = token => r.kind = "delta"
         /\ ~ Wanted(k) \/ requests[k].kind = "delta" =>
              (Settled' /\ error' = error => Settled)
<1>1. InFlight' \subseteq InFlight /\ \A j \in DOMAIN requests : j # k => requests[j] \in InFlight'
  BY Taken
<1>2. PICK from \in [DOMAIN requests' -> DOMAIN requests \ {k}] :
        /\ \A i \in DOMAIN requests' : requests'[i] = requests[from[i]]
        /\ \A i, j \in DOMAIN requests' : from[i] = from[j] => i = j
  BY Taken
<1>3. WantedIsCurrent' /\ ItemsMatch'
  BY <1>1 DEF WantedIsCurrent, ItemsMatch
<1>4. ASSUME loading' = loading PROVE OnePageAtATime'
  BY <1>2, <1>4 DEF OnePageAtATime, Wanted
<1>5. ASSUME Wanted(k), requests[k].kind # "delta"
      PROVE  /\ OnePageAtATime'
             /\ \A r \in InFlight' : r.token = token => r.kind = "delta"
  <2>1. \A j \in DOMAIN requests : j # k /\ requests[j].token = token => requests[j].kind = "delta"
    BY <1>5 DEF OnePageAtATime, Wanted
  <2>2. \A i \in DOMAIN requests' : requests'[i].token = token => requests'[i].kind = "delta"
    BY <1>2, <2>1
  <2>. QED
    BY <2>2 DEF OnePageAtATime, Wanted, InFlight
<1>6. ASSUME ~ Wanted(k) \/ requests[k].kind = "delta", Settled', error' = error PROVE Settled
  BY <1>1, <1>6 DEF Settled, Wanted, InFlight
<1>. QED
  BY <1>3, <1>4, <1>5, <1>6

-----------------------------------------------------------------------------
(* Each action: types, and the filter.                                     *)

LEMMA FilteredImport ==
  ASSUME Filtered, NEW S \in SUBSET Record, Import(S)
  PROVE  Filtered'
<1>1. UNCHANGED <<provider, reused, page, view, requests, clean>>
  BY DEF Import
<1>2. TopId \in Nat
  BY TopIdIsGreatest DEF Filtered, PagingTypeOK, TopId
<1>3. \A u \in Record : id'[u] \in Nat /\ (u \notin S => id'[u] = id[u])
  <2> SUFFICES ASSUME NEW u \in Record PROVE id'[u] \in Nat /\ (u \notin S => id'[u] = id[u])
    OBVIOUS
  <2> DEFINE Upto == {v \in S : IF provider = "api" THEN v >= u ELSE v <= u}
  <2>1. Cardinality(Upto) \in Nat
    BY PagingAssumption, FS_Subset, FS_CardinalityType
  <2>2. id'[u] = IF u \notin S THEN id[u] ELSE TopId + Cardinality(Upto)
    BY DEF Import
  <2> HIDE DEF Upto
  <2>. QED
    BY <1>2, <2>1, <2>2 DEF Filtered, PagingTypeOK
<1>4. id' \in [Record -> Nat]
  <2>1. DOMAIN id' = Record /\ id' = [u \in Record |-> id'[u]]
    BY DEF Import
  <2>. QED
    BY <1>3, <2>1
<1>5. arrived' = arrived \cup S
  BY DEF Import
<1>6. Stored' \subseteq arrived'
  BY <1>3, <1>5 DEF Stored, Filtered, PagingTypeOK
<1>7. PagingTypeOK'
  BY <1>1, <1>4, <1>5, <1>6 DEF Filtered, PagingTypeOK, page, view
<1>. QED
  BY <1>1, <1>7 DEF Filtered, WantedIsCurrent, OnePageAtATime, ItemsMatch, RowsAreOfTheFilter,
     Settled, InFlight, Wanted, Shown, page, view

LEMMA FilteredDelete ==
  ASSUME Filtered, NEW S, Delete(S)
  PROVE  Filtered'
<1>1. UNCHANGED <<provider, arrived, page, view, requests, clean>>
  BY DEF Delete
<1>2. id' \in [Record -> Nat] /\ Stored' \subseteq Stored /\ reused' \in BOOLEAN
  BY DEF Delete, Filtered, PagingTypeOK, Stored
<1>3. PagingTypeOK'
  BY <1>1, <1>2 DEF Filtered, PagingTypeOK, page, view
<1>. QED
  BY <1>1, <1>3 DEF Filtered, WantedIsCurrent, OnePageAtATime, ItemsMatch, RowsAreOfTheFilter,
     Settled, InFlight, Wanted, Shown, page, view

\* An answer changes one request, and nothing of it that says what was asked.
LEMMA Replied ==
  ASSUME PagingTypeOK, NEW k \in DOMAIN requests, Answer(k)
  PROVE  /\ requests' \in Seq(Requested) /\ DOMAIN requests' = DOMAIN requests
         /\ \A j \in DOMAIN requests : j # k => requests'[j] = requests[j]
         /\ \A j \in DOMAIN requests :
              /\ requests'[j].kind = requests[j].kind /\ requests'[j].token = requests[j].token
              /\ requests'[j].filter = requests[j].filter /\ requests'[j].live = requests[j].live
              /\ requests'[j].arg = requests[j].arg
         /\ requests'[k].items = ListQueries(requests[k]).items
         /\ requests'[k].more = ListQueries(requests[k]).more
<1> DEFINE r == requests[k]
           a == [r EXCEPT !.answered = TRUE,
                   !.items = ListQueries(r).items,
                   !.more = ListQueries(r).more,
                   !.stored = IF r.kind = "reload" THEN Stored ELSE {}]
<1>1. requests \in Seq(Requested) /\ r \in Requested
  BY DEF PagingTypeOK
<1>2. requests' = [requests EXCEPT ![k] = a]
  BY DEF Answer
<1>3. ListQueries(r).items \in Seq(Row) /\ ListQueries(r).more \in BOOLEAN
  BY <1>1, ListQueriesIs
<1>4. /\ a \in Requested
      /\ a.kind = r.kind /\ a.token = r.token /\ a.filter = r.filter /\ a.live = r.live
      /\ a.arg = r.arg /\ a.items = ListQueries(r).items /\ a.more = ListQueries(r).more
  BY <1>1, <1>3 DEF Requested, Stored
<1> HIDE DEF a
<1>. QED
  BY <1>1, <1>2, <1>4

LEMMA FilteredAnswer ==
  ASSUME Filtered, NEW k \in DOMAIN requests, Answer(k)
  PROVE  Filtered'
<1>1. PagingTypeOK
  BY DEF Filtered
<1>2. /\ requests' \in Seq(Requested) /\ DOMAIN requests' = DOMAIN requests
      /\ \A j \in DOMAIN requests : j # k => requests'[j] = requests[j]
      /\ \A j \in DOMAIN requests :
           /\ requests'[j].kind = requests[j].kind /\ requests'[j].token = requests[j].token
           /\ requests'[j].filter = requests[j].filter /\ requests'[j].live = requests[j].live
      /\ requests'[k].items = ListQueries(requests[k]).items
  BY <1>1, Replied
<1>3. UNCHANGED <<table, page, view, clean>>
  BY DEF Answer
<1>4. PagingTypeOK'
  BY <1>1, <1>2, <1>3 DEF PagingTypeOK, page, view, table, Stored
<1>5. WantedIsCurrent' /\ OnePageAtATime'
  BY <1>2, <1>3 DEF Filtered, WantedIsCurrent, OnePageAtATime, InFlight, Wanted, page, view
<1>6. ItemsMatch'
  <2>1. requests[k] \in Requested
    BY <1>1 DEF PagingTypeOK
  <2>2. Records(ListQueries(requests[k]).items) \subseteq Asked(requests[k])
    BY <1>1, <2>1, ListQueriesIs DEF Records
  <2>3. Asked(requests[k]) \subseteq Matches[requests[k].filter]
    BY DEF Asked
  <2>. QED
    BY <1>2, <2>2, <2>3 DEF Filtered, ItemsMatch, InFlight
<1>7. RowsAreOfTheFilter'
  BY <1>2, <1>3 DEF Filtered, RowsAreOfTheFilter, Settled, InFlight, Shown, page, view
<1>. QED
  BY <1>4, <1>5, <1>6, <1>7 DEF Filtered

LEMMA FilteredReload ==
  ASSUME Filtered, NEW f \in Filter, NEW l \in BOOLEAN, Reload(f, l)
  PROVE  Filtered'
<1> DEFINE tok == token + 1
           r == Request("reload", tok, f, l, 0)
<1>1. PagingTypeOK /\ token \in Nat /\ tok \in Nat /\ tok = token + 1
  BY DEF Filtered, PagingTypeOK
<1> HIDE DEF tok
<1>2. /\ r \in Requested /\ r.kind = "reload" /\ r.token = tok
      /\ r.filter = f /\ r.live = l /\ r.items = <<>>
  BY <1>1, NoItems DEF r, Request, Requested
<1> HIDE DEF r
<1>3. /\ UNCHANGED <<table, rows, hasMore, error, known, clean>>
      /\ token' = tok /\ filter' = f /\ live' = l /\ loading' = TRUE /\ Send(r)
  BY DEF Reload, r, tok
<1>4. requests' \in Seq(Requested) /\ InFlight' = InFlight \cup {r}
  BY <1>1, <1>2, <1>3, Sent
<1>5. PICK n : /\ DOMAIN requests' = DOMAIN requests \cup {n}
               /\ requests'[n] = r /\ \A j \in DOMAIN requests : requests'[j] = requests[j]
  BY <1>1, <1>2, <1>3, Sent
<1>6. PagingTypeOK'
  BY <1>1, <1>3, <1>4 DEF PagingTypeOK, table, Stored
<1>7. \A q \in InFlight : q.token <= token /\ q.token # token'
  <2>1. \A q \in InFlight : q.token \in Nat /\ q.token <= token
    BY <1>1, EveryRequest DEF Filtered, WantedIsCurrent, Requested
  <2>. QED
    BY <1>1, <1>3, <2>1
<1>8. WantedIsCurrent'
  <2>1. \A q \in InFlight : q.token <= token'
    <3>1. \A q \in InFlight : q.token \in Nat
      BY <1>1, EveryRequest DEF Requested
    <3>. QED
      BY <1>1, <1>3, <1>7, <3>1
  <2>. QED
    BY <1>1, <1>2, <1>3, <1>4, <1>7, <2>1 DEF WantedIsCurrent
<1>9. OnePageAtATime'
  BY <1>3, <1>5, <1>7 DEF OnePageAtATime, Wanted, InFlight
<1>10. ItemsMatch'
  BY <1>2, <1>4 DEF Filtered, ItemsMatch, Records
<1>11. RowsAreOfTheFilter'
  BY <1>2, <1>3, <1>4 DEF RowsAreOfTheFilter, Settled
<1>. QED
  BY <1>6, <1>8, <1>9, <1>10, <1>11 DEF Filtered

LEMMA FilteredLoadMore ==
  ASSUME Filtered, LoadMore
  PROVE  Filtered'
<1> DEFINE arg == IF live THEN Last(rows).id ELSE Len(rows)
           r == Request("more", token, filter, live, arg)
<1>1. PagingTypeOK /\ token \in Nat /\ filter \in Filter /\ live \in BOOLEAN /\ rows \in Seq(Row)
  BY DEF Filtered, PagingTypeOK
<1>2. arg \in Nat
  BY <1>1, EndsOfRows DEF LoadMore, Row
<1> HIDE DEF arg
<1>3. /\ r \in Requested /\ r.kind = "more" /\ r.token = token
      /\ r.filter = filter /\ r.live = live /\ r.items = <<>>
  BY <1>1, <1>2, NoItems DEF r, Request, Requested
<1> HIDE DEF r
<1>4. /\ UNCHANGED <<table, view, rows, hasMore, error, known, clean>>
      /\ ~ loading /\ loading' = TRUE /\ Send(r)
  BY DEF LoadMore, r, arg
<1>5. requests' \in Seq(Requested) /\ InFlight' = InFlight \cup {r}
  BY <1>1, <1>3, <1>4, Sent
<1>6. PICK n : /\ DOMAIN requests' = DOMAIN requests \cup {n}
               /\ requests'[n] = r /\ \A j \in DOMAIN requests : requests'[j] = requests[j]
  BY <1>1, <1>3, <1>4, Sent
<1>7. PagingTypeOK'
  BY <1>1, <1>4, <1>5 DEF PagingTypeOK, table, view, Stored
<1>8. WantedIsCurrent' /\ ItemsMatch'
  <2>1. WantedIsCurrent'
    BY <1>1, <1>3, <1>4, <1>5 DEF Filtered, WantedIsCurrent, view
  <2>2. ItemsMatch'
    BY <1>3, <1>5 DEF Filtered, ItemsMatch, Records
  <2>. QED
    BY <2>1, <2>2
<1>9. OnePageAtATime'
  BY <1>4, <1>6 DEF Filtered, OnePageAtATime, Wanted, view
<1>10. RowsAreOfTheFilter'
  BY <1>4, <1>5 DEF Filtered, RowsAreOfTheFilter, Settled, Shown, view
<1>. QED
  BY <1>7, <1>8, <1>9, <1>10 DEF Filtered

LEMMA FilteredFetchDelta ==
  ASSUME Filtered, FetchDelta
  PROVE  Filtered'
<1> DEFINE arg == rows[1].id
           r == Request("delta", token, filter, live, arg)
<1>1. PagingTypeOK /\ token \in Nat /\ filter \in Filter /\ live \in BOOLEAN /\ rows \in Seq(Row)
  BY DEF Filtered, PagingTypeOK
<1>2. arg \in Nat
  BY <1>1, EndsOfRows DEF FetchDelta, Row
<1> HIDE DEF arg
<1>3. /\ r \in Requested /\ r.kind = "delta" /\ r.token = token
      /\ r.filter = filter /\ r.live = live /\ r.items = <<>>
  BY <1>1, <1>2, NoItems DEF r, Request, Requested
<1> HIDE DEF r
<1>4. UNCHANGED <<table, page, view, clean>> /\ Send(r)
  BY DEF FetchDelta, r, arg
<1>5. requests' \in Seq(Requested) /\ InFlight' = InFlight \cup {r}
  BY <1>1, <1>3, <1>4, Sent
<1>6. PICK n : /\ DOMAIN requests' = DOMAIN requests \cup {n}
               /\ requests'[n] = r /\ \A j \in DOMAIN requests : requests'[j] = requests[j]
  BY <1>1, <1>3, <1>4, Sent
<1>7. PagingTypeOK'
  BY <1>1, <1>4, <1>5 DEF PagingTypeOK, table, view, page, Stored
<1>8. WantedIsCurrent' /\ ItemsMatch'
  <2>1. WantedIsCurrent'
    BY <1>1, <1>3, <1>4, <1>5 DEF Filtered, WantedIsCurrent, view
  <2>2. ItemsMatch'
    BY <1>3, <1>5 DEF Filtered, ItemsMatch, Records
  <2>. QED
    BY <2>1, <2>2
<1>9. OnePageAtATime'
  BY <1>3, <1>4, <1>6 DEF Filtered, OnePageAtATime, Wanted, view, page
<1>10. RowsAreOfTheFilter'
  BY <1>4, <1>5 DEF Filtered, RowsAreOfTheFilter, Settled, Shown, view, page
<1>. QED
  BY <1>7, <1>8, <1>9, <1>10 DEF Filtered

\* What becomes of the types when a request is taken.
LEMMA TypesTaken ==
  ASSUME PagingTypeOK, NEW k \in DOMAIN requests, Take(k),
         UNCHANGED <<table, view>>,
         rows' \in Seq(Row), hasMore' \in BOOLEAN, loading' \in BOOLEAN, error' \in BOOLEAN,
         clean' \in BOOLEAN
  PROVE  PagingTypeOK'
BY Taken DEF PagingTypeOK, table, view, Stored

LEMMA FilteredApplyReload ==
  ASSUME Filtered, NEW k \in DOMAIN requests, ApplyReload(k)
  PROVE  Filtered'
<1>1. /\ requests[k].kind = "reload" /\ Wanted(k) /\ Take(k) /\ UNCHANGED <<table, view>>
      /\ rows' = requests[k].items /\ hasMore' = requests[k].more
      /\ loading' = FALSE /\ error' = FALSE /\ clean' = ~ DeltaInFlight
  BY DEF ApplyReload
<1>2. PagingTypeOK /\ requests[k] \in Requested
  BY DEF Filtered, PagingTypeOK
<1>3. token' = token /\ filter' = filter /\ live' = live
  BY <1>1 DEF view
<1>4. clean' \in BOOLEAN
  BY <1>1 DEF DeltaInFlight
<1>5. PagingTypeOK'
  <2>1. rows' \in Seq(Row) /\ hasMore' \in BOOLEAN
    BY <1>1, <1>2 DEF Requested
  <2>. QED
    BY <1>1, <1>2, <1>4, <2>1, TypesTaken
<1>6. WantedIsCurrent' /\ ItemsMatch' /\ OnePageAtATime'
  BY <1>1, <1>3, PagesTaken DEF Filtered
<1>7. RowsAreOfTheFilter'
  <2>1. requests[k] \in InFlight
    BY DEF InFlight
  <2>2. requests[k].filter = filter
    BY <1>1, <2>1 DEF Filtered, WantedIsCurrent, Wanted
  <2>3. Shown' = Records(requests[k].items)
    BY <1>1 DEF Shown, Records
  <2>. QED
    BY <1>3, <2>1, <2>2, <2>3 DEF Filtered, ItemsMatch, RowsAreOfTheFilter
<1>. QED
  BY <1>5, <1>6, <1>7 DEF Filtered

\* What is joined to the rows comes from the answer.
LEMMA Joined ==
  ASSUME PagingTypeOK, NEW items \in Seq(Row)
  PROVE  LET t == NotShown(items) IN
         /\ rows \o t \in Seq(Row) /\ t \o rows \in Seq(Row)
         /\ \A i \in DOMAIN (rows \o t) :
              (\E j \in DOMAIN rows : (rows \o t)[i] = rows[j])
                \/ (\E j \in DOMAIN t : (rows \o t)[i] = t[j])
         /\ \A i \in DOMAIN (t \o rows) :
              (\E j \in DOMAIN rows : (t \o rows)[i] = rows[j])
                \/ (\E j \in DOMAIN t : (t \o rows)[i] = t[j])
         /\ Records(rows \o t) = Shown \cup Records(t) /\ Records(t \o rows) = Shown \cup Records(t)
         /\ Ids(rows) \subseteq Ids(rows \o t) /\ Ids(rows) \subseteq Ids(t \o rows)
         /\ Records(t) \subseteq Records(items)
<1> DEFINE t == NotShown(items)
<1>1. rows \in Seq(Row) /\ t \in Seq(Row) /\ Records(t) \subseteq Records(items)
  <2>1. rows \in Seq(Row)
    BY DEF PagingTypeOK
  <2>. QED
    BY <2>1, NotShownIs DEF Records
<1> HIDE DEF t
<1>2. ASSUME NEW a \in Seq(Row), NEW b \in Seq(Row)
      PROVE  /\ a \o b \in Seq(Row)
             /\ \A i \in DOMAIN (a \o b) :
                  \/ \E j \in DOMAIN a : (a \o b)[i] = a[j]
                  \/ \E j \in DOMAIN b : (a \o b)[i] = b[j]
             /\ \A j \in DOMAIN a : \E i \in DOMAIN (a \o b) : (a \o b)[i] = a[j]
             /\ \A j \in DOMAIN b : \E i \in DOMAIN (a \o b) : (a \o b)[i] = b[j]
  <2> DEFINE c == a \o b
             m == Len(a)
  <2>1. /\ c \in Seq(Row)
        /\ \A j \in DOMAIN a : j \in DOMAIN c /\ c[j] = a[j]
        /\ \A j \in DOMAIN b : m + j \in DOMAIN c /\ c[m + j] = b[j]
        /\ \A i \in DOMAIN c : i \in DOMAIN a \/ \E j \in DOMAIN b : i = m + j
    BY ConcatElements
  <2> HIDE DEF c, m
  <2>. QED
    BY <2>1 DEF c
<1>. QED
  <2>1. ASSUME NEW a \in Seq(Row), NEW b \in Seq(Row)
        PROVE  /\ Records(a \o b) = Records(a) \cup Records(b)
               /\ Ids(a) \subseteq Ids(a \o b) /\ Ids(b) \subseteq Ids(a \o b)
    <3> DEFINE c == a \o b
    <3>1. /\ \A i \in DOMAIN c : \/ \E j \in DOMAIN a : c[i] = a[j]
                                \/ \E j \in DOMAIN b : c[i] = b[j]
          /\ \A j \in DOMAIN a : \E i \in DOMAIN c : c[i] = a[j]
          /\ \A j \in DOMAIN b : \E i \in DOMAIN c : c[i] = b[j]
      BY <1>2
    <3> HIDE DEF c
    <3>2. Records(c) = Records(a) \cup Records(b)
      BY <3>1 DEF Records
    <3>3. Ids(a) \subseteq Ids(c) /\ Ids(b) \subseteq Ids(c)
      BY <3>1 DEF Ids
    <3>. QED
      BY <3>2, <3>3 DEF c
  <2>2. Shown = Records(rows)
    BY DEF Shown, Records
  <2>3. /\ Records(rows \o t) = Shown \cup Records(t)
        /\ Records(t \o rows) = Shown \cup Records(t)
        /\ Ids(rows) \subseteq Ids(rows \o t) /\ Ids(rows) \subseteq Ids(t \o rows)
    BY <1>1, <2>1, <2>2
  <2>4. /\ rows \o t \in Seq(Row) /\ t \o rows \in Seq(Row)
        /\ \A i \in DOMAIN (rows \o t) :
             (\E j \in DOMAIN rows : (rows \o t)[i] = rows[j])
               \/ (\E j \in DOMAIN t : (rows \o t)[i] = t[j])
        /\ \A i \in DOMAIN (t \o rows) :
             (\E j \in DOMAIN rows : (t \o rows)[i] = rows[j])
               \/ (\E j \in DOMAIN t : (t \o rows)[i] = t[j])
    BY <1>1, <1>2
  <2>. QED
    BY <1>1, <2>3, <2>4 DEF t

LEMMA FilteredApplyMore ==
  ASSUME Filtered, NEW k \in DOMAIN requests, ApplyMore(k)
  PROVE  Filtered'
<1>1. /\ requests[k].kind = "more" /\ Wanted(k) /\ Take(k)
      /\ rows' = rows \o NotShown(requests[k].items)
      /\ hasMore' = requests[k].more /\ loading' = FALSE
      /\ UNCHANGED <<table, view, error, clean>>
  BY DEF ApplyMore
<1>2. PagingTypeOK /\ requests[k] \in Requested
  BY DEF Filtered, PagingTypeOK
<1>3. token' = token /\ filter' = filter /\ live' = live
  BY <1>1 DEF view
<1>4. /\ rows' \in Seq(Row) /\ Shown' \subseteq Shown \cup Records(requests[k].items)
  <2>1. requests[k].items \in Seq(Row)
    BY <1>2 DEF Requested
  <2>2. Shown' = Records(rows')
    BY DEF Shown, Records
  <2>. QED
    BY <1>1, <1>2, <2>1, <2>2, Joined
<1>5. PagingTypeOK'
  <2>1. hasMore' \in BOOLEAN /\ loading' \in BOOLEAN /\ error' \in BOOLEAN /\ clean' \in BOOLEAN
    BY <1>1, <1>2 DEF Requested, PagingTypeOK
  <2>. QED
    BY <1>1, <1>2, <1>4, <2>1, TypesTaken
<1>6. WantedIsCurrent' /\ ItemsMatch' /\ OnePageAtATime'
  BY <1>1, <1>3, PagesTaken DEF Filtered
<1>7. RowsAreOfTheFilter'
  <2>1. requests[k] \in InFlight
    BY DEF InFlight
  <2>2. requests[k].filter = filter
    BY <1>1, <2>1 DEF Filtered, WantedIsCurrent, Wanted
  <2>3. Settled' => Settled
    <3>1. \A r \in InFlight : r.token = token /\ r.kind = "reload" => FALSE
      BY <1>1 DEF Filtered, OnePageAtATime, Wanted, InFlight
    <3>. QED
      BY <1>1, <3>1 DEF Settled
  <2>. QED
    BY <1>3, <1>4, <2>1, <2>2, <2>3 DEF Filtered, ItemsMatch, RowsAreOfTheFilter
<1>. QED
  BY <1>5, <1>6, <1>7 DEF Filtered

LEMMA FilteredApplyDelta ==
  ASSUME Filtered, NEW k \in DOMAIN requests, ApplyDelta(k)
  PROVE  Filtered'
<1>1. /\ requests[k].kind = "delta" /\ Wanted(k) /\ Take(k)
      /\ rows' = NotShown(requests[k].items) \o rows
      /\ clean' = (clean /\ ~ requests[k].more)
      /\ UNCHANGED <<table, view, hasMore, loading, error>>
  BY DEF ApplyDelta
<1>2. PagingTypeOK /\ requests[k] \in Requested
  BY DEF Filtered, PagingTypeOK
<1>3. token' = token /\ filter' = filter /\ live' = live
  BY <1>1 DEF view
<1>4. /\ rows' \in Seq(Row) /\ Shown' \subseteq Shown \cup Records(requests[k].items)
  <2>1. requests[k].items \in Seq(Row)
    BY <1>2 DEF Requested
  <2>2. Shown' = Records(rows')
    BY DEF Shown, Records
  <2>. QED
    BY <1>1, <1>2, <2>1, <2>2, Joined
<1>5. PagingTypeOK'
  <2>1. hasMore' \in BOOLEAN /\ loading' \in BOOLEAN /\ error' \in BOOLEAN
    BY <1>1, <1>2 DEF PagingTypeOK
  <2>2. clean' \in BOOLEAN
    BY <1>1
  <2>. QED
    BY <1>1, <1>2, <1>4, <2>1, <2>2, TypesTaken
<1>6. WantedIsCurrent' /\ ItemsMatch' /\ OnePageAtATime' /\ (Settled' => Settled)
  BY <1>1, <1>3, PagesTaken DEF Filtered
<1>7. RowsAreOfTheFilter'
  <2>1. requests[k] \in InFlight
    BY DEF InFlight
  <2>2. requests[k].filter = filter
    BY <1>1, <2>1 DEF Filtered, WantedIsCurrent, Wanted
  <2>. QED
    BY <1>3, <1>4, <1>6, <2>1, <2>2 DEF Filtered, ItemsMatch, RowsAreOfTheFilter
<1>. QED
  BY <1>5, <1>6, <1>7 DEF Filtered

LEMMA FilteredIgnore ==
  ASSUME Filtered, NEW k \in DOMAIN requests, Ignore(k)
  PROVE  Filtered'
<1>1. ~ Wanted(k) /\ Take(k) /\ UNCHANGED <<table, page, view, clean>>
  BY DEF Ignore
<1>2. token' = token /\ filter' = filter /\ live' = live /\ loading' = loading /\ error' = error
  BY <1>1 DEF view, page
<1>3. PagingTypeOK'
  BY <1>1, <1>2, TypesTaken DEF Filtered, PagingTypeOK, page
<1>4. WantedIsCurrent' /\ ItemsMatch' /\ OnePageAtATime' /\ (Settled' => Settled)
  BY <1>1, <1>2, PagesTaken DEF Filtered
<1>5. RowsAreOfTheFilter'
  BY <1>1, <1>2, <1>4 DEF Filtered, RowsAreOfTheFilter, Shown, page
<1>. QED
  BY <1>3, <1>4, <1>5 DEF Filtered

LEMMA FilteredFail ==
  ASSUME Filtered, NEW k \in DOMAIN requests, Fail(k)
  PROVE  Filtered'
<1>1. /\ Take(k) /\ UNCHANGED <<table, view, rows, hasMore, clean>>
      /\ IF Wanted(k) /\ requests[k].kind # "delta"
         THEN error' = TRUE /\ loading' = FALSE
         ELSE UNCHANGED <<error, loading>>
  BY DEF Fail
<1>2. token' = token /\ filter' = filter /\ live' = live
  BY <1>1 DEF view
<1>3. PagingTypeOK'
  <2>1. /\ rows' \in Seq(Row) /\ hasMore' \in BOOLEAN /\ loading' \in BOOLEAN /\ error' \in BOOLEAN
        /\ clean' \in BOOLEAN /\ PagingTypeOK
    BY <1>1 DEF Filtered, PagingTypeOK
  <2>. QED
    BY <1>1, <2>1, TypesTaken
<1>4. WantedIsCurrent' /\ ItemsMatch' /\ OnePageAtATime' /\ (Settled' => Settled)
  <2>1. CASE Wanted(k) /\ requests[k].kind # "delta"
    BY <1>1, <1>2, <2>1, PagesTaken DEF Filtered, Settled
  <2>2. CASE ~ (Wanted(k) /\ requests[k].kind # "delta")
    BY <1>1, <1>2, <2>2, PagesTaken DEF Filtered
  <2>. QED
    BY <2>1, <2>2
<1>5. RowsAreOfTheFilter'
  BY <1>1, <1>2, <1>4 DEF Filtered, RowsAreOfTheFilter, Shown
<1>. QED
  BY <1>3, <1>4, <1>5 DEF Filtered

LEMMA FilteredInit ==
  ASSUME Init
  PROVE  Filtered
<1> DEFINE r == Request("reload", 1, filter, TRUE, 0)
<1>1. /\ r \in Requested /\ r.kind = "reload" /\ r.token = 1
      /\ r.filter = filter /\ r.live = TRUE /\ r.items = <<>>
  BY NoItems DEF Init, Request, Requested
<1> HIDE DEF r
<1>2. requests = <<r>> /\ token = 1 /\ live = TRUE /\ rows = <<>> /\ loading = TRUE
  BY DEF Init, r
<1>3. requests \in Seq(Requested) /\ DOMAIN requests = {1} /\ requests[1] = r
  BY <1>1, <1>2
<1>4. InFlight = {r}
  BY <1>3 DEF InFlight
<1>5. PagingTypeOK
  <2>1. id \in [Record -> Nat] /\ Stored \subseteq arrived /\ arrived \subseteq Record
    BY DEF Init, Stored
  <2>2. rows \in Seq(Row)
    BY <1>2, NoItems
  <2>. QED
    BY <1>3, <2>1, <2>2 DEF Init, PagingTypeOK
<1>6. WantedIsCurrent /\ OnePageAtATime
  <2>1. WantedIsCurrent
    <3>1. r.token <= token
      BY <1>1, <1>2
    <3>2. r.filter = filter /\ r.live = live
      BY <1>1, <1>2, Zenon
    <3>. QED
      BY <1>4, <3>1, <3>2, Zenon DEF WantedIsCurrent
  <2>2. OnePageAtATime
    BY <1>2, <1>3 DEF OnePageAtATime
  <2>. QED
    BY <2>1, <2>2
<1>7. ItemsMatch /\ RowsAreOfTheFilter
  BY <1>1, <1>2, <1>4 DEF ItemsMatch, RowsAreOfTheFilter, Settled, Records
<1>. QED
  BY <1>5, <1>6, <1>7 DEF Filtered

LEMMA FilteredNext ==
  ASSUME Filtered, [Next]_vars
  PROVE  Filtered'
<1>1. CASE UNCHANGED vars
  BY <1>1 DEF vars, table, page, view, Filtered, PagingTypeOK, WantedIsCurrent, OnePageAtATime,
     ItemsMatch, RowsAreOfTheFilter, Settled, InFlight, Wanted, Shown, Stored
<1>2. CASE Next
  <2>1. ASSUME NEW S \in Deletable, Delete(S) PROVE Filtered'
    BY <2>1, FilteredDelete
  <2>2. ASSUME NEW k \in DOMAIN requests,
               \/ Answer(k)
               \/ ApplyReload(k) \/ ApplyMore(k) \/ ApplyDelta(k)
               \/ Ignore(k) \/ Fail(k)
        PROVE  Filtered'
    BY <2>2, FilteredAnswer, FilteredApplyReload, FilteredApplyMore, FilteredApplyDelta,
       FilteredIgnore, FilteredFail
  <2>. QED
    BY <1>2, <2>1, <2>2, FilteredImport, FilteredReload, FilteredLoadMore, FilteredFetchDelta
       DEF Next
<1>. QED
  BY <1>1, <1>2

LEMMA AlwaysFiltered == PagingSpec => []Filtered
BY FilteredInit, FilteredNext, PTL DEF PagingSpec

\* Once the spinner is off and no error is shown, every row on screen is one
\* the current filter lets through: no answer to an earlier filter is wanted, and
\* the reload that brings the rows of the current one keeps the spinner on.
THEOREM RowsAlwaysMatchFilter == PagingSpec => []RowsMatchFilter
<1>1. Filtered => RowsMatchFilter
  BY DEF Filtered, RowsMatchFilter, RowsAreOfTheFilter, Settled, OnePageAtATime, Wanted, InFlight
<1>. QED
  BY <1>1, AlwaysFiltered, PTL

-----------------------------------------------------------------------------
(* Ids and time.                                                           *)

Known == Answered \cup {RowOf(u) : u \in Stored}

FollowsTime(given) ==
  /\ \A u, v \in arrived : u < v => given[u] < given[v]
  /\ \A u \in arrived : 0 < given[u] /\ given[u] <= TopId
  /\ \A u \in Stored : given[u] = id[u]
  /\ \A row \in Answered : row.record \in arrived /\ row.id = given[row.record]

LEMMA GivenIds ==
  ASSUME IdsFollowTime, Fine
  PROVE  \E given \in [Record -> Nat] : FollowsTime(given)
BY DEF IdsFollowTime, FollowsTime

LEMMA AnsweredAreRows ==
  ASSUME PagingTypeOK
  PROVE  Answered \subseteq Row
<1>1. \A r \in InFlight : r.items \in Seq(Row)
  BY EveryRequest DEF Requested
<1>. QED
  BY <1>1 DEF Answered, PagingTypeOK

\* Of two rows that were answered or could be, the one with the higher id is the
\* newer record.
LEMMA ByTime ==
  ASSUME PagingTypeOK, IdsFollowTime, Fine
  PROVE  /\ \A x, y \in Known : /\ x.id < y.id <=> x.record < y.record
                                /\ x.id = y.id <=> x.record = y.record
         /\ \A x \in Known : /\ x.id \in Nat /\ x.record \in Nat
                             /\ x.record \in arrived /\ x.id <= TopId
<1>1. PICK given \in [Record -> Nat] : FollowsTime(given)
  BY GivenIds
<1>2. arrived \subseteq Record /\ Stored \subseteq arrived /\ Record \subseteq Nat
  BY PagingAssumption DEF PagingTypeOK
<1>3. ASSUME NEW x \in Known PROVE x.record \in arrived /\ x.id = given[x.record]
  <2>1. CASE x \in Answered
    BY <1>1, <2>1 DEF FollowsTime
  <2>2. CASE x \in {RowOf(u) : u \in Stored}
    BY <1>1, <1>2, <2>2 DEF FollowsTime, RowOf
  <2>. QED
    BY <2>1, <2>2 DEF Known
<1>4. ASSUME NEW u \in arrived, NEW v \in arrived
      PROVE  /\ given[u] \in Nat /\ u \in Nat /\ given[u] <= TopId
             /\ given[u] < given[v] <=> u < v
             /\ given[u] = given[v] <=> u = v
  <2>1. given[u] \in Nat /\ given[v] \in Nat /\ u \in Nat /\ v \in Nat
    BY <1>2
  <2>2. u < v => given[u] < given[v]
    BY <1>1 DEF FollowsTime
  <2>3. v < u => given[v] < given[u]
    BY <1>1 DEF FollowsTime
  <2>4. given[u] <= TopId
    BY <1>1 DEF FollowsTime
  <2>. QED
    BY <2>1, <2>2, <2>3, <2>4
<1>. QED
  BY <1>3, <1>4

LEMMA IdsKept ==
  ASSUME PagingTypeOK, IdsFollowTime, UNCHANGED table, Answered' \subseteq Known
  PROVE  IdsFollowTime'
<1> SUFFICES ASSUME Fine' PROVE \E given \in [Record -> Nat] : FollowsTime(given)'
  BY DEF IdsFollowTime, FollowsTime
<1>1. Fine /\ id' = id /\ arrived' = arrived
  BY DEF Fine, table
<1>2. PICK given \in [Record -> Nat] : FollowsTime(given)
  BY <1>1, GivenIds
<1>3. ASSUME NEW x \in Known PROVE x.record \in arrived /\ x.id = given[x.record]
  <2>1. CASE x \in Answered
    BY <1>2, <2>1 DEF FollowsTime
  <2>2. CASE x \in {RowOf(u) : u \in Stored}
    BY <1>2, <2>2 DEF FollowsTime, RowOf, PagingTypeOK
  <2>. QED
    BY <2>1, <2>2 DEF Known
<1>4. FollowsTime(given)'
  BY <1>1, <1>2, <1>3 DEF FollowsTime, TopId, Stored
<1>. QED
  BY <1>4

LEMMA RanksClimb ==
  ASSUME NEW S \in SUBSET Nat, IsFiniteSet(S), NEW u \in S
  PROVE  LET Rank(x) == Cardinality({v \in S : v <= x}) IN
         /\ Rank(u) \in Nat /\ Rank(u) > 0
         /\ \A w \in S : u < w => Rank(u) < Rank(w)
<1> DEFINE Upto(x) == {v \in S : v <= x}
<1>1. \A x \in S : IsFiniteSet(Upto(x)) /\ Cardinality(Upto(x)) \in Nat
  BY FS_Subset, FS_CardinalityType
<1>2. u \in Upto(u)
  OBVIOUS
<1>3. Cardinality(Upto(u)) # 0
  <2> HIDE DEF Upto
  <2>. QED
    BY <1>1, <1>2, FS_EmptySet
<1>4. ASSUME NEW w \in S, u < w PROVE Cardinality(Upto(u)) < Cardinality(Upto(w))
  <2>1. Upto(u) \in SUBSET Upto(w) /\ w \in Upto(w) /\ w \notin Upto(u)
    <3>1. w \in Nat /\ u \in Nat /\ ~ (w <= u) /\ w <= w /\ \A v \in S : v \in Nat
      BY <1>4
    <3>2. \A v \in S : v <= u => v <= w
      BY <1>4, <3>1
    <3>. QED
      BY <3>1, <3>2
  <2> HIDE DEF Upto
  <2>2. /\ Cardinality(Upto(u)) <= Cardinality(Upto(w))
        /\ Cardinality(Upto(u)) # Cardinality(Upto(w))
    BY <1>1, <2>1, FS_Subset
  <2>. QED
    BY <1>1, <2>2
<1> HIDE DEF Upto
<1>5. Cardinality(Upto(u)) > 0
  BY <1>1, <1>3
<1>. QED
  BY <1>1, <1>4, <1>5 DEF Upto

\* What a file brings is newer than all there was, and its ids are higher.
LEMMA Imported ==
  ASSUME PagingTypeOK, provider = "file", NEW S \in SUBSET Record, Import(S)
  PROVE  /\ \A u \in S, v \in arrived : u > v
         /\ \A u \in S : id'[u] \in Nat /\ id'[u] > TopId /\ u \in Stored'
         /\ \A u \in Record \ S : id'[u] = id[u]
         /\ \A u, v \in S : u < v => id'[u] < id'[v]
         /\ \A u \in Record : id'[u] <= TopId'
         /\ TopId \in Nat /\ TopId' \in Nat /\ TopId < TopId'
         /\ arrived' = arrived \cup S /\ S \cap arrived = {}
         /\ Stored' = Stored \cup S /\ S # {}
<1>1. /\ S # {} /\ S \cap arrived = {} /\ arrived' = arrived \cup S
      /\ provider = "api" \/ \A u \in S, v \in arrived : u > v
      /\ id' = [u \in Record |->
           IF u \notin S THEN id[u]
           ELSE TopId + Cardinality({v \in S : IF provider = "api" THEN v >= u ELSE v <= u})]
  BY DEF Import
<1>2. TopId \in Nat
  BY TopIdIsGreatest DEF PagingTypeOK, TopId
<1>3. S \in SUBSET Nat /\ IsFiniteSet(S)
  BY PagingAssumption, FS_Subset
<1> DEFINE Rank(x) == Cardinality({v \in S : v <= x})
<1>4. \A u \in S : Rank(u) \in Nat /\ Rank(u) > 0 /\ \A w \in S : u < w => Rank(u) < Rank(w)
  BY <1>3, RanksClimb
<1>5. \A u \in S : id'[u] = TopId + Rank(u)
  <2>1. ASSUME NEW u \in S
        PROVE  {v \in S : IF provider = "api" THEN v >= u ELSE v <= u} = {v \in S : v <= u}
    OBVIOUS
  <2>. QED
    BY <1>1, <2>1
<1> HIDE DEF Rank
<1>6. \A u \in Record \ S : id'[u] = id[u]
  BY <1>1
<1>7. \A u \in S : id'[u] \in Nat /\ id'[u] > TopId
  BY <1>2, <1>4, <1>5
<1>8. \A u, v \in S : u < v => id'[u] < id'[v]
  BY <1>2, <1>4, <1>5
<1>9. id' \in [Record -> Nat]
  <2>1. \A u \in Record : id'[u] \in Nat
    BY <1>6, <1>7 DEF PagingTypeOK
  <2>2. id' = [u \in Record |-> id'[u]]
    BY <1>1
  <2>. QED
    BY <2>1, <2>2
<1>10. TopId' \in Nat /\ \A u \in Record : id'[u] <= TopId'
  BY <1>9, TopIdIsGreatest DEF TopId
<1>11. TopId < TopId'
  <2>1. PICK u \in S : TRUE
    BY <1>1
  <2>2. id'[u] \in Nat /\ id'[u] > TopId /\ id'[u] <= TopId'
    BY <1>7, <1>10
  <2>. QED
    BY <1>2, <1>10, <2>2
<1>12. Stored' = Stored \cup S
  <2>1. \A u \in S : id'[u] > 0
    BY <1>2, <1>7
  <2>. QED
    BY <1>6, <2>1 DEF Stored
<1>. QED
  BY <1>1, <1>2, <1>6, <1>7, <1>8, <1>10, <1>11, <1>12

LEMMA GaplessImport ==
  ASSUME Filtered, Gapless, NEW S \in SUBSET Record, Import(S)
  PROVE  Gapless'
<1>1. UNCHANGED <<provider, reused, page, view, requests, clean>>
  BY DEF Import
<1>2. /\ InFlight' = InFlight /\ Answered' = Answered /\ (Fine' <=> Fine) /\ (Ready' <=> Ready)
      /\ rows' = rows /\ Shown' = Shown /\ hasMore' = hasMore /\ filter' = filter
      /\ token' = token
  BY <1>1 DEF InFlight, Answered, Fine, Ready, Settled, Shown, page, view
<1>3. PagingTypeOK
  BY DEF Filtered
<1>4. RequestsStartAtRows'
  BY <1>2 DEF Gapless, RequestsStartAtRows, Ids
<1>5. SUFFICES ASSUME Fine PROVE IdsFollowTime' /\ AnswersAreWhole' /\ RowsAreWhole'
  BY <1>2, <1>4 DEF Gapless, IdsFollowTime, AnswersAreWhole, RowsAreWhole, Ready
<1>6. /\ \A u \in S, v \in arrived : u > v
      /\ \A u \in S : id'[u] \in Nat /\ id'[u] > TopId
      /\ \A u \in Record \ S : id'[u] = id[u]
      /\ \A u, v \in S : u < v => id'[u] < id'[v]
      /\ \A u \in Record : id'[u] <= TopId'
      /\ TopId \in Nat /\ TopId' \in Nat /\ TopId < TopId'
      /\ arrived' = arrived \cup S /\ S \cap arrived = {}
      /\ Stored' = Stored \cup S
  BY <1>3, <1>5, Imported DEF Fine
<1>7. /\ arrived \in SUBSET Nat /\ S \in SUBSET Nat
      /\ arrived \in SUBSET Record /\ Stored \in SUBSET arrived
  BY <1>3, PagingAssumption DEF PagingTypeOK
<1>8. \A row \in Answered : row.record \in arrived
  BY <1>5, GivenIds DEF Gapless, FollowsTime
<1>9. IdsFollowTime'
  <2>1. PICK given \in [Record -> Nat] : FollowsTime(given)
    BY <1>5, GivenIds DEF Gapless
  <2>2. PICK next \in [Record -> Nat] : \A u \in Record :
          next[u] = IF u \in S THEN id'[u] ELSE given[u]
    <3> DEFINE f == [u \in Record |-> IF u \in S THEN id'[u] ELSE given[u]]
    <3>1. f \in [Record -> Nat]
      BY <1>6
    <3>. QED
      BY <3>1
  <2>3. /\ \A u \in S : next[u] = id'[u] /\ next[u] \in Nat /\ next[u] > TopId
        /\ \A u \in arrived : /\ next[u] = given[u] /\ next[u] \in Nat
                              /\ 0 < next[u] /\ next[u] <= TopId
    BY <1>6, <1>7, <2>1, <2>2 DEF FollowsTime
  <2>4. ASSUME NEW u \in arrived', NEW v \in arrived', u < v PROVE next[u] < next[v]
    <3>1. CASE u \in arrived /\ v \in arrived
      BY <2>1, <2>3, <2>4, <3>1 DEF FollowsTime
    <3>2. CASE u \in arrived /\ v \in S
      BY <1>6, <2>3, <3>2
    <3>3. CASE u \in S /\ v \in S
      BY <1>6, <2>3, <2>4, <3>3
    <3>4. CASE u \in S /\ v \in arrived
      <4>1. u > v /\ u \in Nat /\ v \in Nat
        BY <1>6, <1>7, <3>4
      <4>. QED
        BY <2>4, <4>1
    <3>. QED
      BY <1>6, <3>1, <3>2, <3>3, <3>4
  <2>5. ASSUME NEW u \in arrived' PROVE 0 < next[u] /\ next[u] <= TopId'
    <3>1. CASE u \in arrived
      BY <1>6, <2>3, <3>1
    <3>2. CASE u \in S
      BY <1>6, <1>7, <2>3, <3>2
    <3>. QED
      BY <1>6, <3>1, <3>2
  <2>6. \A u \in Stored' : next[u] = id'[u]
    BY <1>6, <1>7, <2>1, <2>3 DEF FollowsTime
  <2>7. \A row \in Answered' : row.record \in arrived' /\ row.id = next[row.record]
    BY <1>2, <1>6, <2>1, <2>3 DEF FollowsTime
  <2>8. FollowsTime(next)'
    BY <2>4, <2>5, <2>6, <2>7 DEF FollowsTime
  <2>. QED
    BY <2>8 DEF IdsFollowTime, FollowsTime
<1>10. AnswersAreWhole'
  <2> SUFFICES ASSUME NEW r \in InFlight, r.live
               PROVE  /\ r.kind = "more" => r.arg <= TopId'
                      /\ r.answered => IsWhole(r)'
    BY <1>2 DEF AnswersAreWhole
  <2>1. (r.kind = "more" => r.arg <= TopId) /\ (r.answered => IsWhole(r))
    BY <1>5 DEF Gapless, AnswersAreWhole
  <2>2. r \in Requested /\ r.arg \in Nat
    BY <1>3, EveryRequest DEF Requested
  <2>3. r.kind = "more" => r.arg <= TopId'
    BY <1>6, <2>1, <2>2
  <2>4. ASSUME r.answered, NEW u \in Asked(r)'
        PROVE  \/ u \in Records(r.items)
               \/ r.more /\ \A v \in Records(r.items) : u < v
               \/ r.kind # "more" /\ \A v \in Records(r.items) : u > v
    <3>1. CASE u \in S
      <4>1. r.kind # "more"
        <5>1. r.kind = "more" => id'[u] < r.arg
          BY <2>4 DEF Asked
        <5>2. id'[u] > TopId /\ id'[u] \in Nat
          BY <1>6, <3>1
        <5>. QED
          BY <1>6, <2>1, <2>2, <5>1, <5>2
      <4>2. Records(r.items) \subseteq arrived
        BY <1>8 DEF Records, Answered
      <4>. QED
        BY <1>6, <3>1, <4>1, <4>2
    <3>2. CASE u \notin S
      <4>1. u \in Asked(r)
        BY <1>6, <2>4, <3>2 DEF Asked, Stored
      <4>. QED
        BY <2>1, <2>4, <4>1 DEF IsWhole
    <3>. QED
      BY <3>1, <3>2
  <2>5. r.answered => IsWhole(r)'
    BY <2>1, <2>4 DEF IsWhole
  <2>. QED
    BY <2>3, <2>5
<1>11. RowsAreWhole'
  <2> SUFFICES ASSUME Ready, rows # <<>>
               PROVE  /\ \A u \in Shown : u >= Last(rows).record
                      /\ \A u \in Stored' \cap Matches[filter] :
                           (\E v \in Shown : u <= v) /\ (hasMore => u >= Last(rows).record) =>
                             u \in Shown
                      /\ \A i, j \in DOMAIN rows :
                           i < j /\ {rows[i].record, rows[j].record} \subseteq Stored' =>
                             rows[i].record > rows[j].record
    BY <1>2 DEF RowsAreWhole
  <2>1. /\ \A u \in Shown : u >= Last(rows).record
        /\ \A u \in Stored \cap Matches[filter] :
             (\E v \in Shown : u <= v) /\ (hasMore => u >= Last(rows).record) => u \in Shown
        /\ \A i, j \in DOMAIN rows :
             i < j /\ {rows[i].record, rows[j].record} \subseteq Stored =>
               rows[i].record > rows[j].record
    BY DEF Gapless, RowsAreWhole
  <2>2. Shown \subseteq arrived /\ \A i \in DOMAIN rows : rows[i].record \in Shown
    BY <1>8 DEF Shown, Answered
  <2>3. \A u \in S, v \in Shown : ~ (u <= v)
    BY <1>6, <1>7, <2>2
  <2>4. \A i \in DOMAIN rows : rows[i].record \in Stored' => rows[i].record \in Stored
    BY <1>6, <2>2
  <2>. QED
    BY <1>6, <2>1, <2>3, <2>4
<1>. QED
  BY <1>9, <1>10, <1>11

LEMMA GaplessDelete ==
  ASSUME Filtered, Gapless, NEW S, Delete(S)
  PROVE  Gapless'
<1>1. /\ UNCHANGED <<provider, arrived, page, view, requests, clean>> /\ S \cap Stored # {}
      /\ id' = [u \in Record |-> IF u \in S THEN 0 ELSE id[u]]
      /\ reused' = (reused \/ \E u \in S : id[u] = TopId)
  BY DEF Delete
<1>2. /\ InFlight' = InFlight /\ Answered' = Answered
      /\ rows' = rows /\ Shown' = Shown /\ hasMore' = hasMore /\ filter' = filter
      /\ token' = token /\ arrived' = arrived
  BY <1>1 DEF InFlight, Answered, Shown, page, view
<1>3. (Fine' => Fine) /\ (Ready' => Ready)
  <2>1. Fine' => Fine
    BY <1>1 DEF Fine
  <2>. QED
    BY <1>1, <1>2, <2>1 DEF Ready, Settled, page, view
<1>4. PagingTypeOK
  BY DEF Filtered
<1>5. RequestsStartAtRows'
  BY <1>2, <1>3 DEF Gapless, RequestsStartAtRows, Ids
<1>6. SUFFICES ASSUME Fine' PROVE IdsFollowTime' /\ AnswersAreWhole' /\ RowsAreWhole'
  BY <1>5 DEF Gapless, IdsFollowTime, AnswersAreWhole, RowsAreWhole, Ready
<1>7. Stored' \subseteq Stored /\ \A u \in Stored' : id'[u] = id[u]
  BY <1>1, <1>4 DEF Stored, PagingTypeOK
<1>8. TopId \in Nat /\ TopId' \in Nat /\ TopId <= TopId'
  <2>1. id' \in [Record -> Nat] /\ id \in [Record -> Nat]
    BY <1>1, <1>4 DEF PagingTypeOK
  <2>2. /\ TopId \in Nat /\ \A u \in Record : id[u] <= TopId
        /\ TopId = 0 \/ \E u \in Record : TopId = id[u]
    BY <2>1, TopIdIsGreatest DEF TopId
  <2>3. TopId' \in Nat /\ \A u \in Record : id'[u] <= TopId'
    BY <2>1, TopIdIsGreatest DEF TopId
  <2>4. \A u \in S : id[u] # TopId
    BY <1>1, <1>6 DEF Fine
  <2>5. CASE TopId = 0
    BY <2>3, <2>5
  <2>6. CASE TopId # 0
    <3>1. PICK u \in Record : id[u] = TopId
      BY <2>2, <2>6
    <3>2. id'[u] = TopId
      BY <1>1, <2>4, <3>1
    <3>. QED
      BY <2>2, <2>3, <3>2
  <2>. QED
    BY <2>2, <2>3, <2>5, <2>6
<1>9. IdsFollowTime'
  <2>1. PICK given \in [Record -> Nat] : FollowsTime(given)
    BY <1>3, <1>6, GivenIds DEF Gapless
  <2>2. \A u \in arrived : given[u] \in Nat /\ 0 < given[u] /\ given[u] <= TopId
    BY <1>4, <2>1 DEF FollowsTime, PagingTypeOK
  <2>3. \A u \in arrived : 0 < given[u] /\ given[u] <= TopId'
    BY <1>8, <2>2
  <2>4. FollowsTime(given)'
    BY <1>2, <1>7, <2>1, <2>3 DEF FollowsTime
  <2>. QED
    BY <2>4 DEF IdsFollowTime, FollowsTime
<1>10. AnswersAreWhole'
  <2> SUFFICES ASSUME NEW r \in InFlight, r.live
               PROVE  /\ r.kind = "more" => r.arg <= TopId'
                      /\ r.answered => IsWhole(r)'
    BY <1>2 DEF AnswersAreWhole
  <2>1. (r.kind = "more" => r.arg <= TopId) /\ (r.answered => IsWhole(r))
    BY <1>3, <1>6 DEF Gapless, AnswersAreWhole
  <2>2. r.arg \in Nat
    BY <1>4, EveryRequest DEF Requested
  <2>3. r.kind = "more" => r.arg <= TopId'
    BY <1>8, <2>1, <2>2
  <2>4. Asked(r)' \subseteq Asked(r)
    BY <1>7 DEF Asked
  <2>5. r.answered => IsWhole(r)'
    BY <2>1, <2>4 DEF IsWhole
  <2>. QED
    BY <2>3, <2>5
<1>11. RowsAreWhole'
  BY <1>2, <1>3, <1>7 DEF Gapless, RowsAreWhole
<1>. QED
  BY <1>9, <1>10, <1>11

-----------------------------------------------------------------------------
(* What is asked and answered.                                             *)

LEMMA AnswersKept ==
  ASSUME AnswersAreWhole, UNCHANGED table,
         \A r \in InFlight' :
           \/ r \in InFlight
           \/ Fine /\ r.live => /\ r.kind = "more" => r.arg <= TopId
                                /\ r.answered => IsWhole(r)
  PROVE  AnswersAreWhole'
<1>1. id' = id /\ Stored' = Stored /\ TopId' = TopId /\ (Fine' <=> Fine)
  BY DEF table, Stored, TopId, Fine
<1>2. \A r : IsWhole(r)' <=> IsWhole(r)
  BY <1>1 DEF IsWhole, Asked
<1>. QED
  BY <1>1, <1>2 DEF AnswersAreWhole

\* A request that is sent has no answer yet; the rows stay.
LEMMA GaplessSent ==
  ASSUME PagingTypeOK, Gapless, NEW r, InFlight' = InFlight \cup {r}, r.items = <<>>,
         r.answered = FALSE, r.live /\ r.kind = "more" /\ Fine => r.arg <= TopId,
         UNCHANGED <<table, rows>>
  PROVE  IdsFollowTime' /\ AnswersAreWhole'
<1>1. Answered' \subseteq Known
  BY DEF Answered, Known
<1>2. IdsFollowTime'
  BY <1>1, IdsKept DEF Gapless
<1>3. AnswersAreWhole'
  BY AnswersKept DEF Gapless
<1>. QED
  BY <1>2, <1>3

LEMMA RowsAreKnown ==
  ASSUME PagingTypeOK
  PROVE  /\ \A i \in DOMAIN rows : rows[i] \in Known
         /\ rows # <<>> => rows[1] \in Known /\ Last(rows) \in Known
         /\ \A r \in InFlight : \A i \in DOMAIN r.items : r.items[i] \in Known
         /\ \A u \in Stored : RowOf(u) \in Known /\ RowOf(u).id = id[u] /\ RowOf(u).record = u
<1>1. \A i \in DOMAIN rows : rows[i] \in Known
  BY DEF Known, Answered
<1>2. rows # <<>> => rows[1] \in Known /\ Last(rows) \in Known
  <2>1. rows # <<>> => 1 \in DOMAIN rows /\ Len(rows) \in DOMAIN rows
    BY EndsOfRows
  <2>. QED
    BY <1>1, <2>1, EndsOfRows
<1>3. \A r \in InFlight : \A i \in DOMAIN r.items : r.items[i] \in Known
  BY DEF Known, Answered
<1>4. \A u \in Stored : RowOf(u) \in Known /\ RowOf(u).id = id[u] /\ RowOf(u).record = u
  BY DEF Known, RowOf
<1>. QED
  BY <1>1, <1>2, <1>3, <1>4

LEMMA GaplessAnswer ==
  ASSUME Filtered, Gapless, NEW k \in DOMAIN requests, Answer(k)
  PROVE  Gapless'
<1> DEFINE q == requests[k]
           r == requests'[k]
<1>1. PagingTypeOK /\ q \in Requested /\ q \in InFlight
  BY DEF Filtered, PagingTypeOK, InFlight
<1>2. /\ requests' \in Seq(Requested) /\ DOMAIN requests' = DOMAIN requests
      /\ \A j \in DOMAIN requests : j # k => requests'[j] = requests[j]
      /\ \A j \in DOMAIN requests :
           /\ requests'[j].kind = requests[j].kind /\ requests'[j].token = requests[j].token
           /\ requests'[j].filter = requests[j].filter /\ requests'[j].live = requests[j].live
           /\ requests'[j].arg = requests[j].arg
      /\ r.items = ListQueries(q).items /\ r.more = ListQueries(q).more
  BY <1>1, Replied
<1>3. UNCHANGED <<table, page, view, clean>>
  BY DEF Answer
<1>4. \A x \in InFlight' : x \in InFlight \/ x = r
  BY <1>2 DEF InFlight
<1>5. /\ r.items \in Seq(Row) /\ r.more \in BOOLEAN
      /\ \A i \in DOMAIN r.items : r.items[i].record \in Asked(q)
                                   /\ r.items[i].id = id[r.items[i].record]
      /\ q.live =>
           /\ \A i, j \in DOMAIN r.items : i < j => r.items[i].record > r.items[j].record
           /\ r.more => r.items # <<>>
           /\ \A u \in Asked(q) : \/ u \in Records(r.items)
                                  \/ r.more /\ \A v \in Records(r.items) : u < v
  BY <1>1, <1>2, ListQueriesIs
<1>6. IdsFollowTime'
  <2>1. \A i \in DOMAIN r.items : r.items[i] \in Known
    <3> SUFFICES ASSUME NEW i \in DOMAIN r.items PROVE r.items[i] \in Known
      OBVIOUS
    <3>1. r.items[i].record \in Stored /\ r.items[i].id = id[r.items[i].record]
      BY <1>5 DEF Asked
    <3>2. r.items[i] \in Row
      BY <1>5
    <3>3. r.items[i] = RowOf(r.items[i].record)
      BY <3>1, <3>2 DEF RowOf, Row
    <3>. QED
      BY <3>1, <3>3 DEF Known
  <2>2. Answered' \subseteq Known
    BY <1>3, <1>4, <2>1 DEF Answered, Known, page
  <2>. QED
    BY <1>1, <1>3, <2>2, IdsKept DEF Gapless
<1>7. AnswersAreWhole'
  <2>1. Asked(r) = Asked(q)
    BY <1>2 DEF Asked
  <2>2. ASSUME Fine, r.live
        PROVE  /\ r.kind = "more" => r.arg <= TopId
               /\ IsWhole(r)
    <3>1. q.live
      BY <1>2, <2>2
    <3>2. r.kind = "more" => r.arg <= TopId
      BY <1>1, <1>2, <2>2, <3>1 DEF Gapless, AnswersAreWhole
    <3>3. \A i \in DOMAIN r.items : r.items[i].record \in Asked(r)
                                    /\ r.items[i].id = id[r.items[i].record]
      BY <1>5, <2>1
    <3>4. /\ r.kind = "more" => \A i \in DOMAIN r.items : r.items[i].id < r.arg
          /\ r.kind = "delta" => \A i \in DOMAIN r.items : r.items[i].id > r.arg
      BY <2>2, <3>3 DEF Asked
    <3>5. IsWhole(r)
      BY <1>5, <2>1, <3>1, <3>4 DEF IsWhole
    <3>. QED
      BY <3>2, <3>5
  <2>. QED
    BY <1>3, <1>4, <2>2, AnswersKept DEF Gapless
<1>8. (Ready' <=> Ready) /\ rows' = rows /\ Shown' = Shown /\ Stored' = Stored
  <2>1. UNCHANGED <<rows, error, hasMore, live, clean, provider, reused, token, id>>
    BY <1>3 DEF page, view, table
  <2>2. Settled' <=> Settled
    BY <1>2, <2>1 DEF Settled, InFlight
  <2>. QED
    BY <2>1, <2>2 DEF Ready, Fine, Shown, Stored
<1>9. RowsAreWhole'
  BY <1>3, <1>8 DEF Gapless, RowsAreWhole, page, view
<1>10. RequestsStartAtRows'
  <2> SUFFICES ASSUME Ready, NEW j \in DOMAIN requests, requests'[j].token = token
               PROVE  /\ requests'[j].kind = "delta" => requests'[j].arg \in Ids(rows)
                      /\ requests'[j].kind = "more" =>
                           rows # <<>> /\ requests'[j].arg = Last(rows).id
    BY <1>2, <1>3, <1>8 DEF RequestsStartAtRows, InFlight, Ids, view
  <2>. QED
    BY <1>2 DEF Gapless, RequestsStartAtRows, InFlight
<1>. QED
  BY <1>6, <1>7, <1>9, <1>10 DEF Gapless

LEMMA GaplessReload ==
  ASSUME Filtered, Gapless, NEW f \in Filter, NEW l \in BOOLEAN, Reload(f, l)
  PROVE  Gapless'
<1> DEFINE tok == token + 1
           r == Request("reload", tok, f, l, 0)
<1>1. PagingTypeOK /\ tok \in Nat
  BY DEF Filtered, PagingTypeOK
<1> HIDE DEF tok
<1>2. /\ r \in Requested /\ r.kind = "reload" /\ r.token = tok /\ r.items = <<>>
      /\ r.answered = FALSE
  BY <1>1, NoItems DEF r, Request, Requested
<1> HIDE DEF r
<1>3. UNCHANGED <<table, rows>> /\ Send(r) /\ token' = tok
  BY DEF Reload, r, tok
<1>4. InFlight' = InFlight \cup {r}
  BY <1>1, <1>2, <1>3, Sent
<1>5. IdsFollowTime' /\ AnswersAreWhole'
  BY <1>1, <1>2, <1>3, <1>4, GaplessSent
<1>6. ~ Ready'
  BY <1>2, <1>3, <1>4 DEF Ready, Settled
<1>. QED
  BY <1>5, <1>6 DEF Gapless, RowsAreWhole, RequestsStartAtRows

LEMMA GaplessLoadMore ==
  ASSUME Filtered, Gapless, LoadMore
  PROVE  Gapless'
<1> DEFINE arg == IF live THEN Last(rows).id ELSE Len(rows)
           r == Request("more", token, filter, live, arg)
<1>1. PagingTypeOK /\ token \in Nat /\ filter \in Filter /\ live \in BOOLEAN /\ rows # <<>>
  BY DEF Filtered, PagingTypeOK, LoadMore
<1>2. arg \in Nat
  BY <1>1, EndsOfRows DEF Row
<1>3. live => arg = Last(rows).id
  OBVIOUS
<1> HIDE DEF arg
<1>4. /\ r \in Requested /\ r.kind = "more" /\ r.items = <<>>
      /\ r.answered = FALSE /\ r.arg = arg
  BY <1>1, <1>2, NoItems DEF r, Request, Requested
<1>5. r.live <=> live
  BY DEF r, Request
<1> HIDE DEF r
<1>6. UNCHANGED <<table, view, rows, hasMore, error, clean>> /\ Send(r)
  BY DEF LoadMore, r, arg
<1>7. InFlight' = InFlight \cup {r}
  BY <1>1, <1>4, <1>6, Sent
<1>8. IdsFollowTime' /\ AnswersAreWhole'
  <2>1. Fine /\ live => arg <= TopId
    BY <1>1, <1>3, ByTime, RowsAreKnown DEF Gapless
  <2>. QED
    BY <1>1, <1>4, <1>5, <1>6, <1>7, <2>1, GaplessSent
<1>9. (Ready' => Ready) /\ (Ready => live) /\ Stored' = Stored /\ Shown' = Shown
  BY <1>6, <1>7 DEF Ready, Settled, Fine, Stored, Shown, table, view
<1>10. RowsAreWhole'
  BY <1>6, <1>9 DEF Gapless, RowsAreWhole, view
<1>11. RequestsStartAtRows'
  BY <1>1, <1>3, <1>4, <1>6, <1>7, <1>9 DEF Gapless, RequestsStartAtRows, Ids, view
<1>. QED
  BY <1>8, <1>10, <1>11 DEF Gapless

LEMMA GaplessFetchDelta ==
  ASSUME Filtered, Gapless, FetchDelta
  PROVE  Gapless'
<1> DEFINE arg == rows[1].id
           r == Request("delta", token, filter, live, arg)
<1>1. PagingTypeOK /\ token \in Nat /\ filter \in Filter /\ live \in BOOLEAN /\ rows # <<>>
  BY DEF Filtered, PagingTypeOK, FetchDelta
<1>2. arg \in Nat /\ arg \in Ids(rows)
  <2>1. rows[1] \in Row /\ 1 \in DOMAIN rows
    BY <1>1, EndsOfRows
  <2>. QED
    BY <2>1 DEF Row, Ids
<1> HIDE DEF arg
<1>3. /\ r \in Requested /\ r.kind = "delta" /\ r.items = <<>>
      /\ r.answered = FALSE /\ r.arg = arg
  BY <1>1, <1>2, NoItems DEF r, Request, Requested
<1> HIDE DEF r
<1>4. UNCHANGED <<table, view, page, clean>> /\ Send(r)
  BY DEF FetchDelta, r, arg
<1>5. InFlight' = InFlight \cup {r} /\ rows' = rows
  BY <1>1, <1>3, <1>4, Sent DEF page
<1>6. IdsFollowTime' /\ AnswersAreWhole'
  BY <1>1, <1>3, <1>4, <1>5, GaplessSent
<1>7. (Ready' => Ready) /\ Stored' = Stored /\ Shown' = Shown
  BY <1>4, <1>5 DEF Ready, Settled, Fine, Stored, Shown, table, view, page
<1>8. RowsAreWhole'
  BY <1>4, <1>7 DEF Gapless, RowsAreWhole, view, page
<1>9. RequestsStartAtRows'
  BY <1>2, <1>3, <1>4, <1>5, <1>7 DEF Gapless, RequestsStartAtRows, Ids, view
<1>. QED
  BY <1>6, <1>8, <1>9 DEF Gapless

-----------------------------------------------------------------------------
(* The page takes an answer.                                               *)

\* Ids and answers when a request is taken and nothing new comes on screen but
\* what it was answered.
LEMMA GaplessTaken ==
  ASSUME PagingTypeOK, Gapless, NEW k \in DOMAIN requests, Take(k), UNCHANGED table,
         \A i \in DOMAIN rows' :
           \/ \E j \in DOMAIN rows : rows'[i] = rows[j]
           \/ \E j \in DOMAIN requests[k].items : rows'[i] = requests[k].items[j]
  PROVE  IdsFollowTime' /\ AnswersAreWhole' /\ (Fine' <=> Fine) /\ Stored' = Stored
<1>1. InFlight' \subseteq InFlight
  BY Taken
<1>2. requests[k] \in InFlight
  BY DEF InFlight
<1>3. \A x \in Answered' : x \in Answered
  <2> SUFFICES ASSUME NEW x \in Answered' PROVE x \in Answered
    OBVIOUS
  <2>1. CASE \E i \in DOMAIN rows' : x = rows'[i]
    BY <1>2, <2>1 DEF Answered
  <2>2. CASE \E r \in InFlight' : \E i \in DOMAIN r.items : x = r.items[i]
    BY <1>1, <2>2 DEF Answered
  <2>. QED
    BY <2>1, <2>2 DEF Answered
<1>4. IdsFollowTime'
  BY <1>3, IdsKept DEF Gapless, Known
<1>5. AnswersAreWhole'
  BY <1>1, AnswersKept DEF Gapless
<1>. QED
  BY <1>4, <1>5 DEF table, Fine, Stored

LEMMA GaplessApplyReload ==
  ASSUME Filtered, Gapless, NEW k \in DOMAIN requests, ApplyReload(k)
  PROVE  Gapless'
<1> DEFINE r == requests[k]
<1>1. /\ r.kind = "reload" /\ r.answered /\ Wanted(k) /\ Take(k) /\ UNCHANGED <<table, view>>
      /\ rows' = r.items /\ hasMore' = r.more /\ clean' = ~ DeltaInFlight
  BY DEF ApplyReload
<1>2. PagingTypeOK /\ r \in Requested /\ r \in InFlight
  BY DEF Filtered, PagingTypeOK, InFlight
<1>3. token' = token /\ filter' = filter /\ live' = live
  BY <1>1 DEF view
<1>4. IdsFollowTime' /\ AnswersAreWhole' /\ (Fine' <=> Fine) /\ Stored' = Stored
  BY <1>1, <1>2, GaplessTaken
<1>5. r.filter = filter /\ (r.live <=> live)
  BY <1>1, <1>2 DEF Filtered, WantedIsCurrent, Wanted
<1>6. SUFFICES ASSUME Ready' PROVE RowsAreWhole' /\ RequestsStartAtRows'
  BY <1>4 DEF Gapless, RowsAreWhole, RequestsStartAtRows
<1>7. Fine /\ live /\ ~ DeltaInFlight
  BY <1>1, <1>3, <1>4, <1>6 DEF Ready
<1>8. RequestsStartAtRows'
  <2>1. \A x \in InFlight' : x.token = token => x.kind = "delta"
    BY <1>1, <1>3, PagesTaken DEF Filtered
  <2>2. \A x \in InFlight' : x.token = token => x.kind # "delta"
    <3>1. InFlight' \subseteq InFlight
      BY <1>1, <1>2, Taken
    <3>. QED
      BY <1>7, <3>1 DEF DeltaInFlight, InFlight, Wanted
  <2>. QED
    BY <1>3, <2>1, <2>2 DEF RequestsStartAtRows
<1>9. RowsAreWhole'
  <2> SUFFICES ASSUME rows' # <<>>
               PROVE  /\ \A u \in Shown' : u >= Last(rows').record
                      /\ \A u \in Stored \cap Matches[filter] :
                           (\E v \in Shown' : u <= v) /\ (hasMore' => u >= Last(rows').record) =>
                             u \in Shown'
                      /\ \A i, j \in DOMAIN rows' : i < j => rows'[i].record > rows'[j].record
    BY <1>3, <1>4 DEF RowsAreWhole
  <2>1. IsWhole(r)
    BY <1>1, <1>2, <1>5, <1>7 DEF Gapless, AnswersAreWhole
  <2>2. Shown' = Records(r.items)
    BY <1>1 DEF Shown, Records
  <2>3. \A i, j \in DOMAIN rows' : i < j => rows'[i].record > rows'[j].record
    BY <1>1, <2>1 DEF IsWhole
  <2>4. PagingTypeOK'
    BY FilteredApplyReload DEF Filtered
  <2>5. /\ Len(rows') \in Nat \ {0} /\ DOMAIN rows' = 1..Len(rows')
        /\ Last(rows') = rows'[Len(rows')]
        /\ \A i \in DOMAIN rows' : rows'[i].record \in Nat
    <3>1. \A i \in DOMAIN rows' : rows'[i] \in Row
      BY <2>4 DEF PagingTypeOK
    <3>2. \A i \in DOMAIN rows' : rows'[i].record \in Nat
      BY <3>1, PagingAssumption DEF Row
    <3>. QED
      BY <2>4, <3>2, EmptySeq DEF PagingTypeOK, Last
  <2>6. \A i \in DOMAIN rows' : rows'[i].record >= Last(rows').record
    <3> SUFFICES ASSUME NEW i \in DOMAIN rows' PROVE rows'[i].record >= Last(rows').record
      OBVIOUS
    <3>1. Len(rows') \in DOMAIN rows' /\ (i = Len(rows') \/ i < Len(rows'))
      BY <2>5
    <3>. QED
      BY <2>3, <2>5, <3>1
  <2>7. Last(rows').record \in Shown' /\ \A u \in Shown' : u >= Last(rows').record /\ u \in Nat
    BY <2>5, <2>6 DEF Shown
  <2>8. ASSUME NEW u \in Stored \cap Matches[filter], NEW v \in Shown', u <= v,
               hasMore' => u >= Last(rows').record
        PROVE  u \in Shown'
    <3>1. u \in Asked(r)
      BY <1>1, <1>5 DEF Asked
    <3>2. \/ u \in Records(r.items)
          \/ r.more /\ \A w \in Records(r.items) : u < w
          \/ \A w \in Records(r.items) : u > w
      BY <2>1, <3>1 DEF IsWhole
    <3>3. u \in Nat
      BY PagingAssumption DEF Stored
    <3>4. ~ (u > v)
      BY <2>7, <2>8, <3>3
    <3>5. r.more => ~ (u < Last(rows').record)
      BY <1>1, <2>7, <2>8, <3>3
    <3>. QED
      BY <2>2, <2>7, <3>2, <3>4, <3>5
  <2>. QED
    BY <2>3, <2>7, <2>8
<1>. QED
  BY <1>4, <1>8, <1>9 DEF Gapless

LEMMA GaplessApplyMore ==
  ASSUME Filtered, Gapless, NEW k \in DOMAIN requests, ApplyMore(k)
  PROVE  Gapless'
<1> DEFINE r == requests[k]
           t == NotShown(r.items)
<1>1. /\ r.kind = "more" /\ r.answered /\ Wanted(k) /\ Take(k) /\ rows' = rows \o t
      /\ hasMore' = r.more /\ UNCHANGED <<table, view, error, clean>>
  BY DEF ApplyMore
<1>2. PagingTypeOK /\ r \in Requested /\ r \in InFlight /\ r.items \in Seq(Row) /\ rows \in Seq(Row)
  <2>1. PagingTypeOK /\ r \in Requested /\ r \in InFlight /\ rows \in Seq(Row)
    BY DEF Filtered, PagingTypeOK, InFlight
  <2>. QED
    BY <2>1 DEF Requested
<1>3. token' = token /\ filter' = filter /\ live' = live
  BY <1>1 DEF view
<1>4. /\ t \in Seq(Row)
      /\ \A i \in DOMAIN t : \E a \in DOMAIN r.items : t[i] = r.items[a]
      /\ \A a \in DOMAIN r.items : \/ r.items[a].id \in Ids(rows)
                                   \/ \E i \in DOMAIN t : t[i] = r.items[a]
      /\ \A i, j \in DOMAIN t : i < j =>
           \E a, b \in DOMAIN r.items : a < b /\ t[i] = r.items[a] /\ t[j] = r.items[b]
  BY <1>2, NotShownIs
<1> DEFINE m == Len(rows)
<1> HIDE DEF t
<1>5. /\ rows' \in Seq(Row)
      /\ \A j \in DOMAIN rows : j \in DOMAIN rows' /\ rows'[j] = rows[j]
      /\ \A j \in DOMAIN t : m + j \in DOMAIN rows' /\ rows'[m + j] = t[j]
      /\ \A i \in DOMAIN rows' : i \in DOMAIN rows \/ \E j \in DOMAIN t : i = m + j
      /\ Len(rows') = m + Len(t)
  BY <1>1, <1>2, <1>4, ConcatElements
<1> HIDE DEF m
<1>6. IdsFollowTime' /\ AnswersAreWhole' /\ (Fine' <=> Fine) /\ Stored' = Stored
  <2>1. \A i \in DOMAIN rows' :
           \/ \E j \in DOMAIN rows : rows'[i] = rows[j]
           \/ \E j \in DOMAIN r.items : rows'[i] = r.items[j]
    BY <1>4, <1>5
  <2>. QED
    BY <1>1, <1>2, <2>1, GaplessTaken
<1>7. r.filter = filter /\ (r.live <=> live)
  BY <1>1, <1>2 DEF Filtered, WantedIsCurrent, Wanted
<1>8. SUFFICES ASSUME Ready' PROVE RowsAreWhole' /\ RequestsStartAtRows'
  BY <1>6 DEF Gapless, RowsAreWhole, RequestsStartAtRows
<1>9. Ready
  <2>1. \A x \in InFlight : x.token = token /\ x.kind = "reload" => FALSE
    BY <1>1 DEF Filtered, OnePageAtATime, Wanted, InFlight
  <2>. QED
    BY <1>1, <1>3, <1>6, <1>8, <2>1 DEF Ready, Settled
<1>10. /\ rows # <<>> /\ r.arg = Last(rows).id /\ IsWhole(r)
       /\ live /\ Fine
       /\ \A x \in InFlight : x.token = token /\ x.kind = "delta" => x.arg \in Ids(rows)
  BY <1>1, <1>2, <1>7, <1>9 DEF Gapless, RequestsStartAtRows, Ready, Wanted, AnswersAreWhole
<1>11. RequestsStartAtRows'
  <2>1. \A x \in InFlight' : x.token = token => x.kind = "delta"
    BY <1>1, <1>3, PagesTaken DEF Filtered
  <2>2. InFlight' \subseteq InFlight
    BY <1>1, <1>2, Taken
  <2>3. Ids(rows) \subseteq Ids(rows')
    BY <1>5 DEF Ids
  <2>. QED
    BY <1>3, <1>10, <2>1, <2>2, <2>3 DEF RequestsStartAtRows, Ids
<1>12. /\ m \in Nat \ {0} /\ DOMAIN rows = 1..m /\ Last(rows) = rows[m]
       /\ Len(t) \in Nat /\ DOMAIN t = 1..Len(t)
  BY <1>2, <1>4, <1>10, EndsOfRows DEF m
<1>13. /\ \A u \in Shown : u >= Last(rows).record
       /\ \A u \in Stored \cap Matches[filter] :
            (\E v \in Shown : u <= v) /\ (hasMore => u >= Last(rows).record) => u \in Shown
       /\ \A i, j \in DOMAIN rows :
            i < j /\ {rows[i].record, rows[j].record} \subseteq Stored =>
              rows[i].record > rows[j].record
  BY <1>9, <1>10 DEF Gapless, RowsAreWhole
\* What was answered is older than the last row, so all of it is new.
<1>14. Last(rows).record \in Nat /\ Last(rows).id \in Nat /\ Last(rows) \in Known
  BY <1>2, <1>10, ByTime, RowsAreKnown DEF Gapless
<1>15. \A a \in DOMAIN r.items : /\ r.items[a].record < Last(rows).record
                                 /\ r.items[a].record \in Nat /\ r.items[a].id \in Nat
                                 /\ r.items[a].id < Last(rows).id
  <2>1. \A a \in DOMAIN r.items : r.items[a] \in Known
    BY <1>2, RowsAreKnown
  <2>2. \A a \in DOMAIN r.items : r.items[a].id < Last(rows).id
    BY <1>1, <1>10 DEF IsWhole
  <2>. QED
    BY <1>2, <1>10, <1>14, <2>1, <2>2, ByTime DEF Gapless
<1>16. \A i \in DOMAIN rows : /\ rows[i].record >= Last(rows).record /\ rows[i].id >= Last(rows).id
                              /\ rows[i].record \in Nat /\ rows[i].id \in Nat
  <2> SUFFICES ASSUME NEW i \in DOMAIN rows
               PROVE  /\ rows[i].record >= Last(rows).record /\ rows[i].id >= Last(rows).id
                      /\ rows[i].record \in Nat /\ rows[i].id \in Nat
    OBVIOUS
  <2>1. rows[i] \in Known /\ rows[i].record \in Shown
    BY <1>2, RowsAreKnown DEF Shown
  <2>2. rows[i].record \in Nat /\ rows[i].id \in Nat
    BY <1>2, <1>10, <2>1, ByTime DEF Gapless
  <2>3. rows[i].id < Last(rows).id <=> rows[i].record < Last(rows).record
    BY <1>2, <1>10, <1>14, <2>1, ByTime DEF Gapless
  <2>4. rows[i].record >= Last(rows).record
    BY <1>13, <2>1
  <2>. QED
    BY <1>14, <2>2, <2>3, <2>4
<1>17. \A a \in DOMAIN r.items : r.items[a].id \notin Ids(rows)
  <2> SUFFICES ASSUME NEW a \in DOMAIN r.items, NEW i \in DOMAIN rows, r.items[a].id = rows[i].id
               PROVE  FALSE
    BY DEF Ids
  <2>. QED
    BY <1>14, <1>15, <1>16
<1>18. Records(t) = Records(r.items)
  BY <1>4, <1>17 DEF Records
<1>19. Shown' = Shown \cup Records(r.items)
  <2>1. Shown' = Shown \cup Records(t)
    BY <1>5 DEF Shown, Records
  <2>. QED
    BY <1>18, <2>1
<1>20. IF t = <<>> THEN Last(rows') = Last(rows) /\ r.items = <<>>
       ELSE /\ Last(rows') = t[Len(t)] /\ Len(t) \in DOMAIN t
            /\ \A u \in Records(t) : u >= t[Len(t)].record
  <2>1. CASE t = <<>>
    <3>1. Len(rows') = m
      BY <1>5, <1>12, <2>1
    <3>2. Last(rows') = Last(rows)
      BY <1>5, <1>12, <3>1 DEF Last
    <3>3. DOMAIN r.items = {}
      BY <1>4, <1>17, <2>1
    <3>4. r.items = <<>>
      <4>1. r.items # <<>> => 1 \in DOMAIN r.items
        BY <1>2, EmptySeq
      <4>. QED
        BY <3>3, <4>1
    <3>. QED
      BY <2>1, <3>2, <3>4
  <2>2. CASE t # <<>>
    <3>1. Len(t) > 0 /\ Len(t) \in DOMAIN t
      BY <1>4, <1>12, <2>2
    <3>2. Last(rows') = t[Len(t)]
      BY <1>5, <3>1 DEF Last
    <3>3. ASSUME NEW i \in DOMAIN t PROVE t[i].record >= t[Len(t)].record
      <4>1. t[i].record \in Nat
        BY <1>4, <1>15
      <4>2. CASE i = Len(t)
        BY <4>1, <4>2
      <4>3. CASE i # Len(t)
        <5>1. i < Len(t)
          BY <1>12, <4>3
        <5>2. PICK a, b \in DOMAIN r.items :
                a < b /\ t[i] = r.items[a] /\ t[Len(t)] = r.items[b]
          BY <1>4, <3>1, <5>1
        <5>3. r.items[a].record > r.items[b].record
          BY <1>10, <5>2 DEF IsWhole
        <5>. QED
          BY <1>15, <5>2, <5>3
      <4>. QED
        BY <4>2, <4>3
    <3>. QED
      BY <2>2, <3>1, <3>2, <3>3 DEF Records
  <2>. QED
    BY <2>1, <2>2
<1>21. Last(rows').record \in Nat /\ Last(rows').record <= Last(rows).record
       /\ (t # <<>> => Last(rows').record \in Records(r.items))
  <2>1. CASE t = <<>>
    BY <1>14, <1>20, <2>1
  <2>2. CASE t # <<>>
    <3>1. Last(rows').record \in Records(r.items)
      BY <1>18, <1>20, <2>2 DEF Records
    <3>. QED
      BY <1>14, <1>15, <2>2, <3>1 DEF Records
  <2>. QED
    BY <2>1, <2>2
<1>22. \A u \in Shown' : u >= Last(rows').record
  <2>1. \A u \in Shown : u \in Nat /\ u >= Last(rows).record
    BY <1>16 DEF Shown
  <2>2. \A u \in Records(r.items) : u >= Last(rows').record
    <3>1. CASE t = <<>>
      BY <1>20, <3>1 DEF Records
    <3>2. CASE t # <<>>
      BY <1>18, <1>20, <3>2
    <3>. QED
      BY <3>1, <3>2
  <2>3. \A u \in Shown : u >= Last(rows').record
    BY <1>14, <1>21, <2>1
  <2>. QED
    BY <1>19, <2>2, <2>3
<1>23. ASSUME NEW u \in Stored \cap Matches[filter], NEW v \in Shown', u <= v,
              hasMore' => u >= Last(rows').record
       PROVE  u \in Shown'
  <2>1. u \in Nat
    BY PagingAssumption DEF Stored
  <2>2. CASE u >= Last(rows).record
    <3>1. \E w \in Shown : u <= w
      <4>1. CASE v \in Shown
        BY <1>23, <4>1
      <4>2. CASE v \in Records(r.items)
        <5>1. u <= Last(rows).record
          BY <1>14, <1>15, <1>23, <2>1, <4>2 DEF Records
        <5>2. Last(rows).record \in Shown
          BY <1>12 DEF Shown
        <5>. QED
          BY <5>1, <5>2
      <4>. QED
        BY <1>19, <1>23, <4>1, <4>2
    <3>. QED
      BY <1>13, <1>19, <2>2, <3>1
  <2>3. CASE ~ (u >= Last(rows).record)
    <3>1. u < Last(rows).record
      BY <1>14, <2>1, <2>3
    <3>2. id[u] < Last(rows).id
      BY <1>2, <1>10, <1>14, <3>1, ByTime, RowsAreKnown DEF Gapless
    <3>3. u \in Asked(r)
      BY <1>1, <1>7, <1>10, <3>2 DEF Asked
    <3>4. \/ u \in Records(r.items)
          \/ r.more /\ \A w \in Records(r.items) : u < w
      BY <1>1, <1>10, <3>3 DEF IsWhole
    <3>5. ASSUME r.more, \A w \in Records(r.items) : u < w PROVE FALSE
      <4>1. t # <<>>
        BY <1>10, <1>20, <3>5 DEF IsWhole
      <4>2. u < Last(rows').record
        BY <1>21, <3>5, <4>1
      <4>3. u >= Last(rows').record
        BY <1>1, <1>23, <3>5
      <4>. QED
        BY <1>21, <2>1, <4>2, <4>3
    <3>. QED
      BY <1>19, <3>4, <3>5
  <2>. QED
    BY <2>2, <2>3
<1>24. ASSUME NEW i \in DOMAIN rows', NEW j \in DOMAIN rows', i < j,
              {rows'[i].record, rows'[j].record} \subseteq Stored
       PROVE  rows'[i].record > rows'[j].record
  <2>1. CASE i \in DOMAIN rows /\ j \in DOMAIN rows
    BY <1>5, <1>13, <1>24, <2>1
  <2>2. ASSUME i \in DOMAIN rows, NEW b \in DOMAIN t, j = m + b
        PROVE  rows'[i].record > rows'[j].record
    <3>1. rows'[i] = rows[i] /\ rows'[j] = t[b]
      BY <1>5, <2>2
    <3>. QED
      BY <1>4, <1>14, <1>15, <1>16, <2>2, <3>1
  <2>3. ASSUME NEW a \in DOMAIN t, i = m + a, NEW b \in DOMAIN t, j = m + b
        PROVE  rows'[i].record > rows'[j].record
    <3>1. rows'[i] = t[a] /\ rows'[j] = t[b]
      BY <1>5, <2>3
    <3>2. a < b
      BY <1>12, <1>24, <2>3
    <3>. QED
      BY <1>4, <1>10, <3>1, <3>2 DEF IsWhole
  <2>4. ASSUME NEW a \in DOMAIN t, i = m + a, j \in DOMAIN rows
        PROVE  FALSE
    BY <1>12, <1>24, <2>4
  <2>. QED
    BY <1>5, <2>1, <2>2, <2>3, <2>4
<1>25. RowsAreWhole'
  BY <1>3, <1>6, <1>22, <1>23, <1>24 DEF RowsAreWhole
<1>. QED
  BY <1>11, <1>25

LEMMA GaplessApplyDelta ==
  ASSUME Filtered, Gapless, NEW k \in DOMAIN requests, ApplyDelta(k)
  PROVE  Gapless'
<1> DEFINE r == requests[k]
           t == NotShown(r.items)
<1>1. /\ r.kind = "delta" /\ r.answered /\ Wanted(k) /\ Take(k) /\ rows' = t \o rows
      /\ clean' = (clean /\ ~ r.more) /\ UNCHANGED <<table, view, hasMore, error>>
  BY DEF ApplyDelta
<1>2. PagingTypeOK /\ r \in Requested /\ r \in InFlight /\ r.items \in Seq(Row) /\ rows \in Seq(Row)
  <2>1. PagingTypeOK /\ r \in Requested /\ r \in InFlight /\ rows \in Seq(Row)
    BY DEF Filtered, PagingTypeOK, InFlight
  <2>. QED
    BY <2>1 DEF Requested
<1>3. token' = token /\ filter' = filter /\ live' = live
  BY <1>1 DEF view
<1>4. /\ t \in Seq(Row)
      /\ \A i \in DOMAIN t : t[i].id \notin Ids(rows) /\ \E a \in DOMAIN r.items : t[i] = r.items[a]
      /\ \A a \in DOMAIN r.items : \/ r.items[a].id \in Ids(rows)
                                   \/ \E i \in DOMAIN t : t[i] = r.items[a]
      /\ \A i, j \in DOMAIN t : i < j =>
           \E a, b \in DOMAIN r.items : a < b /\ t[i] = r.items[a] /\ t[j] = r.items[b]
  BY <1>2, NotShownIs
<1> DEFINE m == Len(t)
<1> HIDE DEF t
<1>5. /\ rows' \in Seq(Row)
      /\ \A j \in DOMAIN t : j \in DOMAIN rows' /\ rows'[j] = t[j]
      /\ \A j \in DOMAIN rows : m + j \in DOMAIN rows' /\ rows'[m + j] = rows[j]
      /\ \A i \in DOMAIN rows' : i \in DOMAIN t \/ \E j \in DOMAIN rows : i = m + j
      /\ Len(rows') = m + Len(rows)
  BY <1>1, <1>2, <1>4, ConcatElements
<1> HIDE DEF m
<1>6. IdsFollowTime' /\ AnswersAreWhole' /\ (Fine' <=> Fine) /\ Stored' = Stored
  <2>1. \A i \in DOMAIN rows' :
           \/ \E j \in DOMAIN rows : rows'[i] = rows[j]
           \/ \E j \in DOMAIN r.items : rows'[i] = r.items[j]
    BY <1>4, <1>5
  <2>. QED
    BY <1>1, <1>2, <2>1, GaplessTaken
<1>7. r.filter = filter /\ (r.live <=> live)
  BY <1>1, <1>2 DEF Filtered, WantedIsCurrent, Wanted
<1>8. SUFFICES ASSUME Ready' PROVE RowsAreWhole' /\ RequestsStartAtRows'
  BY <1>6 DEF Gapless, RowsAreWhole, RequestsStartAtRows
<1>9. Ready /\ ~ r.more
  <2>1. Settled' => Settled
    BY <1>1, <1>3, PagesTaken DEF Filtered
  <2>. QED
    BY <1>1, <1>3, <1>6, <1>8, <2>1 DEF Ready
<1>10. /\ r.arg \in Ids(rows) /\ IsWhole(r) /\ live /\ Fine
       /\ \A x \in InFlight : x.token = token =>
            /\ x.kind = "delta" => x.arg \in Ids(rows)
            /\ x.kind = "more" => x.arg = Last(rows).id
  BY <1>1, <1>2, <1>7, <1>9 DEF Gapless, RequestsStartAtRows, Ready, Wanted, AnswersAreWhole
<1>11. rows # <<>>
  BY <1>10 DEF Ids
<1>12. /\ Len(rows) \in Nat \ {0} /\ DOMAIN rows = 1..Len(rows) /\ Last(rows) = rows[Len(rows)]
       /\ m \in Nat /\ DOMAIN t = 1..m
  BY <1>2, <1>4, <1>11, EndsOfRows DEF m
<1>13. rows' # <<>> /\ Last(rows') = Last(rows)
  <2>1. Len(rows') = m + Len(rows) /\ rows'[m + Len(rows)] = rows[Len(rows)] /\ Len(rows') # 0
    BY <1>5, <1>12
  <2>. QED
    BY <1>12, <2>1, EmptySeq DEF Last
<1>14. RequestsStartAtRows'
  <2>1. InFlight' \subseteq InFlight
    BY <1>1, <1>2, Taken
  <2>2. Ids(rows) \subseteq Ids(rows')
    BY <1>5 DEF Ids
  <2>. QED
    BY <1>3, <1>10, <1>13, <2>1, <2>2 DEF RequestsStartAtRows, Ids
<1>15. /\ \A u \in Shown : u >= Last(rows).record
       /\ \A u \in Stored \cap Matches[filter] :
            (\E v \in Shown : u <= v) /\ (hasMore => u >= Last(rows).record) => u \in Shown
       /\ \A i, j \in DOMAIN rows :
            i < j /\ {rows[i].record, rows[j].record} \subseteq Stored =>
              rows[i].record > rows[j].record
  BY <1>9, <1>11 DEF Gapless, RowsAreWhole
\* The row below which nothing was asked for, and what is known of ids and time.
<1>16. PICK p \in DOMAIN rows : r.arg = rows[p].id
  BY <1>10 DEF Ids
<1>17. /\ \A x, y \in Known : /\ x.id < y.id <=> x.record < y.record
                              /\ x.id = y.id <=> x.record = y.record
       /\ \A x \in Known : x.id \in Nat /\ x.record \in Nat
  BY <1>2, <1>10, ByTime DEF Gapless
<1>18. /\ \A i \in DOMAIN rows : rows[i] \in Known /\ rows[i].record \in Shown
       /\ \A a \in DOMAIN r.items : r.items[a] \in Known
       /\ \A u \in Stored : RowOf(u) \in Known /\ RowOf(u).id = id[u] /\ RowOf(u).record = u
  BY <1>2, RowsAreKnown DEF Shown
<1>19. Last(rows).record \in Nat /\ Last(rows).record \in Shown
  BY <1>12, <1>17, <1>18
<1>20. \A u \in Shown : u \in Nat
  BY <1>17, <1>18 DEF Shown
\* What is new is newer than that row.
<1>21. \A a \in DOMAIN r.items : /\ r.items[a].record \in Nat
                                 /\ r.items[a].record > rows[p].record
                                 /\ r.items[a].record > Last(rows).record
  <2> SUFFICES ASSUME NEW a \in DOMAIN r.items
               PROVE  /\ r.items[a].record \in Nat
                      /\ r.items[a].record > rows[p].record
                      /\ r.items[a].record > Last(rows).record
    OBVIOUS
  <2>1. rows[p].id < r.items[a].id
    <3>1. r.items[a].id > rows[p].id
      BY <1>1, <1>10, <1>16 DEF IsWhole
    <3>2. r.items[a].id \in Nat /\ rows[p].id \in Nat
      BY <1>16, <1>17, <1>18
    <3>. QED
      BY <3>1, <3>2
  <2>2. rows[p].record < r.items[a].record
    BY <1>16, <1>17, <1>18, <2>1
  <2>3. rows[p].record >= Last(rows).record
    BY <1>15, <1>16, <1>18
  <2>4. rows[p].record \in Nat /\ r.items[a].record \in Nat
    BY <1>16, <1>17, <1>18
  <2>. QED
    BY <1>19, <2>2, <2>3, <2>4
<1>22. Shown' = Shown \cup Records(t) /\ Records(t) \subseteq Records(r.items)
  <2>1. Shown' = Shown \cup Records(t)
    BY <1>5 DEF Shown, Records
  <2>. QED
    BY <1>4, <2>1 DEF Records
\* What the answer has is on screen now, if it was not already.
<1>23. Records(r.items) \subseteq Shown'
  <2> SUFFICES ASSUME NEW a \in DOMAIN r.items PROVE r.items[a].record \in Shown'
    BY DEF Records
  <2>1. CASE r.items[a].id \in Ids(rows)
    <3>1. PICK i \in DOMAIN rows : rows[i].id = r.items[a].id
      BY <2>1 DEF Ids
    <3>2. rows[i].record = r.items[a].record
      BY <1>17, <1>18, <3>1
    <3>. QED
      BY <1>18, <1>22, <3>1, <3>2
  <2>2. CASE r.items[a].id \notin Ids(rows)
    BY <1>4, <1>22, <2>2 DEF Records
  <2>. QED
    BY <2>1, <2>2
<1>24. \A u \in Shown' : u \in Nat /\ u >= Last(rows').record
  <2>1. \A u \in Records(r.items) : u \in Nat /\ u >= Last(rows).record
    BY <1>19, <1>21 DEF Records
  <2>. QED
    BY <1>13, <1>15, <1>20, <1>22, <2>1
<1>25. ASSUME NEW u \in Stored \cap Matches[filter], NEW v \in Shown', u <= v,
              hasMore' => u >= Last(rows').record
       PROVE  u \in Shown'
  <2>1. u \in Nat
    BY PagingAssumption DEF Stored
  <2>2. CASE \E w \in Shown : u <= w
    BY <1>1, <1>13, <1>15, <1>22, <1>25, <2>2
  <2>3. CASE ~ \E w \in Shown : u <= w
    <3>1. v \in Records(r.items)
      BY <1>22, <1>25, <2>3
    <3>2. rows[p].record < u
      <4>1. rows[p].record \in Shown /\ rows[p].record \in Nat
        BY <1>16, <1>18, <1>20
      <4>2. ~ (u <= rows[p].record)
        BY <2>3, <4>1
      <4>. QED
        BY <2>1, <4>1, <4>2
    <3>3. id[u] > r.arg
      <4>1. rows[p].id < id[u]
        BY <1>16, <1>17, <1>18, <3>2
      <4>2. rows[p].id \in Nat /\ id[u] \in Nat
        BY <1>16, <1>17, <1>18
      <4>. QED
        BY <1>16, <4>1, <4>2
    <3>4. u \in Asked(r)
      BY <1>1, <1>7, <3>3 DEF Asked
    <3>5. ~ \A w \in Records(r.items) : u > w
      <4>1. v \in Nat /\ ~ (u > v)
        BY <1>24, <1>25, <2>1
      <4>. QED
        BY <3>1, <4>1
    <3>6. u \in Records(r.items)
      BY <1>9, <1>10, <3>4, <3>5 DEF IsWhole
    <3>. QED
      BY <1>23, <3>6
  <2>. QED
    BY <2>2, <2>3
<1>26. ASSUME NEW i \in DOMAIN rows', NEW j \in DOMAIN rows', i < j,
              {rows'[i].record, rows'[j].record} \subseteq Stored
       PROVE  rows'[i].record > rows'[j].record
  <2>1. ASSUME i \in DOMAIN t, j \in DOMAIN t
        PROVE  rows'[i].record > rows'[j].record
    <3>1. PICK a, b \in DOMAIN r.items : a < b /\ t[i] = r.items[a] /\ t[j] = r.items[b]
      BY <1>4, <1>26, <2>1
    <3>2. rows'[i] = t[i] /\ rows'[j] = t[j]
      BY <1>5, <2>1
    <3>. QED
      BY <1>10, <3>1, <3>2 DEF IsWhole
  <2>2. ASSUME i \in DOMAIN t, NEW b \in DOMAIN rows, j = m + b
        PROVE  rows'[i].record > rows'[j].record
    <3>1. rows'[i] = t[i] /\ rows'[j] = rows[b]
      BY <1>5, <2>2
    <3>2. PICK a \in DOMAIN r.items : t[i] = r.items[a]
      BY <1>4, <2>2
    <3>3. /\ t[i].record \in Stored \cap Matches[filter] /\ t[i].record \in Nat
          /\ t[i].record >= Last(rows).record
      <4>1. t[i].record \in Matches[filter]
        BY <1>2, <1>7, <3>2 DEF Filtered, ItemsMatch, Records
      <4>2. t[i].record \in Stored
        BY <1>26, <3>1
      <4>. QED
        BY <1>19, <1>21, <3>2, <4>1, <4>2
    <3>4. t[i].record \notin Shown
      <4> SUFFICES ASSUME NEW c \in DOMAIN rows, rows[c].record = t[i].record PROVE FALSE
        BY DEF Shown
      <4>1. rows[c].id = t[i].id
        BY <1>17, <1>18, <3>2
      <4>. QED
        BY <1>4, <2>2, <4>1 DEF Ids
    <3>5. ~ (t[i].record <= rows[b].record)
      BY <1>15, <1>18, <3>3, <3>4
    <3>6. rows[b].record \in Nat
      BY <1>18, <1>20
    <3>. QED
      BY <3>1, <3>3, <3>5, <3>6
  <2>3. ASSUME NEW a \in DOMAIN rows, i = m + a, NEW b \in DOMAIN rows, j = m + b
        PROVE  rows'[i].record > rows'[j].record
    <3>1. rows'[i] = rows[a] /\ rows'[j] = rows[b]
      BY <1>5, <2>3
    <3>2. a < b
      BY <1>12, <1>26, <2>3
    <3>. QED
      BY <1>15, <1>26, <3>1, <3>2
  <2>4. ASSUME NEW a \in DOMAIN rows, i = m + a, j \in DOMAIN t
        PROVE  FALSE
    BY <1>12, <1>26, <2>4
  <2>. QED
    BY <1>5, <2>1, <2>2, <2>3, <2>4
<1>27. RowsAreWhole'
  BY <1>3, <1>6, <1>24, <1>25, <1>26 DEF RowsAreWhole
<1>. QED
  BY <1>14, <1>27

\* A request whose answer is ignored, or that fails, leaves the rows as they are.
LEMMA GaplessDropped ==
  ASSUME PagingTypeOK, Gapless, NEW k \in DOMAIN requests, Take(k),
         UNCHANGED <<table, view, rows, hasMore, clean>>, Ready' => Ready
  PROVE  Gapless'
<1>1. /\ rows' = rows /\ hasMore' = hasMore /\ filter' = filter /\ token' = token
      /\ Shown' = Shown
  BY DEF view, Shown
<1>2. IdsFollowTime' /\ AnswersAreWhole' /\ Stored' = Stored
  BY <1>1, GaplessTaken
<1>3. InFlight' \subseteq InFlight
  BY Taken
<1>4. RowsAreWhole'
  BY <1>1, <1>2 DEF Gapless, RowsAreWhole
<1>5. RequestsStartAtRows'
  BY <1>1, <1>3 DEF Gapless, RequestsStartAtRows, Ids
<1>. QED
  BY <1>2, <1>4, <1>5 DEF Gapless

LEMMA GaplessIgnore ==
  ASSUME Filtered, Gapless, NEW k \in DOMAIN requests, Ignore(k)
  PROVE  Gapless'
<1>1. ~ Wanted(k) /\ Take(k) /\ UNCHANGED <<table, view, rows, hasMore, error, clean>>
  BY DEF Ignore, page
<1>2. token' = token /\ filter' = filter /\ live' = live
  BY <1>1 DEF view
<1>3. Settled' => Settled
  BY <1>1, <1>2, PagesTaken DEF Filtered
<1>4. Ready' => Ready
  BY <1>1, <1>3 DEF Ready, Fine, table, view
<1>. QED
  BY <1>1, <1>4, GaplessDropped DEF Filtered

LEMMA GaplessFail ==
  ASSUME Filtered, Gapless, NEW k \in DOMAIN requests, Fail(k)
  PROVE  Gapless'
<1>1. /\ Take(k) /\ UNCHANGED <<table, view, rows, hasMore, clean>>
      /\ IF Wanted(k) /\ requests[k].kind # "delta"
         THEN error' = TRUE /\ loading' = FALSE
         ELSE UNCHANGED <<error, loading>>
  BY DEF Fail
<1>2. token' = token /\ filter' = filter /\ live' = live
  BY <1>1 DEF view
<1>3. Settled' => Settled
  <2>1. CASE Wanted(k) /\ requests[k].kind # "delta"
    BY <1>1, <2>1 DEF Settled
  <2>2. CASE ~ (Wanted(k) /\ requests[k].kind # "delta")
    BY <1>1, <1>2, <2>2, PagesTaken DEF Filtered
  <2>. QED
    BY <2>1, <2>2
<1>4. Ready' => Ready
  BY <1>1, <1>3 DEF Ready, Fine, table, view
<1>. QED
  BY <1>1, <1>4, GaplessDropped DEF Filtered

LEMMA GaplessInit ==
  ASSUME Init
  PROVE  Gapless
<1> DEFINE r == Request("reload", 1, filter, TRUE, 0)
<1>1. r.kind = "reload" /\ r.token = 1 /\ r.items = <<>> /\ r.answered = FALSE
  BY DEF Request
<1> HIDE DEF r
<1>2. requests = <<r>> /\ token = 1 /\ rows = <<>>
  BY DEF Init, r
<1>3. InFlight = {r}
  <2>1. DOMAIN requests = {1} /\ requests[1] = r
    BY <1>2
  <2>. QED
    BY <2>1 DEF InFlight
<1>4. IdsFollowTime
  <2>1. Answered = {}
    BY <1>1, <1>2, <1>3 DEF Answered
  <2>2. arrived = {} /\ Stored = {} /\ id \in [Record -> Nat]
    BY DEF Init, Stored
  <2>. QED
    BY <2>1, <2>2 DEF IdsFollowTime
<1>5. AnswersAreWhole
  BY <1>1, <1>3 DEF AnswersAreWhole
<1>6. RowsAreWhole /\ RequestsStartAtRows
  BY <1>1, <1>2, <1>3 DEF RowsAreWhole, RequestsStartAtRows, Ready, Settled
<1>. QED
  BY <1>4, <1>5, <1>6 DEF Gapless

LEMMA GaplessNext ==
  ASSUME Filtered, Gapless, [Next]_vars
  PROVE  Gapless'
<1>1. CASE UNCHANGED vars
  <2>1. UNCHANGED <<id, arrived, provider, reused, rows, hasMore, error, filter, live, token,
                    requests, clean>>
    BY <1>1 DEF vars, table, page, view
  <2>2. /\ InFlight' = InFlight /\ Answered' = Answered /\ Stored' = Stored /\ TopId' = TopId
        /\ (Ready' <=> Ready) /\ Shown' = Shown /\ (Fine' <=> Fine) /\ Ids(rows)' = Ids(rows)
    BY <2>1 DEF InFlight, Answered, Stored, TopId, Ready, Settled, Fine, Shown, Ids
  <2>3. IdsFollowTime'
    BY <2>1, <2>2 DEF Gapless, IdsFollowTime
  <2>4. AnswersAreWhole'
    BY <2>1, <2>2 DEF Gapless, AnswersAreWhole, IsWhole, Asked
  <2>5. RowsAreWhole' /\ RequestsStartAtRows'
    BY <2>1, <2>2 DEF Gapless, RowsAreWhole, RequestsStartAtRows
  <2>. QED
    BY <2>3, <2>4, <2>5 DEF Gapless
<1>2. CASE Next
  <2>1. ASSUME NEW S \in Deletable, Delete(S) PROVE Gapless'
    BY <2>1, GaplessDelete
  <2>2. ASSUME NEW k \in DOMAIN requests,
               \/ Answer(k)
               \/ ApplyReload(k) \/ ApplyMore(k) \/ ApplyDelta(k)
               \/ Ignore(k) \/ Fail(k)
        PROVE  Gapless'
    BY <2>2, GaplessAnswer, GaplessApplyReload, GaplessApplyMore, GaplessApplyDelta,
       GaplessIgnore, GaplessFail
  <2>. QED
    BY <1>2, <2>1, <2>2, GaplessImport, GaplessReload, GaplessLoadMore, GaplessFetchDelta
       DEF Next
<1>. QED
  BY <1>1, <1>2

LEMMA AlwaysIInv == PagingSpec => []IInv
<1>1. Init => IInv
  BY FilteredInit, GaplessInit DEF IInv
<1>2. IInv /\ [Next]_vars => IInv'
  BY FilteredNext, GaplessNext DEF IInv
<1>. QED
  BY <1>1, <1>2, PTL DEF PagingSpec

\* With the file provider the page is the log from its first row down, what is
\* still stored of it sorted and without a gap, while rows arrive on top, pages
\* are appended below and both overlap, with any number of requests in flight.
THEOREM ThereIsNoGap == PagingSpec => []NoGap
<1>1. IInv => NoGap
  <2> SUFFICES ASSUME IInv, AtRest, clean, ~ reused, provider = "file", rows # <<>>
               PROVE  /\ Expected \subseteq Shown
                      /\ \A i, j \in DOMAIN rows :
                           i < j /\ {rows[i].record, rows[j].record} \subseteq Stored =>
                             rows[i].record > rows[j].record
    BY DEF NoGap
  <2>1. Ready
    BY DEF IInv, Filtered, OnePageAtATime, Wanted, InFlight, Ready, Settled, Fine, AtRest
  <2>2. rows[1].record \in Shown
    BY EndsOfRows DEF IInv, Filtered, Shown
  <2>. QED
    BY <2>1, <2>2 DEF IInv, Gapless, RowsAreWhole, Expected
<1>. QED
  BY <1>1, AlwaysIInv, PTL
=============================================================================
