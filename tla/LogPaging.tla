----------------------------- MODULE LogPaging -----------------------------
(***************************************************************************)
(* The log page of the browser (frontend/src/pages/LogPage.tsx) over the   *)
(* queries table (services/query_service.py).  Three kinds of request are  *)
(* in flight together: a reload replaces what is on screen, a further page *)
(* is appended, a delta is prepended.  Each is answered from the table as  *)
(* it is at that moment, the answers arrive in any order, and meanwhile    *)
(* records are stored and deleted and the user changes filter and sort.    *)
(*                                                                         *)
(* Rows are sorted by time but cut by id, and ids are given in the order   *)
(* of insertion: the file provider stores the older record first, the API  *)
(* provider the newest of a poll first.                                    *)
(***************************************************************************)
EXTENDS Integers, SequencesExt

CONSTANTS
  Record,       \* the query log records: a record is named by its time
  OwnerOf,      \* [Record -> address]: the device that made the query
  Filter,       \* the filters a user may set
  Matches,      \* [Filter -> SUBSET Record]
  Provider,     \* the providers that may be configured, of "file" and "api"
  PageSize,     \* PAGE_SIZE
  DeltaLimit,   \* the limit of a delta
  MaxReloads,   \* bound on the reloads
  MaxRequests,  \* bound on the requests in flight
  MaxFailures,  \* bound on the requests that fail
  MaxDeletes    \* bound on the deletions

ASSUME PagingAssumption ==
  /\ Record \subseteq Nat
  /\ IsFiniteSet(Record)
  /\ Matches \in [Filter -> SUBSET Record]
  /\ Provider \subseteq {"file", "api"}
  /\ PageSize \in Nat \ {0}
  /\ DeltaLimit \in Nat \ {0}

VARIABLES
  provider,  \* the provider that fills the table
  id,        \* [Record -> Nat]: queries.id, 0 for a record not stored
  arrived,   \* history: the records that were ever stored
  filter,    \* the filter of the page
  live,      \* isLiveSort: the newest on top
  rows,      \* the rows on screen
  hasMore,   \* whether there is a further page, as far as the page knows
  loading,   \* the spinner is on
  error,     \* the error banner is up
  token,     \* requestToken
  requests,  \* the requests in flight, in the order they were made
  clean,     \* history: no delta was cut or overtaken since the last reload
  reused,    \* history: the newest record was deleted, its id is given again
  failures,  \* how many requests failed
  deletes,   \* how often records were deleted
  known      \* history: the records stored when the page was loaded

table == <<provider, id, arrived, reused>>
page == <<rows, hasMore, loading, error, known>>
view == <<filter, live, token>>
vars == <<table, page, view, requests, clean, failures, deletes>>

Stored == {u \in Record : id[u] > 0}
TopId == Max({0} \cup {id[u] : u \in Record})

RowOf(u) == [id |-> id[u], record |-> u]
Ids(s) == {s[i].id : i \in DOMAIN s}
Shown == {rows[i].record : i \in DOMAIN rows}

-----------------------------------------------------------------------------
(* The server.                                                             *)

\* A batch is stored in one transaction; ids continue from the highest one in
\* the table, and a file only ever brings newer records.
Import(S) ==
  /\ S # {}
  /\ S \cap arrived = {}
  /\ provider = "api" \/ \A u \in S, v \in arrived : u > v
  /\ id' = [u \in Record |->
       IF u \notin S THEN id[u]
       ELSE TopId + Cardinality({v \in S : IF provider = "api" THEN v >= u ELSE v <= u})]
  /\ arrived' = arrived \cup S
  /\ UNCHANGED <<provider, reused, page, view, requests, clean, failures, deletes>>

\* A device is forgotten, or the oldest records have expired.  If the newest
\* record goes, its id is given again.
Delete(S) ==
  /\ S \cap Stored # {}
  /\ deletes < MaxDeletes
  /\ deletes' = deletes + 1
  /\ id' = [u \in Record |-> IF u \in S THEN 0 ELSE id[u]]
  /\ reused' = (reused \/ \E u \in S : id[u] = TopId)
  /\ UNCHANGED <<provider, arrived, page, view, requests, clean, failures>>

Deletable ==
  {{u \in Stored : OwnerOf[u] = OwnerOf[v]} : v \in Stored}
    \cup {{u \in Stored : u <= v} : v \in Stored}

\* The elements of a set of numbers, the least first.
Ascending(S) ==
  CHOOSE s \in [1..Cardinality(S) -> S] : \A i, j \in DOMAIN s : i < j => s[i] < s[j]

\* The records a request asks for, in the order it asks for them.
Asked(r) ==
  {u \in Stored \cap Matches[r.filter] :
     /\ r.kind = "more" /\ r.live => id[u] < r.arg
     /\ r.kind = "delta" => id[u] > r.arg}

Matching(r) == IF r.live THEN Reverse(Ascending(Asked(r))) ELSE Ascending(Asked(r))

OffsetOf(r) == IF r.kind = "more" /\ ~ r.live THEN r.arg ELSE 0
LimitOf(r) == IF r.kind = "delta" THEN DeltaLimit ELSE PageSize

\* list_queries: the items of the answer, and whether there are more.
ListQueries(r) ==
  LET found == Matching(r)
      to == Min({Len(found), OffsetOf(r) + LimitOf(r)})
      items == SubSeq(found, OffsetOf(r) + 1, to) IN
  [items |-> [i \in DOMAIN items |-> RowOf(items[i])],
   more |-> Len(found) > OffsetOf(r) + LimitOf(r)]

Answer(k) ==
  /\ ~ requests[k].answered
  /\ requests' = [requests EXCEPT ![k] = [@ EXCEPT !.answered = TRUE,
                    !.items = ListQueries(requests[k]).items,
                    !.more = ListQueries(requests[k]).more,
                    !.stored = IF requests[k].kind = "reload" THEN Stored ELSE {}]]
  /\ UNCHANGED <<table, page, view, clean, failures, deletes>>

-----------------------------------------------------------------------------
(* The page makes requests.                                                *)

Request(kind, tok, f, l, arg) ==
  [kind |-> kind, token |-> tok, filter |-> f, live |-> l, arg |-> arg,
   answered |-> FALSE, items |-> <<>>, more |-> FALSE, stored |-> {}]

Send(r) ==
  /\ Len(requests) < MaxRequests
  /\ requests' = Append(requests, r)

\* The user sets a filter or a sort, or asks for a refresh, or a cleanup was
\* announced: what is in flight is no longer wanted.
Reload(f, l) ==
  /\ token < MaxReloads
  /\ token' = token + 1
  /\ filter' = f
  /\ live' = l
  /\ loading' = TRUE
  /\ Send(Request("reload", token + 1, f, l, 0))
  /\ UNCHANGED <<table, rows, hasMore, error, known, clean, failures, deletes>>

\* The user scrolls down: below the last row by its id, or by the number of
\* rows if the sort is another one.
LoadMore ==
  /\ ~ loading /\ hasMore /\ rows # <<>>
  /\ loading' = TRUE
  /\ Send(Request("more", token, filter, live,
                  IF live THEN Last(rows).id ELSE Len(rows)))
  /\ UNCHANGED <<table, view, rows, hasMore, error, known, clean, failures, deletes>>

\* New records were announced, or may have come while the page was not told.
FetchDelta ==
  /\ live /\ rows # <<>>
  /\ Send(Request("delta", token, filter, live, rows[1].id))
  /\ UNCHANGED <<table, page, view, clean, failures, deletes>>

-----------------------------------------------------------------------------
(* The page takes an answer, or learns that there is none.                 *)

Take(k) == requests' = RemoveAt(requests, k)

\* The answer to the request is still wanted.
Wanted(k) == requests[k].token = token

NotShown(items) ==
  LET new == Ascending({i \in DOMAIN items : items[i].id \notin Ids(rows)}) IN
  [i \in DOMAIN new |-> items[new[i]]]

DeltaInFlight ==
  \E k \in DOMAIN requests : requests[k].kind = "delta" /\ Wanted(k)

ApplyReload(k) ==
  /\ requests[k].kind = "reload" /\ requests[k].answered /\ Wanted(k)
  /\ rows' = requests[k].items
  /\ hasMore' = requests[k].more
  /\ loading' = FALSE
  /\ error' = FALSE
  /\ clean' = ~ DeltaInFlight
  /\ known' = requests[k].stored
  /\ Take(k)
  /\ UNCHANGED <<table, view, failures, deletes>>

\* As if a page was appended whatever has become of the request.
ApplyMoreAnyway(k) ==
  /\ requests[k].kind = "more" /\ requests[k].answered
  /\ rows' = rows \o NotShown(requests[k].items)
  /\ hasMore' = requests[k].more
  /\ loading' = FALSE
  /\ Take(k)
  /\ UNCHANGED <<table, view, error, known, clean, failures, deletes>>

ApplyMore(k) ==
  /\ requests[k].kind = "more" /\ requests[k].answered /\ Wanted(k)
  /\ rows' = rows \o NotShown(requests[k].items)
  /\ hasMore' = requests[k].more
  /\ loading' = FALSE
  /\ Take(k)
  /\ UNCHANGED <<table, view, error, known, clean, failures, deletes>>

\* As if a delta told whether there is a further page.
ApplyDeltaSetsMore(k) ==
  /\ requests[k].kind = "delta" /\ requests[k].answered /\ Wanted(k)
  /\ rows' = NotShown(requests[k].items) \o rows
  /\ hasMore' = requests[k].more
  /\ clean' = (clean /\ ~ requests[k].more)
  /\ Take(k)
  /\ UNCHANGED <<table, view, loading, error, known, failures, deletes>>

ApplyDelta(k) ==
  /\ requests[k].kind = "delta" /\ requests[k].answered /\ Wanted(k)
  /\ rows' = NotShown(requests[k].items) \o rows
  /\ clean' = (clean /\ ~ requests[k].more)
  /\ Take(k)
  /\ UNCHANGED <<table, view, hasMore, loading, error, known, failures, deletes>>

Ignore(k) ==
  /\ requests[k].answered /\ ~ Wanted(k)
  /\ Take(k)
  /\ UNCHANGED <<table, page, view, clean, failures, deletes>>

\* A failed delta leaves no trace, nor does a request no longer wanted.
Fail(k) ==
  /\ failures < MaxFailures
  /\ failures' = failures + 1
  /\ IF Wanted(k) /\ requests[k].kind # "delta"
     THEN error' = TRUE /\ loading' = FALSE
     ELSE UNCHANGED <<error, loading>>
  /\ Take(k)
  /\ UNCHANGED <<table, view, rows, hasMore, known, clean, deletes>>

-----------------------------------------------------------------------------
\* The page is opened: its first load is on the way.
Init ==
  /\ id = [u \in Record |-> 0] /\ arrived = {}
  /\ filter \in Filter /\ live = TRUE /\ token = 1
  /\ rows = <<>> /\ hasMore = FALSE /\ loading = TRUE /\ error = FALSE
  /\ requests = <<Request("reload", 1, filter, TRUE, 0)>>
  /\ provider \in Provider /\ known = {}
  /\ clean = TRUE /\ reused = FALSE /\ failures = 0 /\ deletes = 0

Next ==
  \/ \E S \in SUBSET Record : Import(S)
  \/ \E S \in Deletable : Delete(S)
  \/ \E f \in Filter, l \in BOOLEAN : Reload(f, l)
  \/ LoadMore
  \/ FetchDelta
  \/ \E k \in DOMAIN requests :
       \/ Answer(k)
       \/ ApplyReload(k) \/ ApplyMore(k) \/ ApplyDelta(k)
       \/ Ignore(k) \/ Fail(k)

PagingSpec == Init /\ [][Next]_vars

-----------------------------------------------------------------------------
(* Properties.                                                             *)

\* Once the spinner is off and no error is shown, every row on screen is one
\* the current filter lets through, whatever answers to earlier filters were
\* still under way.
RowsMatchFilter ==
  ~ loading /\ ~ error => Shown \subseteq Matches[filter]

AtRest == ~ loading /\ ~ error /\ live

\* What lies between the first and the last row, and below the last when there
\* is no further page, and ought to be on screen.
Expected ==
  {u \in Stored \cap Matches[filter] :
     /\ u <= rows[1].record
     /\ hasMore => u >= Last(rows).record}

\* With the file provider the page is the log from its first row down, what is
\* still stored of it sorted and without a gap, although rows arrive on top,
\* pages are appended below and both overlap; it is not once a delta was cut at
\* its limit, was overtaken by a reload, or the newest record was deleted.
NoGap ==
  AtRest /\ clean /\ ~ reused /\ provider = "file" /\ rows # <<>> =>
    /\ Expected \subseteq Shown
    /\ \A i, j \in DOMAIN rows :
         i < j /\ {rows[i].record, rows[j].record} \subseteq Stored =>
           rows[i].record > rows[j].record

\* A reader who scrolls to the end has seen every record that was stored when
\* the page was loaded ("Paging uses a keyset cursor (`before_id`) while the default
\* newest-first sort is active, so rows arriving at the top never shift the
\* page under the user").
EndIsTheEnd ==
  AtRest /\ rows # <<>> /\ ~ hasMore => Expected \cap known \subseteq Shown

\* A delta brings every row that appeared since the newest one on screen
\* ("Pull only the rows that appeared since the newest one on screen").
DeltaLeavesNoGap ==
  AtRest /\ rows # <<>> /\ ~ DeltaInFlight => Expected \subseteq Shown
=============================================================================
