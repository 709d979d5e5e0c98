----------------------------- MODULE ApiIngest -----------------------------
(***************************************************************************)
(* One poll after another of AdGuard's query log over HTTP                 *)
(* (ingest/api_provider.py, driven by ingest/ingestor.py).  AdGuard pages  *)
(* backwards only, so a poll walks from the newest record down to the last *)
(* known one (the forward pass) and spends the rest of its page budget on  *)
(* walking further into history (the backfill pass).  What it read and the *)
(* checkpoint it ended at are written in one transaction.  While a poll is *)
(* waiting for a page, AdGuard logs and rotates, cleanups run, devices are *)
(* forgotten, the user pauses the import, and the process may die.         *)
(***************************************************************************)
EXTENDS QueryLog, FiniteSetsExt

CONSTANTS
  Readable,      \* the records parse_api_record makes sense of
  PageSize,      \* ingest_batch_size: records AdGuard returns in a page
  MaxPages,      \* max_pages_per_poll
  MaxFailures    \* bound on the polls that fail

ASSUME IngestAssumption ==
  /\ Readable \subseteq Record
  /\ \A u \in Record : TsOf[u] > 0
  /\ 0 \in Cutoff
  /\ PageSize \in Nat \ {0}
  /\ MaxPages \in Nat \ {0}
  /\ MaxFailures \in Nat

VARIABLES
  log,         \* the records AdGuard holds
  seen,        \* history: the records AdGuard ever held
  fwd,         \* checkpoint: forward_ts_ns
  cursor,      \* checkpoint: backfill_cursor, None when there is none
  done,        \* checkpoint: backfill_done
  enabled,     \* ingest_enabled
  phase,       \* where the poll is
  pages,       \* pages_used
  older,       \* older_than of the forward pass, None for the newest page
  newest,      \* newest_ts
  batch,       \* the records read so far
  floor,       \* floor_ts_ns of this poll, 0 to keep everything
  nextCursor,  \* the poll's copy of the checkpoint ...
  nextDone,    \* ... which becomes the checkpoint if the poll succeeds
  topFloor,    \* history: the highest floor or cut-off ever enforced
  forgotten,   \* history: the records that went with a forgotten device
  failures     \* how many polls failed

checkpoint == <<fwd, cursor, done>>
poll == <<phase, pages, older, newest, batch, floor, nextCursor, nextDone>>
vars == <<queries, log, seen, checkpoint, enabled, poll, topFloor, forgotten,
          failures>>

None == 0      \* no timestamp: the records' are positive
Phase == {"idle", "forward", "backfill", "write"}

Greater(m, n) == IF m > n THEN m ELSE n

-----------------------------------------------------------------------------
(* AdGuard: logs in time order, drops its oldest records, and answers with *)
(* the newest records that are older than a given time.                    *)

Append(u) ==
  /\ u \notin seen
  /\ \A v \in seen : TsOf[v] <= TsOf[u]
  /\ log' = log \cup {u}
  /\ seen' = seen \cup {u}
  /\ UNCHANGED <<queries, checkpoint, enabled, poll, topFloor, forgotten, failures>>

Rotate(u) ==
  /\ u \in log
  /\ \A v \in log : TsOf[u] <= TsOf[v]
  /\ log' = log \ {u}
  /\ UNCHANGED <<queries, seen, checkpoint, enabled, poll, topFloor, forgotten,
                 failures>>

OlderThan(ts) == IF ts = None THEN log ELSE {u \in log : TsOf[u] < ts}

\* A page is full unless the log is at its end; records of the same time may
\* fall on either side of its edge.
Pages(ts) ==
  {page \in SUBSET OlderThan(ts) :
     /\ \/ Cardinality(page) = PageSize
        \/ page = OlderThan(ts) /\ Cardinality(page) < PageSize
     /\ \A u \in page, v \in OlderThan(ts) \ page : TsOf[u] >= TsOf[v]}

OldestOf(page) == Min({TsOf[u] : u \in page})

\* The "oldest" of an answer, which is missing when there is nothing in it and
\* may be missing from the last page.
Oldest(page, ts) ==
  (IF page = {} THEN {} ELSE {OldestOf(page)})
    \cup (IF page = OlderThan(ts) THEN {None} ELSE {})

-----------------------------------------------------------------------------
(* A poll.                                                                 *)

\* run_once reads the checkpoint, the retention and the switch together.
StartPoll(f) ==
  /\ phase = "idle"
  /\ enabled
  /\ phase' = "forward"
  /\ pages' = 0
  /\ older' = None
  /\ newest' = fwd
  /\ batch' = {}
  /\ floor' = f
  /\ nextCursor' = cursor
  /\ nextDone' = done
  /\ topFloor' = Greater(topFloor, f)
  /\ UNCHANGED <<queries, log, seen, checkpoint, enabled, forgotten, failures>>

\* The records of a page worth keeping: readable, inside the window.
Kept(page) == {u \in page \cap Readable : TsOf[u] >= floor}

\* As if the known horizon was not recognised.
KnownNever(page) == {}

\* The records of a page that were read before, as far as the horizon tells.
Known(page) == {u \in page \cap Readable : TsOf[u] <= fwd}

\* The forward pass stops at the horizon, at the end of the log, or below the
\* retention floor.
CaughtUp(page, oldest) ==
  \/ Known(page) # {}
  \/ oldest = None
  \/ oldest < floor

\* Whether a backfill pass follows, given the pages used so far.
BackfillNext(used) == ~ nextDone /\ nextCursor # None /\ used < MaxPages

ReadForward(page) ==
  LET new == Kept(page) \ Known(page) IN
  /\ phase = "forward"
  /\ pages' = pages + 1
  /\ batch' = batch \cup new
  /\ newest' = Max({newest} \cup {TsOf[u] : u \in new})
  /\ UNCHANGED <<queries, log, seen, checkpoint, enabled, floor, topFloor,
                 forgotten, failures>>

ForwardCaughtUp ==
  \E page \in Pages(older) : \E oldest \in Oldest(page, older) :
    /\ ReadForward(page)
    /\ CaughtUp(page, oldest)
    /\ phase' = IF BackfillNext(pages + 1) THEN "backfill" ELSE "write"
    /\ UNCHANGED <<older, nextCursor, nextDone>>

\* As if the budget was checked after the page was counted.
ForwardContinuesPastBudget ==
  \E page \in Pages(older) : \E oldest \in Oldest(page, older) :
    /\ ReadForward(page)
    /\ ~ CaughtUp(page, oldest)
    /\ pages + 1 <= MaxPages
    /\ older' = oldest
    /\ UNCHANGED <<phase, nextCursor, nextDone>>

ForwardContinues ==
  \E page \in Pages(older) : \E oldest \in Oldest(page, older) :
    /\ ReadForward(page)
    /\ ~ CaughtUp(page, oldest)
    /\ pages + 1 < MaxPages
    /\ older' = oldest
    /\ UNCHANGED <<phase, nextCursor, nextDone>>

\* As if an unfinished forward pass left no trace in the checkpoint.
ForwardForgetsGap ==
  \E page \in Pages(older) : \E oldest \in Oldest(page, older) :
    /\ ReadForward(page)
    /\ ~ CaughtUp(page, oldest)
    /\ pages + 1 = MaxPages
    /\ phase' = "write"
    /\ UNCHANGED <<older, nextCursor, nextDone>>

\* Out of budget in unseen territory: the backfill resumes from here.
ForwardOutOfBudget ==
  \E page \in Pages(older) : \E oldest \in Oldest(page, older) :
    /\ ReadForward(page)
    /\ ~ CaughtUp(page, oldest)
    /\ pages + 1 = MaxPages
    /\ nextCursor' = oldest
    /\ nextDone' = FALSE
    /\ phase' = "write"
    /\ UNCHANGED older

ReadBackfill(page) ==
  /\ phase = "backfill"
  /\ pages' = pages + 1
  /\ batch' = batch \cup Kept(page)
  /\ UNCHANGED <<queries, log, seen, checkpoint, enabled, older, newest, floor,
                 topFloor, forgotten, failures>>

\* The end of the log, or of the retention window.
BackfillEnds ==
  \E page \in Pages(nextCursor) : \E oldest \in Oldest(page, nextCursor) :
    /\ ReadBackfill(page)
    /\ oldest = None \/ oldest < floor
    /\ nextCursor' = None
    /\ nextDone' = TRUE
    /\ phase' = "write"

\* As if the position reached was not remembered.
BackfillStaysPut ==
  \E page \in Pages(nextCursor) : \E oldest \in Oldest(page, nextCursor) :
    /\ ReadBackfill(page)
    /\ oldest # None /\ oldest >= floor
    /\ phase' = IF pages + 1 < MaxPages THEN "backfill" ELSE "write"
    /\ UNCHANGED <<nextCursor, nextDone>>

\* There is more to read, in this poll or in the next one.
BackfillContinues ==
  \E page \in Pages(nextCursor) : \E oldest \in Oldest(page, nextCursor) :
    /\ ReadBackfill(page)
    /\ oldest # None /\ oldest >= floor
    /\ nextCursor' = oldest
    /\ phase' = IF pages + 1 < MaxPages THEN "backfill" ELSE "write"
    /\ UNCHANGED nextDone

\* The poll's local state dies with it.
PollOver ==
  /\ phase' = "idle" /\ pages' = 0 /\ older' = None /\ newest' = 0
  /\ batch' = {} /\ floor' = 0 /\ nextCursor' = None /\ nextDone' = FALSE

\* Records and checkpoint in one transaction.
Write ==
  /\ phase = "write"
  /\ Import(batch)
  /\ fwd' = newest
  /\ cursor' = nextCursor
  /\ done' = nextDone
  /\ PollOver
  /\ UNCHANGED <<log, seen, enabled, topFloor, forgotten, failures>>

\* AdGuard does not answer, the write fails, or the process dies: the poll is
\* lost and the next one starts from the stored checkpoint.
Fail ==
  /\ phase # "idle"
  /\ failures < MaxFailures
  /\ failures' = failures + 1
  /\ PollOver
  /\ UNCHANGED <<queries, log, seen, checkpoint, enabled, topFloor, forgotten>>

-----------------------------------------------------------------------------
(* What else happens to the stored log and the settings meanwhile.         *)

Cleanup(cutoff) ==
  /\ Expire(cutoff)
  /\ topFloor' = Greater(topFloor, cutoff)
  /\ UNCHANGED <<log, seen, checkpoint, enabled, poll, forgotten, failures>>

DeleteDevice(c) ==
  /\ Forget(c)
  /\ forgotten' = forgotten \cup (queries \ queries')
  /\ UNCHANGED <<log, seen, checkpoint, enabled, poll, topFloor, failures>>

SwitchIngest ==
  /\ enabled' = ~ enabled
  /\ UNCHANGED <<queries, log, seen, checkpoint, poll, topFloor, forgotten,
                 failures>>

-----------------------------------------------------------------------------
Init ==
  /\ Empty
  /\ log = {} /\ seen = {}
  /\ fwd = 0 /\ cursor = None /\ done = FALSE
  /\ enabled = TRUE
  /\ phase = "idle" /\ pages = 0 /\ older = None /\ newest = 0 /\ batch = {}
  /\ floor = 0 /\ nextCursor = None /\ nextDone = FALSE
  /\ topFloor = 0
  /\ forgotten = {}
  /\ failures = 0

Poll ==
  \/ \E f \in Cutoff : StartPoll(f)
  \/ ForwardCaughtUp \/ ForwardContinues \/ ForwardOutOfBudget
  \/ BackfillEnds \/ BackfillContinues
  \/ Write

Next ==
  \/ Poll
  \/ Fail
  \/ \E u \in Record : Append(u) \/ Rotate(u)
  \/ \E cutoff \in Cutoff : Cleanup(cutoff)
  \/ \E c \in Client : DeleteDevice(c)
  \/ SwitchIngest

IngestSpec == Init /\ [][Next]_vars

\* The loop sleeps with a timeout and a request is given up after one, so a
\* poll that is due starts and a poll that has started goes on.
FairIngestSpec == IngestSpec /\ WF_vars(Poll)

-----------------------------------------------------------------------------
(* Properties.                                                             *)

\* The checkpoint and the locals of a poll are times, page counts and sets of
\* records; a finished backfill has no cursor, and between two polls the
\* locals are gone.
TypeOK ==
  /\ log \subseteq seen /\ seen \subseteq Record
  /\ queries \subseteq seen \cap Readable /\ batch \subseteq seen \cap Readable
  /\ forgotten \subseteq Record
  /\ fwd \in Nat /\ newest \in Nat /\ floor \in Nat /\ topFloor \in Nat
  /\ cursor \in Nat /\ nextCursor \in Nat /\ older \in Nat
  /\ done \in BOOLEAN /\ nextDone \in BOOLEAN /\ enabled \in BOOLEAN
  /\ done => cursor = None
  /\ phase \in Phase
  /\ pages \in 0..MaxPages
  /\ phase = "idle" => batch = {}
  /\ failures \in 0..MaxFailures

\* A record that can be told apart by its time: AdGuard asks for pages older
\* than a time, and the horizon is a time, so of two records of the same
\* nanosecond one may be taken for read with the other.
Distinct(u) == u \in Readable /\ \A v \in Record \ {u} : TsOf[v] # TsOf[u]

\* The records the import owes the user: in the log, inside every window that
\* was ever enforced, and not forgotten on request.
Owed(u) == u \in log /\ Distinct(u) /\ TsOf[u] >= topFloor /\ u \notin forgotten

\* Nothing is skipped: a record at or below the horizon is stored, or it is
\* still ahead of the backfill cursor.  This holds through polls that run out
\* of budget in either pass, polls that fail, and logs that grow, rotate and
\* are cleaned up while a poll is under way ("remember where to resume so
\* history is not lost").
NothingSkipped ==
  \A u \in Record :
    Owed(u) /\ TsOf[u] <= fwd =>
      u \in queries \/ (~ done /\ cursor # None /\ TsOf[u] < cursor)

\* A poll reads no more than the delta: as long as its forward pass goes on,
\* every page it read was full of records past the horizon or unreadable ones
\* ("its cost is proportional to the delta, not to the size of the log").
ForwardCostIsDelta ==
  phase = "forward" =>
    pages * PageSize < PageSize
      + Cardinality({u \in seen : TsOf[u] > fwd \/ u \notin Readable})

\* The horizon never moves back, whatever was read, cleaned up or lost.
HorizonNeverMovesBack == [][fwd' >= fwd]_vars

\* What unreadable records on top of the log leave of the budget: a page, so
\* that the forward pass, which reads all of them in every poll, is not all a
\* poll can do.
OnTop == {u \in log \ Readable : \A v \in log : Distinct(v) => TsOf[v] <= TsOf[u]}
BudgetLeft == Cardinality(OnTop) < PageSize * (MaxPages - 1)

\* Every record the log keeps is imported in the end, if the import is not left
\* switched off and the unreadable records on top of the log do not use up the
\* budget of every poll, unless a retention window it is outside of is enforced
\* or its device is forgotten ("every historical record should eventually be
\* imported").  Of a budget of one page this says nothing.
EventuallyImported ==
  <>[](enabled /\ BudgetLeft) =>
    \A u \in Record : Owed(u) ~> (u \in queries \/ ~ Owed(u))
=============================================================================
