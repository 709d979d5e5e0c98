# A formal model of the AdGuard log viewer

AdGuard Log Viewer is a Home Assistant add-on: a FastAPI backend that copies
AdGuard Home's query log into SQLite and keeps it for weeks, and a React
frontend that browses it. This directory holds TLA+ modules for the parts whose
correctness depends on the order in which things happen, TLC configurations
that check them on small instances, and TLAPS proofs about the stored log, the
import from AdGuard's log and from its file, the classification, live updates,
the database's connections, the paging of the log, and the pages, settings and
columns of the browser for every value of the constants.

All paths below are relative to `adguard_log_viewer/app/` unless they start
with `frontend/`.

## 1. Inventory

| Component | State it keeps | Operations | What makes it correct |
|---|---|---|---|
| **Stored query log** `services/ingest_store.py`, `db/migrations.py` | tables `queries`, `domains`, `clients`, `stats_minute`: the records and three redundant summaries of them | `store_records` | no record twice; counters, first/last-seen bounds and per-minute totals agree with the records |
| **Retention** `services/retention.py` | the same tables | `cleanup`: delete the oldest expired rows up to a budget, apply deltas, refresh bounds, clear minutes, prune domains and devices at zero | removes expired records only, oldest first; pruning never cascades to a live record |
| **Devices and persons** `services/device_service.py` | alias and person on `clients`, `persons` | name, assign, delete a device; delete a person | a forgotten device takes exactly its own queries along |
| **API ingest** `ingest/api_provider.py`, `ingest/ingestor.py` | checkpoint `(forward_ts_ns, backfill_cursor, backfill_done)` in SQLite; a poll's locals | poll: forward pass, backfill pass, one transaction for records and checkpoint | nothing is skipped, nothing is imported twice, everything is imported in the end, a poll costs the delta |
| **Classification** `services/classification.py`, `tag_service.py`, `rules_service.py`, `api/rules.py`, `runtime.py` | rules and `ruleset_rev` in SQLite, the engine in memory, `domains.ruleset_rev`, `domain_tags` | rule CRUD + engine reload, classify new and stale domains, mark all, tags by hand | a domain with the current revision has the current rules' tags; what the user tagged survives; stale domains drain |
| **Rule engine** `categorization/engine.py`, `matchers.py` | indexes by suffix and by name, the rules to scan | `classify`, `explain`, building the indexes | the indexes give what a scan of all rules gives |
| **Database access** `db/database.py` | one writer connection and its lock, a bounded pool of readers | `write`, `read`, `close` | writes are serialised and all-or-nothing; the pool is never over-committed; close does not leak |
| **Migration, startup** `db/migrations.py`, `runtime.py` | `user_version`, the tables | `migrate`, seeding, `reload_engine` | requests are served on a whole schema only; a version is applied as a whole |
| **File provider** `ingest/file_provider.py` | `(inode, offset)` checkpoint | tail, rotation, partial lines | no line skipped or read twice across rotation and restart |
| **Provider lifecycle** `runtime.py` | current provider, cached status | probe, rebuild (close, forget, discover) | the status of a provider that was replaced does not stay |
| **Event bus, stream** `services/events.py`, `api/stream.py` | bounded queue per browser | subscribe, publish, drop oldest | the last notification of a kind is not lost for good |
| **Live updates** `frontend/src/stores/liveUpdates.ts` | connection, cool-downs, polling fallback | connect, reconnect, poll, dispatch | the page catches up after a gap |
| **Log page** `frontend/src/pages/LogPage.tsx`, `services/query_service.py` | the rows on screen, the request token | reload, next page, delta | none missing, no answer of an old filter shown |
| **Filter trees** `filters/nodes.py`, `filters/sql_builder.py` | - | parse, flatten, quick search, compile to SQL | a tree means what was drawn |
| **Filter state, saved filters** `frontend/src/stores/useFilterStore.ts`, `components/FilterBar.tsx`, `FilterBuilder.tsx`, `pages/SavedFiltersPage.tsx` | terms, picks, advanced tree, applied filter; `saved_filters` | search, pick, draw, apply, save, update | what is saved finds what was shown |
| **Data fetching** `frontend/src/hooks/useAsync.ts` | deps, token, data, error, spinner | call, reload, take or ignore an answer | the answer shown is to the question asked last |
| **Pages and dialogs** `frontend/src/pages/{Persons,Tags,Rules,Devices,DomainDetail}Page.tsx`, `api/*.py`, `services/{device,tag,rules}_service.py` | a list, a draft, saves under way; `persons`, `tags`, `rules` | open, edit, save by several requests, remove | a save changes what was edited and is shown |
| **Columns of the log** `frontend/src/hooks/useColumnWidths.ts`, `components/QueryTable.tsx` | columns, widths, the browser's storage | choose, drag, step, reset | the arrangement survives a visit |
| **Settings** `frontend/src/stores/useAppStore.ts`, `pages/SettingsPage.tsx`, `services/settings_service.py` | preferences here and in SQLite | start, change at once or after the answer, reconnect | preferences settle, texts come in the language chosen |
| Statistics, AdGuard client, DNS decoding, look and translations | read-only SQL; none | - | see section 8 |

How they interact:

```
 AdGuard --HTTP--> API provider --batch + checkpoint--> Ingestor
                                                          | one write transaction
 rules (HTTP) --commit--> ruleset_rev --reload--> engine --+--> store_records + classify
                                                          |          |
                            reclassify stale domains <----+          v
 retention.cleanup ---------- write ------------------------> queries/domains/
 device_service ------------- write ------------------------> clients/stats_minute
                                                                    |
   event bus --SSE--> liveUpdates --> LogPage --HTTP--> query_service
                                       |   ^                  ^
                        columns, storage   |                  | filter trees
                                           useFilterStore ----+
   pages --useAsync--> GET  ...        saved filters
     |                                 runtime (provider, cached status)
     +--dialogs--> POST/PUT/DELETE --> device, tag, rules, settings services
```

The backend is one process: an event loop, on which handlers and the ingest
loop interleave at each `await`, and worker threads in which `Database.write`
runs. A write holds a lock and is one SQLite transaction, so the models take a
write transaction as one step, and everything between two awaits as at most one
step.

**Hard behaviours.** A poll spans many awaits during which AdGuard logs and
rotates, cleanups run, devices are forgotten and the process may die. The two
passes share one page budget and one cursor. The redundant counters are
maintained by deltas only, a counter at zero deletes a row, and the delete
cascades. A rule change is committed in one thread and takes effect on the
engine later, in another. On the log page three kinds of request are in flight
together; on every other page answers of an abandoned question arrive late, a
save consists of several requests made from a list that others have changed
since, and nothing keeps the user from going on meanwhile. The filter bar, the
saved filters and the builder make three trees of the same controls, which two
programs (the browser's pruning, the backend's parser) rewrite. `PROJECT.json`
lists each hazard at its line with the properties that cover it.

## 2. The modules

| Module | Models | Built on |
|---|---|---|
| `QueryLog` | the abstract log: a set of records that grows by batches, loses the oldest expired records, loses what a forgotten device did | - |
| `LogStore` | the tables and every write transaction that changes them | extends `QueryLog`; implements it |
| `ApiIngest` | polls of AdGuard's log, against cleanups, deletions, pauses and failures | extends `QueryLog`, uses it as its store |
| `FileTail` | polls of AdGuard's log file, against appends, rotation and truncation | - |
| `Classification` | rules, engine, ingest loop and tags | - |
| `RuleEngine` | the engine as operators: names, conditions, indexes, scan, tester | - |
| `LogPaging` | the log page and the paging of the queries table | - |
| `LiveUpdates` | an import, the event bus, the stream, and the browser's live updates with its reference lists | - |
| `ReaderPool` | the connections, the threads that use them, and `close()` | - |
| `Startup` | migration and seeding, statement by statement | - |
| `Database` | the life of the database over many processes | composes `ReaderPool` and `Startup` |
| `FilterTree` | trees in the browser and in the backend: pruning, parsing, meaning | - |
| `FilterStore` | the filter bar, the builder, the saved filters and their page | extends `FilterTree` |
| `LatestAnswer` | the abstract page: it shows an answer to its last question | - |
| `UseAsync` | the hook that the pages, but for the log, read the server with | implements `LatestAnswer` |
| `Catalog` | people, devices, tags and rules on the server, and its checks | - |
| `PersonsPage`, `TagsPage`, `RulesPage`, `DevicesPage`, `DomainPage` | what each page makes of its data: rows, drafts, requests | extend `Catalog` |
| `LogColumns` | the columns of the log, their widths and the storage | - |
| `ProviderStatus` | the provider, its cached status, the reconnect | - |
| `Settings` | preferences in the browser and on the server, the settings page | extends `UseAsync`, `ProviderStatus` |
| `Pages` | a page, its dialog, its saves, other tabs | composes `UseAsync`, `Catalog`, the pages, `LogColumns`, `Settings` |
| `LogStoreProofs`, `ApiIngestProofs`, `FileTailProofs`, `LogPagingProofs`, `ClassificationProofs`, `LiveUpdatesProofs`, `DatabaseProofs`, `PagesProofs` | theorems; those of `RuleEngine` are in `ClassificationProofs`, those of `UseAsync`, `LogColumns`, `ProviderStatus` and `Settings` are in `PagesProofs` | the module of that name, `TLAPS` |
| `MC*` | the small instances TLC checks | the module of that name |

The composition of the backend is by refinement: `LogStore` shows that with all
its counters, pruning and cascades the tables behave like `QueryLog`, and
`ApiIngest` stores its batches in `QueryLog`, so it need not carry the tables.
The frontend is composed in `Pages`, whose behaviours each choose one page; a
page that is left shares no state with the next, other than what is on the
server. Every page but the log uses the hook; `UseAsync` shows that with any
number of overtaking requests it behaves like `LatestAnswer`, which has one.

### LogStore

| State / action | Code |
|---|---|
| `queries`, `domains`/`domainRow`, `clients`/`clientRow`, `minutes` | the tables of `db/migrations.py`; a `Row` is the counters and bounds of a domain or a client, a `Tally` a bucket of `stats_minute` |
| `named` | clients with an alias or a person, which pruning spares |
| `StoreRecords(batch)` | `store_records`: skip known uids, return early if nothing is new, upsert both tables, insert, add to counters and buckets |
| `Cleanup(cutoff)` | `cleanup`: chunks up to `MAX_ROWS_PER_RUN`, deltas with `MAX(0, ...)`, `_refresh_first_seen`, buckets before the cut-off's second, pruning with `ON DELETE CASCADE` |
| `NameDevices`, `UnnameDevices`, `DeleteDevice` | `update_device`, `assign_devices`, `delete_person`, `delete_device` |

A record is an element of `Record`; its time, client, domain and whether it was
blocked are functions on it. Answers, upstreams, reasons and tags of a record
are left out: no action depends on them. `clearedTo` is a history variable.

### ApiIngest

| State / action | Code |
|---|---|
| `log`, `Append`, `Rotate`, `Pages`, `Oldest` | AdGuard (external): it logs in time order, drops its oldest records, and returns the newest records older than a time, with `oldest` in the answer |
| `fwd`, `cursor`, `done` | the stored checkpoint |
| `phase`, `pages`, `older`, `newest`, `batch`, `floor`, `nextCursor`, `nextDone` | the locals of `fetch` and `run_once` |
| `StartPoll` | `run_once` up to the first request |
| `ForwardCaughtUp`, `ForwardContinues`, `ForwardOutOfBudget` | one page of the forward pass, by how it ends |
| `BackfillEnds`, `BackfillContinues` | one page of the backfill pass |
| `Write` | `_write_batch`: records and checkpoint in one transaction |
| `Fail` | an exception, a timeout or the end of the process |
| `Cleanup`, `DeleteDevice`, `SwitchIngest` | what others do between two steps of a poll |

`topFloor`, `forgotten`, `seen`, `failures` are history. Records of one
nanosecond may fall on both sides of a page edge and the horizon is a time, so
what is promised is promised of records that have a nanosecond to themselves
(`Distinct`); the model has the others too, and they may be lost.

### FileTail

| State / action | Code |
|---|---|
| `files`, `path`, `Grow`, `Remove`, `Create`, `Truncate` | AdGuard and whoever else touches the file (external): a line is two bytes, its text and its end, so that it can be half written; a new file may get the inode of one that is gone, but not of one a poll has open |
| `key`, `offset`, `head` | the stored checkpoint; `head` is the prefix the digest is of, so a digest is taken to be without collisions |
| `handle`, `pos`, `nextOffset`, `remainder`, `batch`, `pages`, `nextHead` | the locals of `_read_sync` |
| `Replaced` | the three signals of `_rotation_reason` |
| `StartPoll` | `_read_sync` up to the seek; a poll that finds no file changes nothing |
| `ReadChunk` | one turn of the loop: a chunk, split into lines, the last partial one kept |
| `CloseFile` | the end of the file or of the budget, and the fingerprint |
| `Write`, `Fail` | `_write_batch` in one transaction; a poll that is lost |

`torn` and `grown` are history: a file emptied while a poll had it open leaves
a checkpoint the rotation signals cannot judge, and `grown` says that since the
checkpoint's poll opened the file it has only been appended to.

### LogPaging

| State / action | Code |
|---|---|
| `id`, `Import`, `Delete` | the `queries` table: ids continue from the highest one there is; the API provider's batch is newest first, the file provider's oldest first |
| `ListQueries`, `Answer` | `list_queries`: filter, cut by id or by offset, sort by time, and one row more than asked for tells whether there are more |
| `rows`, `hasMore`, `loading`, `error`, `token` | the state of `LogPage` |
| `Reload`, `LoadMore`, `FetchDelta` | the request is made, with the state of the last render in its parameters |
| `ApplyReload`, `ApplyMore`, `ApplyDelta`, `Ignore`, `Fail` | what the handler does with the answer, or without one |

A request is answered from the table of that moment and its answer taken in any
order. A record is named by its time. `clean`, `reused`, `known` are history.
Sorting and picking are an enumeration of a set of numbers (`Ascending`) and not
`SortSeq` and `SelectSeq`, of which the provers know nothing.

### Classification

`ChangeRules` is the transaction of a rule handler and `ReloadEngine` what the
handler does when it runs again; any number of handlers may be between the two
(`reloads`). `StartReclassify`/`MarkAll` are the two halves of
`POST /maintenance/reclassify`. `ImportDomains` and `ReclassifyStale` are the
ingest loop's transactions, both through `ClassifyDomains`. `PruneDomain` is
what a cleanup does to a domain. `SetDomainTags`, `CreateTag`, `RenameTag`,
`DeleteTag` are the user's. `Restart` loses open requests and rebuilds the
engine. Which rule gives a domain which tags is the constant `Gives`, which
`RuleEngine` explains: `EngineGivesTheTags` (section 6) joins the two. `used` and
`early` are history: the rules a domain was last classified with, and the domains
classified in the gap between a commit and its reload.

### RuleEngine

| State / action | Code |
|---|---|
| `normalize_domain`, `parent_domains`, `is_subdomain_of`, `registrable_domain` | `common/domains.py`, a name being the sequence of its labels, with empty ones for dots at its ends |
| `match`, `evaluate`, `matches` | one condition, and a rule in either mode |
| `CategorizationEngine`, `Keys` | `_build_indexes`: the keys of the rules whose conditions are all names; the others are scanned |
| `_classify_uncached`, `explain` | what the indexes and the scan find, and the rules tried one by one |

`contains`, `startswith`, `endswith`, `wildcard` and `regex` search the characters
of a name; what they find is the constant `Found`. The order of the rules decides
the order of the tags only, which nothing depends on, so rules and tags are sets.
An engine never changes once it is built, and answers are remembered with it
(`lru_cache`), so that they are a function of the rules it was built from. The
state, and the moment one engine replaces another, are those of `Classification`.

### LiveUpdates

| State / action | Code |
|---|---|
| `newest`, `Import`, `Cleanup` | the state of the reference lists on the server, counted by how often it changed, and the two places of the ingest loop that publish |
| `Put`, `Publish` | `EventBus.publish`: a full queue loses its oldest event |
| `Accept`, `Check`, `Take`, `KeepAlive` | a stream from its subscription on: the generator looks whether the browser is gone, takes an event, or times out waiting |
| `Restart` | the add-on starts again, with no subscribers |
| `Connect`, `Receive`, `Error`, `RetryFires`, `PollFires`, `BackstopFires`, `Start`, `Stop` | `liveUpdates.ts`: the stream, its retries and, when they are used up, polling; the backstop and the page's visibility |
| `React`, `Due`, `CoolDownOver` | `refreshReferenceData` with its cool-down |
| `AnswerRefresh`, `TakeRefresh`, `FailRefresh` | a request of `useAppStore` for one list: the server's answer, and its arrival |

The wire of a connection is first-in-first-out; refreshes of one list overtake
each other.

### ReaderPool, Startup, Database

| State / action | Code |
|---|---|
| `open`, `readers`, `pool`, `closed`, `local`, `deadline` | the readers whose connection is open, and the fields of `Database` and `_Reader`; a deadline is the nesting depth of the read that set it |
| `Acquire`, `Pick`, `Grow`, `Wait`, `GiveUp` | `_acquire`, split where another thread may run |
| `NestRead`, `UnnestRead`, `FinishRead`, `Release`, `Put` | `read` and `_release`; `Release` is the test of `_closed`, `Put` what follows it |
| `BeginWrite`, `NestWrite`, `UnnestWrite`, `FinishWrite` | `write` under its re-entrant lock |
| `MarkClosed`, `CloseReaders`, `ReplacePool`, `CloseWriter` | `close`, in its order; threads that waited go on waiting on the `abandoned` queue |
| `Boot`, `StartScript`, `RunStatement`, `SetVersion`, `Seed` | `migrate` and `init_database`; a script is a number of statements, each creating one object and committed by itself |
| `EndProcess` | the process ends, after `close()` or without it: what is on disk is left |

A step that holds `_readers_lock`, one call of a queue, and the load of a field
that goes with it are atomic. An unused connection is opened under the least
free number, so that the connections of all processes are a few.

### FilterTree, FilterStore

| State / action | Code |
|---|---|
| `pruneGroup`, `finished`, `asGroup` | `useFilterStore.ts`: half-finished conditions are dropped, groups left empty with them |
| `parsed`, `Accepts`, `trim` | `nodes.py`: what is refused (depth, fields, operators, missing values), blank values, nested groups |
| `Finds`, `Matches`, `Rows` | what the compiled SQL finds of the rows, a row being the values each field answers to |
| `LookupOf`, `Mergeable`, `KindLost`, `LosesKind` | `_merge_key` and `_compile_or`: alternatives found by one subquery are appended to the first of them with `OR`, and about tags or categories they lose the kind (section 7) |
| `Holds` | what a tree says, with "or" as it is meant; `StoredAsDrawn` holds `Finds` against it |
| `search`, `chosen` | terms with their mode and fields; picks, menus, the advanced tree and the filter applied |
| `buildRequest`, `saveableFilterNode` | the tree of a request, with the terms beside it; the tree of a saved filter, with the terms inside it |
| `addTerms` ... `reset` | the actions of the store |
| `openBuilder`, `EditDraft`, `applyBuilder` | the dialog of the builder, node by node |
| `apply`, `saveCurrent`, `open`, `save`, `remove` | the bar's menu of saved filters and their page |

The rows are all combinations of what the fields can hold (of a text any set of
the values, of other fields at most one), so two trees match the same rows only
if they mean the same.

### LatestAnswer, UseAsync

| State / action | Code |
|---|---|
| `deps`, `nonce`, `SetDeps`, `reload` | the arguments of the last render, and `reload()` |
| `ran`, `latest`, `RunEffect` | the effect, which runs after the render, takes a token and calls |
| `calls`, `Serve` | the requests under way; the server reads what it answers with at some moment in between |
| `data`, `error`, `loading`, `Settle` | the three branches after the await: only the call of the latest token is listened to |
| `Remount` | the page is left; a new one has a token of its own |
| `now`, `posed` | history: the revision of what the server has, and that of the last call |

### Pages, Catalog and the pages

| State / action | Code |
|---|---|
| `catalog`, `Outcome` | the tables, and each handler as one transaction: the new tables, or a refusal that changes nothing (`null` and missing fields, blank and taken names, what is built in, ids used again) |
| `dialog`, `Open`, `Edit`, `Close` | the dialog of a page, opened from a row on screen as it was then |
| `saves`, `Save`, `Press` | saves and buttons under way, each a list of requests; `Press` is a removal, or the button that reclassifies |
| `Perform`, `Continue`, `Finish`, `Fail` | the server does a request; the next one is made; the last answer closes the dialog and reloads the list; a refusal or a lost answer ends it |
| `Other` | another tab changes the same data |
| `Turn`, `Reopen` | another domain, search or order; leaving the page |
| `RuleWrite`, `CategoryRule_from_dict`, `validated` | the three checks of a rule: the schema of the request (a whole number for the priority), what is understood of it, what must be left. `Priorities` are the numbers the dialog's box can hold, `Whole` those the schema takes |
| `reclassify`, `reclassifyStale` | the request marks every domain stale; polls of the ingestor classify them, a change by somebody else here |
| `mine` | history: the revision after the last change the page knows of |

`save` of each page module is the list of requests it makes: `PersonsPage`
creates or renames the person, then assigns what is ticked and unassigns what
was there when the dialog opened. Both sides cut blank rows out of a rule's lists;
`Picked` is that cut, by the positions kept and without recursion, so that it can
be proved about. `MCPages` has TLC compare it with `SelectSeq`.

### LogColumns, ProviderStatus, Settings

| State / action | Code |
|---|---|
| `columns`, `widths`, `storedColumns`, `storedWidths` | the states of the page and of `useColumnWidths`, and local storage |
| `drawn`, `pending`, `Draw` | React renders later than it is told: a handle remembers the width it asked for last |
| `grips`, `begin`, `move`, `end` | a handle is pressed, at any time, and goes on from the width on screen; it is pulled to any width until the pointer lets go, also when its column is hidden meanwhile, as the listeners are the window's. There is one pointer, and leaving the page ends the pull |
| `behind` | history: columns whose handle has not been told of their last width, because it was pressed before that width was drawn or a handle that is gone pulled the column |
| `provider`, `cached`, `probes`, `rebuilding` | `runtime.py`: a question waits on the network while the provider may be replaced; the close and the discovery are awaits of their own |
| `boot`, `prefs`, `stored`, `writes` | the start of the app; the store's preferences, those in SQLite, the requests that write them |
| `setAtOnce`, `updateSetting`, `AnsweredWrite`, `LostWrite` | a preference that is shown at once, or when the server has answered, who may correct it |
| `status`, `refreshes`, `refreshStatus`, `run` | the status in the store, asked for in a language; the buttons of the page |
| `Render`, `Call`, `Ask`, `ProbeAnswered` | the page's own use of the hook, with the language as its deps |
| `apart` | history: no two requests that write preferences, or ask for the status, overlapped and none was lost |

## 3. Runs

| Run | Shows |
|---|---|
| `logstore` | the type invariant; exact device counters; domain counters that never run low; truthful first/last-seen; per-minute totals; refinement of `QueryLog` |
| `ingest` | the type invariant; nothing at or below the horizon is skipped; the forward pass costs the delta; every record the log keeps is imported in the end, as long as unreadable records on top of the log leave the backfill a page |
| `classification` | the type invariant; after the last reload the engine is that of the stored rules; outside the gap the stamp is right; an automatic pass leaves the user's tags alone; stale domains drain once polls get through |
| `log_paging` | no row of an earlier filter once the spinner is off; with the file provider no gap in what is shown |
| `file_tail` | no unread line counts as consumed; appending is not taken for a rotation; a line that stays is stored in the end |
| `live_updates` | one channel at a time and none once stopped; the newest hint always arrives; a browser that stays started has the current lists in the end; queues of browsers that are gone are dropped |
| `database` | every connection is accounted for and none twice; a read runs under its own deadline; nothing is left open after `close()`; requests are served on a whole schema only |
| `filters` | what is saved finds what was shown; an applied filter narrows, whatever is picked beside it; the tree the server keeps finds what was drawn, unless alternatives about tags were merged |
| `pages` | a page at rest shows what it saved; saving a person moves only the devices that were touched; a rule the dialog lets through, with a whole number for its priority, is stored as drawn; columns survive a visit, and a key that is held moves them on unless the handle is behind its column; texts come in the language chosen; preferences settle on the server's values; a status of a replaced provider is gone after the TTL; refinement of `LatestAnswer` |
| `classification_gap`, `log_paging_api`, `log_paging_delta` | disagreements, section 7 |

The invariants `NoEmptyDomain` and `PoolTypeOK` and the action property
`HorizonNeverMovesBack` follow from proofs alone (section 6) and are not run.

Every property of a passing run has a mutant in `PROJECT.json`: an operator of
the module, next to the one it would replace and introduced by "As if", that
makes the mistake the property guards against; with it TLC finds the property
violated.

## 4. Bounds

* `logstore`: five records over two minutes, two names, two devices, four
  cut-offs. A cut-off can fall inside a minute and inside a second of one, two
  records share a time, `MaxRows = 2` makes a cleanup stop early, and one
  device can be forgotten so that a domain it shared keeps too high a counter.
  A record may be stored again after it was deleted; `MaxCount` cuts the
  counters that re-imports after a deletion would raise for ever.
* `ingest`: five records, two of them unreadable, the newest among them, one
  record to a page and three pages to a poll. A backlog of four exhausts the
  forward pass, and a second gap can open while the first is being walked.
  With one unreadable record on top of the log every poll spends a page on it,
  one on the record below, and has one left for the backfill, which then takes
  two polls for the two oldest; with two on top none is left, and the premise
  of `EventuallyImported` fails. The five have five times: that records of one
  nanosecond take no other along is `NothingIsSkipped`, proved for any times.
  Two cut-offs give a window that is enforced mid-poll. `MaxFailures = 1`
  bounds failed polls: one is enough for every point a poll can be lost at,
  since nothing of a lost poll survives.
* `log_paging`: three records of two devices and a filter that lets one device
  through, one row to a page and two to a delta, two reloads and two requests in
  flight. Three records on one-row pages put two further pages below the top
  row; two requests are enough for every pair of kinds to overtake each other,
  and the properties relate at most two. The two violation runs take four
  records and no failure. The page may stop for good once its bounded reloads
  are used up and the table is full, so deadlock is not checked there.
* `file_tail`: four lines, one unreadable, a chunk of a line and a half and two
  chunks to a poll, so that chunks and polls end inside a line and a third
  poll is needed for a full file; a fingerprint of a line and a half, so that
  there is content behind it; two inodes and two removals or truncations, so
  that a file can be replaced under its old inode, under the other one, and
  replaced again during a poll.
* `live_updates`: two connections, so that an old stream is still open on the
  server while the next one is, a queue of one event, so that the second one
  already drops something, two retries before polling, one import and two
  refreshes of one list in flight, so that they can overtake each other; one
  failed refresh. The lists of the reference data are refreshed independently
  of each other, so one of them is enough.
* `database`: four threads on a pool of two, so that two may wait, on the old
  and on the new pool; reads nested twice; five connections, as many as can be
  in use at once (those that `close()` has closed while threads hold them count);
  one version of three statements, so that a crash can fall before, between and
  after them.
* `classification*`: two domains, one shipped rule and one user's rule, one
  domain per batch, so that a stale domain is left for a later poll. Three
  revisions allow two handlers to be between commit and reload together.
  Before the run TLC evaluates two assumptions of `MCClassification`: that the
  engine gives what `Gives` says of these rules, and, on all sets of seven rules
  and on eight names, that it finds what the tester finds. Among them are rules
  that can be looked up, one that asks for all of two names, one on the
  registrable domain, one whose values are dots alone, a search of text beside a
  name, no condition at all, and dots at either end, under a suffix of two labels.
* `filters`: two text fields to search, one of which may be empty, a field of
  ids with a menu, and tags and categories, which share a table; two values,
  so that two picks become a group, a search has two terms, and a tag may have
  the name of a category. The builder chooses among `BuilderFields`, the
  domain and the tag; a row has one category and one answer at most. Before
  the run TLC evaluates that merged tags do find categories. `MaxWeight = 3`
  bounds terms, picks and nodes together: enough for a group within a group, a
  negation of a group, two alternatives about tags, and a tree beside a term
  and a pick. One saved filter is enough to update, to delete and to use
  again.
* `pages`: two people, two devices, two tags, one rule and one that is added,
  two conditions and two tags on a rule. Each page is checked with the bounds
  of `MCPages` that its property needs: `persons` with three changes by others
  or itself, so that a device moves between the requests of one save; `tags`
  with two saves, so that they overtake each other; `rules` with two edits of
  a draft, whose priority may become one that is no whole number, and domains
  that wait to be classified. `MaxRuns = 2` calls of the hook may overlap. The
  columns are one shown and one to be added, with widths from the least to two
  steps above the layout's, to any of which a handle may be pulled. `settings`
  is checked in two behaviours: two changes of two preferences, one of which
  the server corrects, without a clock; and a clock of three ticks, one longer
  than the TTL, with two providers.

No symmetry is used: records have times, and domains have different tags.

## 5. Fairness

* `FairIngestSpec`: `WF_vars(Poll)`. `Ingestor._run` sleeps with a timeout and
  an exception does not end the loop, so a poll that is due starts; a request is
  given up after a timeout, so a poll that has started goes on or fails. Nothing
  is assumed of AdGuard, cleanups or the user, beyond finitely many failures,
  and the property says nothing if the import stays switched off, or if the
  unreadable records newer than every readable one fill all the pages of a poll
  but one (`BudgetLeft`): the code then starves the backfill (section 7).
* `FairTailSpec`: `WF_vars(Poll)`, by the same loop; reading a file ends.
* `FairClassificationSpec`: `WF_vars(ReclassifyStale)`, enabled while polls get
  through; the property assumes that they do for good from some time on.
  Nothing is assumed of the reload: the drain is about the revision.
* `FairLiveSpec`: weak fairness of the generator's steps (its `get` has a
  timeout), of the backstop (an interval that is never cleared while updates are
  started), of the end of a cool-down and of the answers to refreshes. Nothing
  is assumed of the stream: it may stay refused for ever.

`filters`, `pages`, `log_paging` and `database` check safety only and assume no
fairness: a request may never be answered.

## 6. What is proved

### LogStore

`LogStoreProofs`, for any sets of records, names, clients and cut-offs, any
times, any budget and any bound:

| Theorem | States |
|---|---|
| `TypeCorrect` | `StoreSpec => []TypeOK` |
| `ClientCountersStayExact` | `StoreSpec => []ClientCountersExact` |
| `DomainCountersStayCovering` | `StoreSpec => []DomainCountersCover` |
| `NoDomainIsEmpty` | `StoreSpec => []NoEmptyDomain` |
| `DomainSeenStaysTruthful` | `StoreSpec => []DomainSeenTruthful` |
| `MinutesStayCovering` | `StoreSpec => []MinutesCover` |
| `StoreImplementsQueryLog` | `StoreSpec => ImplementsQueryLog` |

from `RecordAssumption` and `StoreAssumption` alone (finitely many records,
times are naturals, the rest is typing).

The inductive invariant is `IInv == TypeOK /\ ClientCountersExact /\
DomainCountersCover`. None of the three is inductive alone: a cleanup prunes
what its counter says is empty, and the cascade would break `TypeOK`'s
referential part and the counters of the other table if a counter could be zero
while queries are left. The key lemma is `PruningTakesNothing`: under the
invariant, the domains and clients pruned at zero have no query left after the
deletion, so the cascade is empty and the log after a cleanup is the log without
the deleted rows. From it follow both the invariance of the counters and the
refinement: a cleanup is `Expire`, a deletion `Forget`, an import `Import`, and
the naming of devices a stutter. Lemmas on cardinality (a set and the part of it
removed or added) carry the arithmetic.

`DomainSeenTruthful` and `MinutesCover` are each inductive beside `IInv`. A
cleanup refreshes the first-seen time and never looks at the last: this is right
because it takes the oldest, so that of a domain that keeps a query the newest
is kept (`NewestIsLeft`); and it clears the buckets before the second of its
cut-off, which are those of minutes that started before it (`BucketStartsBefore`),
wherever in the minute the cut-off falls and however early the run stopped.

### ApiIngest

`ApiIngestProofs`, for any records, times and cut-offs, any page size and any
budget from one page up:

| Theorem | States |
|---|---|
| `TypeCorrect` | `IngestSpec => []TypeOK` |
| `NothingIsSkipped` | `IngestSpec => []NothingSkipped` |
| `ForwardCostStaysDelta` | `IngestSpec => []ForwardCostIsDelta` |
| `HorizonOnlyRises` | `IngestSpec => HorizonNeverMovesBack` |

`NothingSkipped` speaks of the stored checkpoint, which only `Write` replaces,
so its proof is about the poll in flight. The inductive invariant adds
`PollIsSane` (the locals lie where the code's order of assignments puts them),
`ForwardReadsAll` (while the forward pass goes on, every record owed between
where it stands and where it began is in the batch), `PollSkipsNothing` (what
`NothingSkipped` says, of the next checkpoint and the batch in place of the
stored ones) and `PagesAreDelta` (the pages read so far held only records of the
delta). `Write` then turns `PollSkipsNothing` into `NothingSkipped`. The
invariant was checked by TLC on the instance of `ingest` before it was proved.

### FileTail

`FileTailProofs`, for any lines, inodes and floors, any sizes of chunk, fingerprint
and page, and any bounds:

| Theorem | States |
|---|---|
| `NothingIsPassedOver` | `TailSpec => []NothingPassedOver` |
| `AppendingNeverRotates` | `TailSpec => AppendingIsNoRotation` |

The invariant follows a poll from the checkpoint to the next. `CheckpointCounts`
says what an offset with its fingerprint promises of a file that may have been
replaced since: if it still begins as the file that was read, its first bytes up
to the offset are whole lines, and stored. `ReadingCounts` says the same of the
offset a poll has got to, with its batch, and that the part of a line it holds is
what lies between that offset and its position; `WriteCounts` of the checkpoint it
is about to write. `FilesLined` (a file is lines, in order, the last perhaps half
written) makes these survive the growth of the file under the poll, and
`GrownIsTheSame`, that the fingerprint is one of the file as it was, is what
`AppendingIsNoRotation` needs. The lemma `WholeLinesAreParsed` shows that a chunk
cut anywhere yields exactly the lines that end in it.

### LogPaging

`LogPagingProofs`, for any finite set of records, any filters and devices, any
sizes of a page and of a delta, and any number of requests in flight, answered
and taken in any order:

| Theorem | States |
|---|---|
| `RowsAlwaysMatchFilter` | `PagingSpec => []RowsMatchFilter` |
| `ThereIsNoGap` | `PagingSpec => []NoGap` |

from `PagingAssumption` alone (finitely many records, named by naturals; a page
and a delta have at least one row).

`Filtered` is inductive by itself. A wanted request is for what the page shows
(`WantedIsCurrent`: its token is that of the last reload, and a filter changes
with the token only), at most one reload or further page is wanted and the
spinner tells of it (`OnePageAtATime`), and an answer passes the filter of its
request (`ItemsMatch`); so the rows pass the filter once no reload is wanted
(`RowsAreOfTheFilter`), whether or not the spinner is on.

`Gapless` is inductive beside it. The page cuts by id and sorts by time, so
everything rests on `IdsFollowTime`: with the file provider, and while no id was
given twice, there is one assignment of ids to all that ever arrived that agrees
with the table and with every row that was answered, and rises with time. The
rows of deleted records need it too, as requests go on starting at them.
`AnswersAreWhole` says of an answer that was not taken yet that it lacks nothing
of what is *still* stored between its ends: what it lacks was beyond its limit
and is older than its last row, or came since and is newer than its first. A
further page, cut from above, lacks nothing that came since. `RowsAreWhole` says
the same of the rows on screen and `RequestsStartAtRows` that what is asked for
begins at one of them, the further page at the last. Then a further page fits
below: every row of it is older than the last row, so none is on screen already.
A delta fits on top although a delta before it may have brought part of it: a
stored record of the delta that is not newer than some row would be on screen by
`RowsAreWhole`, under its own id, and would have been left out.

`clean` cannot be dropped from it: a delta that was cut (`log_paging_delta` shows
one), or that is taken after a reload it was asked for before, breaks
`RowsAreWhole`.

### Classification

`ClassificationProofs`, for any domains, tags and rules, whatever the rules
give, and any bounds:

| Theorem | States |
|---|---|
| `TypeCorrect` | `ClassificationSpec => []TypeOK` |
| `EngineStaysInStep` | `ClassificationSpec => []EngineFollowsRules` |
| `StampsAreRightOutsideTheGap` | `ClassificationSpec => []StampIsRightOutsideTheGap` |
| `ManualTagsAlwaysSurvive` | `ClassificationSpec => ManualTagsSurvive` |
| `LookupsAreSound` | for any rules and any name, `_classify_uncached` gives the tags of the rules `explain` names |
| `EngineGivesTheTags` | where `Gives` is what a matching rule gives, `Classify` is what the engine of those rules answers |

The stamps are right only as long as no domain carries a revision that is yet
to come, so the inductive invariant adds `RevisionsArePast`: stamps are at most
the stored revision, and every handler between its commit and its reload has
raised it once.

The theorems about `RuleEngine` need no state. What a name and its parents have
to do with `is_subdomain_of` is `ParentsAreSuffixes`, for names and values with
dots anywhere: the parents of a name are the names it is a subdomain of. A value
of dots alone has no key and matches nothing; a rule is in the scan or, under each
of its keys, in an index, never in both; and a rule in an index asks for any of its
conditions, so that one key is enough.

### LiveUpdates

`LiveUpdatesProofs`, for any connections and lists, and any size of the queues:

| Theorem | States |
|---|---|
| `OneChannelAtATime` | `LiveSpec => []OneChannel` |
| `TheNewestArrives` | `LiveSpec => []NewestArrives` |

`OneChannel` counts; its inductive form `ChannelOfItsOwn` says which channel goes
with which flags, and `ConnectionOfItsOwn` that a connection not given up is the
one the browser has. `NewestArrives` speaks of a drained stream. `NewsOnItsWay`
is what holds before: an import the browser was not told of is in the outbox, in
its queue or on the wire, since a full queue drops its oldest event and never the
one just put, and a greeting is told from an event.

### Database

`DatabaseProofs`, for any threads and connections, any size of the pool, any
depth of nesting and any migrations:

| Theorem | States |
|---|---|
| `TypeCorrect` | `DatabaseSpec => []PoolTypeOK` |
| `ReadersAlwaysAccounted` | `DatabaseSpec => []ReadersAccounted` |
| `DeadlinesAreOfTheRead` | `DatabaseSpec => []DeadlineIsOfTheRead` |
| `NothingEverLeaks` | `DatabaseSpec => []NothingLeaks` |
| `OnlyWholeSchemasServe` | `DatabaseSpec => []ServesWholeSchema` |

The invariant `PoolInv` has five parts that need each other: `Wired` (what a
thread has goes with where it is), `Apart` (no connection is in two places, the
abandoned pool included), `Counted` (the list of readers bounds what is open,
and is what is open until `close()`), `Deadlines`, and `ClosingDown`. The last
is what `NothingLeaks` needs in between: once the readers are closed, whatever
is open was opened since, by a thread that has yet to find the database closed.
`Kinds` sorts the steps by what they do to connections, so that each part is
proved once per kind. `Started` adds that what is on disk is a prefix of the
scripts, beyond the stored version by what the script under way has run; a start
that was cut short leaves more than the version says (section 7), never less.

### Pages, Settings, LogColumns and the hook

`PagesProofs`, for any screens, questions, devices, tags, rules and preferences,
any number of calls, saves and other tabs' changes:

| Theorem | States |
|---|---|
| `HookInvariant` | `HookSpec => []HookInv` |
| `HookImplements` | `HookSpec => ImplementsLatestAnswer` |
| `ShowsTheLatest` | `HookSpec => []Latest!Current` |
| `ShownNeverOlder` | `HookSpec => Latest!NeverOlder` |
| `PagesImplementLatestAnswer` | `Spec => ImplementsLatestAnswer` |
| `OwnChangesAreShown` | `Spec => []ShowsOwnChanges` |
| `UntouchedDevicesStay` | `Spec => []OnlyTouchedDevicesMove` |
| `DrawnRulesAreStored` | `Spec => []RulesReachTheServer` |
| `ColumnsAreFoundAgain` | `Spec => []ArrangementSurvives` |
| `HeldKeysMoveOn` | `Spec => HeldKeyMovesOn` |
| `TheBackendSpeaksTheLanguage` | `Spec => []BackendSpeaksTheLanguage` |
| `ThePreferencesSettle` | `Spec => []PreferencesSettle` |
| `StatusesAreShortLived` | `Spec => []StaleStatusIsShortLived` |

The hook is proved about once, for the steps `HookMove` that it makes whatever
its answers hold; `PagesMoveTheHook` and `SettingsMoveTheHook` show that every
step of a page is one of these or leaves it alone. In `HookInv` the spinner
stands for "waiting" of the refinement, so it has to be known that it turns
exactly while the call of the latest token is out (`SpinnerIsTheLatestCall`);
that the answer of this call is to the last question, and not older than it, is
`LatestIsCurrent`, that there is only one such call is `OneCallPerToken`, and
`AnswersArePast` and `RestShowsTheLatest` say of the data on screen what
`Latest!Current` and `Latest!NeverOlder` need. A late answer is then a stutter,
a render or a reload too, and the effect is a new question.

`PagesInv` joins `HookInv` with what the screens need:

* `SavesAreShown`: a question posed since the last reload was posed after every
  save the page took for done. With `RestShowsTheLatest` it gives
  `ShowsOwnChanges`.
* `PersonsInv`: a box is touched when it differs from what the dialog was opened
  with, so the requests made from a dialog name touched devices only, and
  `OnlyNamedDevicesMove` says that the server moves no others.
* `RulesInv`: the catalog, whatever was or will be answered with it, and the
  draft in the dialog hold rules of the server's operators and kinds of tags, in
  lists of any length; and a save that is out is the request of one draft the
  page let through. Page and server cut the lists each in its own way, so the
  work is in the lemmas: what `Picked` cuts is a list of what the set promises
  (`PickedItems`), a request has no blank row left (`SentRule`), so the server's
  own cut takes everything (`PickedAll`) and changes nothing (`SentRuleIsKept`).
  `patchCondition` is what keeps the dialog's name of an operator from reaching
  the server. A priority of zero is the default on both sides, so the server
  keeps the one that was drawn (`RanksOfNumbers`); that it is a whole number
  nothing on the page ensures, and it is a premise of the property.
* `ColumnsInv`: a handle that is not behind its column has its width, or is yet
  to ask and the width is on screen (`HandlesKeepUp`). Without it a held key
  could start from a width that is not drawn yet, which is what it does after a
  press before the draw: such columns are `behind` until their handle asks
  again, or until the width it would read is drawn.
* `SettingsInv`: while the store's requests stay apart there is one write at a
  time, and the store has what the server keeps, or will keep with that write
  (`OneWriteAtATime`); what the page shows of the server is what the server has
  unless a write was made that will reload it (`PageTellsStored`); a refresh
  speaks the chosen language; and the status a call was answered with was asked
  for less than the TTL before, or after the call was made (`StatusesAreFresh`,
  from `ProbesFollowTheirCalls`).

The assumptions on the constants are those the code gives: row ids are positive,
a screen's questions are questions, other tabs make requests the API has, the
columns shown by default are columns, the operators the dialog offers are operators
of the server, the rules stored at the start and those other tabs send are rules
of these operators, the TTL is positive, and a preference that
is set at once is one the server's validation keeps as it is
(`settings_service.py`, `_validate`).

### Checked first

Every inductive invariant was checked by TLC on the instance of its run before it
was proved, `PagesInv` on all of the 4.2 million states of `pages`.

### Only model-checked

* Liveness under fairness (`EventuallyImported`, `StaleDomainsDrain`,
  `EventuallyStored`, `EventuallyCurrent`, `SubscribersDrain`) and `ENABLED` are
  out of the prover's reach.
* The three properties of `FilterStore` (`SavedMeansShown`, `AppliedFilterNarrows`,
  `StoredAsDrawn`) compare what recursive walks of `FilterTree` make of the same
  tree: pruning, parsing, matching. That these agree on every
  tree is an induction over its depth, and the library's theorems of induction
  cannot be instantiated by the provers here. `SavedMeansShown` moreover holds
  within the bounds of the run only: saving nests a tree one level deeper, and
  beyond the backend's depth the filter is refused (section 7).

## 7. Disagreements between the code and what it says

Shown by a run:

1. **A domain classified with old rules under the new revision**
   (`classification_gap`, `api/rules.py:46`). Between the commit of a rule
   change and the reload of the engine, the ingest loop stamps domains with the
   new revision and the old engine's tags; nothing finds them stale afterwards.
2. **The end of the page is not the end of the log** (`log_paging_api`,
   `frontend/src/pages/LogPage.tsx:117`). Further pages are cut by id and sorted
   by time, but the API provider stores the newest record of a batch first: the
   older ones have higher ids than the last row and are never asked for.
3. **A delta leaves a hole** (`log_paging_delta`,
   `frontend/src/pages/LogPage.tsx:146`). More than 200 new rows: the newest 200
   go on top, and nothing ever asks for those between them and the old top.

Met while modelling, without a run of their own:

* The backfill can starve (`ingest/api_provider.py:279`), against "every historical
  record should eventually be imported" (`tests/test_ingest.py:223`). It runs only
  when the forward pass has left a page of the budget. With a budget of one page
  it never does, so a backlog longer than a page is never imported. With a larger
  one it does not while unreadable records newer than every readable one fill all
  pages but one: they never move the horizon (`api_provider.py:245`), so each poll
  reads them again, and one page more to reach what it knows. `BudgetLeft` is the
  premise that excludes both; without it TLC finds the violation in the instance
  of `ingest`.
* Two alternatives about tags find categories (`filters/sql_builder.py:258`). The
  subquery of the tags ends in `WHERE t.kind = 'tag' AND ` (`filters/fields.py:101`),
  and `_compile_or` appends further alternatives with a bare `OR`, which takes
  them out of the condition on the kind: "tag is a or tag is b" also finds
  queries whose domain has the *category* b, as names are unique per kind only
  (`db/migrations.py:59`). This goes against "A tag applied to the domain by a rule
  or by hand" (`filters/fields.py:150`), and `_merge_key` presents the merging as a
  matter of speed (`sql_builder.py:197`). The same holds of categories. A filter
  list of several tags is one condition (`in`), which is right. `Finds` has this
  behaviour, `StoredAsDrawn` leaves such trees out (`LosesKind`), and
  `MergedTagsFindCategories` in `MCFilterStore` has TLC evaluate it.
* The dialog of a rule lets a priority through that is no whole number
  (`RulesPage.tsx:335`), which `RuleWrite.priority: int` (`schemas/entities.py:84`)
  refuses; the user sees an error, and nothing is stored.
* A handle pressed before its column's last width was drawn takes the older
  width from the screen (`QueryTable.tsx:226`), so the next arrow key steps from
  there, which the comment on `pending` (`QueryTable.tsx:207`) means to prevent. A
  column hidden and shown again while its handle is pulled goes on following the
  pointer, and its new handle is not told. `HeldKeyMovesOn` excepts the columns
  this has happened to until their handle asks for a width again.
* A migration is not one transaction (`db/migrations.py:162`): `executescript`
  commits what `migrate` has begun, so a process that dies inside the script
  leaves tables without their version and each later start fails at the first
  `CREATE TABLE`, against "inside one transaction" (`db/migrations.py:3`). `Startup`
  has this behaviour, and `ServesWholeSchema` holds with it: such an installation
  does not serve anything.
* The builder lets a "not" group have several children, and a value of blanks
  passes `pruneGroup`; the backend refuses both, though `useFilterStore.ts:154`
  says it never sees an invalid tree. `FilterStore` has these trees, and its
  properties speak of accepted ones.
* A saved filter whose conditions were all removed is sent as `null`, which the
  server takes for "unchanged" and answers as if it had been saved. Applying and
  saving again may nest a tree up to the limit of the backend's depth.
* "Anything the user adds sits alongside it and wins at equal priority"
  (`RulesPage.tsx:6`): no rule wins. A domain gets the tags of every rule that
  matches, and the priority orders the tags only, the shipped rules first where
  it is equal (`rules_service.py:78`). `RuleEngine` has tags as sets for this reason.
* `DomainDetailPage` is not mounted anew when the address changes: a dialog
  opened on one domain may save for the next, until the new data is there.
* `PersonsPage.save` may fail after the person was created; trying again is
  refused because the name is taken. It unassigns from the list the dialog was
  opened on, and the editor of a device sends the person of that list along.
  A slow save that ends closes whichever dialog is open then.
* Two answers to changes of settings may arrive in the wrong order and put an
  older value back (`useAppStore.ts`); status requests of the store are not
  ordered either. `PreferencesSettle` and `BackendSpeaksTheLanguage` therefore
  speak of requests that did not overlap.
* A selection without columns is loaded as the default columns, and resetting the
  columns leaves what a handle remembers.
* In `runtime.py` a question answered late fills the cache with the status of the
  provider before (`StaleStatusIsShortLived` bounds this), closing the client
  makes a question or a poll under way fail, and two reconnects at once leave a
  provider open.
* A device that is forgotten while a poll has its records in hand, or before the
  backfill reaches them, comes back with them; `ApiIngest` has this behaviour, and
  its properties leave such records out, as no document promises otherwise. An
  id used again after the newest record was deleted hides a row from a page that
  shows the old one (`db/migrations.py:71`); a page loaded empty has no top row to
  ask from (`LogPage.tsx:138`).

## 8. What is not modelled

* Read-only statistics (`dashboard_service`, `domain_service`, the read paths of
  `device_service`): SQL over tables `LogStore` models, without state.
* The AdGuard HTTP client, discovery and DNS wire decoding: I/O and parsing;
  what matters of them (an answer, an unreadable record, a failure) is in
  `ApiIngest`.
* The look of the user interface, the catalogs of texts and the add-on's
  packaging: presentation.
* `LogPaging`: the total, the badge of new rows, the columns and the detail
  pane. A handler is taken to see the state of the last render.
* `FileTail`: the parsing of a line (it is readable or not), the status probe,
  and `more_available`, which only makes the next sleep shorter.
* `RuleEngine`: the characters of a name, upper case and blanks, the order of the
  tags, the caches of answers and of compiled expressions, and the trial of a
  draft, which is an engine of one rule.
* `LiveUpdates`: theme, language and the other preferences of the store, and the
  badge counts of an event.
* `FilterStore`: the range and the sort order, which go beside the tree; names of
  saved filters; the SQL text and the operators on times and numbers, which are a
  condition's meaning. A save is one
  step, since `Pages` has what comes between a request and its answer.
* `Pages`: banners, colours, notes, descriptions, a rule's match mode and its
  trial, and the refreshes of the store's lists, whose races are in `LiveUpdates`.
  The list pages of the log, the dashboard and the domains only read.
* `Settings`: the options of the add-on, preferences changed in another tab, and
  leaving the page with requests under way; the store's status request is
  answered without a question to the provider.
* `ProviderStatus`: what AdGuard answers, the shutdown, and a poll that uses a
  closed client.
* `Database`: `REGEXP` and its cache, `vacuum`, the file's size, the in-memory
  database, and what a transaction writes. There is no clock: a read may be
  interrupted, and a wait given up, whenever the code allows it at all.
* Within the modelled parts: a failed transaction is no step (rolled back);
  SQLite itself is trusted to be serialisable and to enforce foreign keys.

## 9. Plan

Next, most important first:

1. `Dashboard` - the statistics as operators over the tables of `LogStore`,
   against the definition on `queries`.
