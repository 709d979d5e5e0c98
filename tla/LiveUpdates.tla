---------------------------- MODULE LiveUpdates ----------------------------
(***************************************************************************)
(* How the browser learns that the log has changed: the event bus          *)
(* (services/events.py), the stream (api/stream.py) and the connection the *)
(* browser keeps (frontend/src/stores/liveUpdates.ts).                     *)
(*                                                                         *)
(* An event is only a hint.  It carries which of the reference lists have  *)
(* news; the browser then asks for rows and lists itself.  Events are lost *)
(* while the browser reconnects, dropped when it is slow, and swallowed    *)
(* within a cool-down; polling and a backstop timer make up for them.      *)
(***************************************************************************)
EXTENDS Integers, SequencesExt

CONSTANTS
  Conn,          \* connections, used again when both ends are done with them
  List,          \* the reference lists: devices (with persons) and tags
  QueueSize,     \* QUEUE_SIZE
  MaxAttempts,   \* MAX_ATTEMPTS
  MaxImports,    \* bound on the imports
  MaxRequests,   \* bound on the refreshes of a list that are under way
  MaxFailures    \* bound on the refreshes that fail

ASSUME LiveAssumption ==
  /\ Conn \subseteq Nat \ {0}
  /\ QueueSize \in Nat \ {0}
  /\ MaxAttempts \in Nat \ {0}
  /\ MaxImports \in Nat /\ MaxRequests \in Nat \ {0} /\ MaxFailures \in Nat

VARIABLES
  imports,    \* how many imports the log has seen
  known,      \* [List -> Nat]: the imports that changed a list
  outbox,     \* the event of an import that is committed and not published
  generator,  \* [Conn -> where the stream's generator is]
  queue,      \* [Conn -> sequence of events]: the subscriber's queue
  net,        \* [Conn -> state of the connection]
  wire,       \* [Conn -> sequence of messages]
  running,    \* the page wants live updates
  source,     \* the EventSource
  connected,  \* streamConnected
  mode,       \* streamMode
  attempts,   \* failed attempts to connect in a row
  retryTimer, \* a retry is due
  pollTimer,  \* the polling fallback is on
  backstop,   \* the backstop interval is set
  cool,       \* [List -> BOOLEAN]: the list was refreshed a moment ago
  shown,      \* [List -> Nat]: what the browser has of the list
  refreshes,  \* [List -> sequence]: refreshes under way, Asked or the answer
  told,       \* the imports up to which the log page was told to fetch rows
  since,      \* history: [Conn -> Nat], the imports when it was subscribed
  failures    \* how many refreshes failed

data == <<imports, known, outbox>>
streams == <<generator, queue, since>>
links == <<net, wire>>
channel == <<running, source, connected, mode, attempts, retryTimer, pollTimer, backstop>>
lists == <<cool, shown, refreshes, told, failures>>
vars == <<data, streams, links, channel, lists>>

None == 0
Asked == -1
Hello == [hello |-> TRUE, news |-> {}]
Event(news) == [hello |-> FALSE, news |-> news]

Subscribed == {c \in Conn : generator[c] # "none"}

-----------------------------------------------------------------------------
(* The server.                                                             *)

\* A poll has stored new records, perhaps of clients or domains not seen
\* before, and is about to publish that; or a cleanup is.
Import(news) ==
  /\ outbox = <<>>
  /\ imports < MaxImports
  /\ imports' = imports + 1
  /\ known' = [l \in List |-> IF l \in news THEN imports + 1 ELSE known[l]]
  /\ outbox' = <<Event(news)>>
  /\ UNCHANGED <<streams, links, channel, lists>>

Cleanup ==
  /\ outbox = <<>>
  /\ outbox' = <<Event({})>>
  /\ UNCHANGED <<imports, known, streams, links, channel, lists>>

\* As if a full queue was only relieved of its oldest event.
PutOrDrop(q, event) == IF Len(q) = QueueSize THEN Tail(q) ELSE Append(q, event)

\* A full queue loses its oldest event.
Put(q, event) == Append(IF Len(q) = QueueSize THEN Tail(q) ELSE q, event)

Publish ==
  /\ outbox # <<>>
  /\ queue' = [c \in Conn |->
       IF c \in Subscribed THEN Put(queue[c], outbox[1]) ELSE queue[c]]
  /\ outbox' = <<>>
  /\ UNCHANGED <<imports, known, generator, since, links, channel, lists>>

\* The generator of a stream: it subscribes and says hello ...
Accept(c) ==
  /\ net[c] = "requested" /\ generator[c] = "none"
  /\ net' = [net EXCEPT ![c] = "open"]
  /\ generator' = [generator EXCEPT ![c] = "check"]
  /\ wire' = [wire EXCEPT ![c] = <<Hello>>]
  /\ since' = [since EXCEPT ![c] = imports]
  /\ UNCHANGED <<data, queue, channel, lists>>

\* As if the generator did not ask whether the browser is still there.
CheckNothing(c) ==
  /\ generator[c] = "check"
  /\ generator' = [generator EXCEPT ![c] = "wait"]
  /\ UNCHANGED <<data, queue, since, links, channel, lists>>

\* ... looks whether the browser is still there ...
Check(c) ==
  /\ generator[c] = "check"
  /\ IF net[c] = "closed"
     THEN /\ generator' = [generator EXCEPT ![c] = "none"]
          /\ queue' = [queue EXCEPT ![c] = <<>>]
          /\ net' = [net EXCEPT ![c] = "free"]
          /\ since' = [since EXCEPT ![c] = 0]
     ELSE /\ generator' = [generator EXCEPT ![c] = "wait"]
          /\ UNCHANGED <<queue, net, since>>
  /\ UNCHANGED <<data, wire, channel, lists>>

\* ... and waits for an event, but not for long.
Take(c) ==
  /\ generator[c] = "wait" /\ queue[c] # <<>>
  /\ net[c] = "open" => wire[c] = <<>>
  /\ queue' = [queue EXCEPT ![c] = Tail(@)]
  /\ wire' = [wire EXCEPT ![c] = IF net[c] = "open" THEN <<queue[c][1]>> ELSE <<>>]
  /\ generator' = [generator EXCEPT ![c] = "check"]
  /\ UNCHANGED <<data, since, net, channel, lists>>

KeepAlive(c) ==
  /\ generator[c] = "wait" /\ queue[c] = <<>>
  /\ generator' = [generator EXCEPT ![c] = "check"]
  /\ UNCHANGED <<data, queue, since, links, channel, lists>>

\* The add-on is restarted: subscribers and the event about to be published
\* are gone, and the connections with them.
Restart ==
  /\ outbox' = <<>>
  /\ generator' = [c \in Conn |-> "none"]
  /\ queue' = [c \in Conn |-> <<>>]
  /\ net' = [c \in Conn |-> IF c = source THEN "closed" ELSE "free"]
  /\ wire' = [c \in Conn |-> <<>>]
  /\ since' = [c \in Conn |-> 0]
  /\ UNCHANGED <<imports, known, channel, lists>>

-----------------------------------------------------------------------------
(* What an event sets off in the browser.                                  *)

\* The lists that are refreshed: those with news, unless they were a moment ago.
Due(news) == {l \in news : ~ cool[l]}

\* An event is published to the page: rows are fetched, lists refreshed.
React(news) ==
  /\ told' = imports
  /\ cool' = [l \in List |-> cool[l] \/ l \in Due(news)]
  /\ refreshes' = [l \in List |->
       IF l \in Due(news) THEN Append(refreshes[l], Asked) ELSE refreshes[l]]

\* The bound on the refreshes stands here: the cool-down is over only when there
\* is room for another one.
CoolDownOver(l) ==
  /\ cool[l] /\ Len(refreshes[l]) < MaxRequests
  /\ cool' = [cool EXCEPT ![l] = FALSE]
  /\ UNCHANGED <<data, streams, links, channel, shown, refreshes, told, failures>>

AnswerRefresh(l, k) ==
  /\ refreshes[l][k] = Asked
  /\ refreshes' = [refreshes EXCEPT ![l][k] = known[l]]
  /\ UNCHANGED <<data, streams, links, channel, cool, shown, told, failures>>

\* Answers are taken in the order they arrive, whichever was asked for last.
TakeRefresh(l, k) ==
  /\ refreshes[l][k] # Asked
  /\ shown' = [shown EXCEPT ![l] = refreshes[l][k]]
  /\ refreshes' = [refreshes EXCEPT ![l] = RemoveAt(@, k)]
  /\ UNCHANGED <<data, streams, links, channel, cool, told, failures>>

FailRefresh(l, k) ==
  /\ failures < MaxFailures
  /\ failures' = failures + 1
  /\ refreshes' = [refreshes EXCEPT ![l] = RemoveAt(@, k)]
  /\ UNCHANGED <<data, streams, links, channel, cool, shown, told>>

-----------------------------------------------------------------------------
(* The connection.                                                         *)

Free == {c \in Conn : net[c] = "free" /\ generator[c] = "none"}

\* connect(): a new EventSource, on the first connection nobody uses.
Connect(c) ==
  /\ c \in Free /\ \A d \in Free : c <= d
  /\ net' = [net EXCEPT ![c] = "requested"]
  /\ source' = c
  /\ mode' = "stream"

\* What becomes of a connection the browser gives up: the server notices when
\* it next looks, if it ever heard of it.
Closed(c) == IF generator[c] = "none" THEN "free" ELSE "closed"

Start(c) ==
  /\ ~ running
  /\ running' = TRUE
  /\ attempts' = 0
  /\ Connect(c)
  /\ backstop' = TRUE
  /\ UNCHANGED <<data, streams, wire, connected, retryTimer, pollTimer, lists>>

\* As if the timers went on when live updates are stopped.
StopSource ==
  /\ running
  /\ running' = FALSE
  /\ source' = None
  /\ net' = [c \in Conn |-> IF c = source THEN Closed(c) ELSE net[c]]
  /\ wire' = [c \in Conn |-> IF c = source THEN <<>> ELSE wire[c]]
  /\ backstop' = FALSE
  /\ connected' = FALSE /\ mode' = "off"
  /\ UNCHANGED <<data, streams, attempts, retryTimer, pollTimer, lists>>

Stop ==
  /\ running
  /\ running' = FALSE
  /\ source' = None
  /\ net' = [c \in Conn |-> IF c = source THEN Closed(c) ELSE net[c]]
  /\ wire' = [c \in Conn |-> IF c = source THEN <<>> ELSE wire[c]]
  /\ retryTimer' = FALSE /\ pollTimer' = FALSE /\ backstop' = FALSE
  /\ connected' = FALSE /\ mode' = "off"
  /\ UNCHANGED <<data, streams, attempts, lists>>

\* The connection opens, or brings an event.
Receive(c) ==
  /\ source = c /\ wire[c] # <<>>
  /\ wire' = [wire EXCEPT ![c] = Tail(@)]
  /\ IF wire[c][1].hello
     THEN /\ attempts' = 0 /\ connected' = TRUE
          /\ UNCHANGED lists
     ELSE /\ React(wire[c][1].news)
          /\ UNCHANGED <<attempts, connected, shown, failures>>
  /\ UNCHANGED <<data, streams, net, running, source, mode, retryTimer, pollTimer,
                 backstop>>

\* The connection cannot be made or is lost: another attempt, or polling.
Error(c) ==
  /\ source = c
  /\ connected' = FALSE
  /\ source' = None
  /\ net' = [net EXCEPT ![c] = Closed(c)]
  /\ wire' = [wire EXCEPT ![c] = <<>>]
  /\ attempts' = attempts + 1
  /\ IF attempts + 1 >= MaxAttempts
     THEN pollTimer' = TRUE /\ mode' = "poll" /\ UNCHANGED retryTimer
     ELSE retryTimer' = TRUE /\ UNCHANGED <<pollTimer, mode>>
  /\ UNCHANGED <<data, streams, running, backstop, lists>>

RetryFires(c) ==
  /\ retryTimer /\ running
  /\ retryTimer' = FALSE
  /\ Connect(c)
  /\ UNCHANGED <<data, streams, wire, running, connected, attempts, pollTimer, backstop,
                 lists>>

PollFires ==
  /\ pollTimer
  /\ React(List)
  /\ UNCHANGED <<data, streams, links, channel, shown, failures>>

\* As if the backstop was a timeout instead of an interval.
BackstopFiresOnce ==
  /\ backstop
  /\ React(List)
  /\ backstop' = FALSE
  /\ UNCHANGED <<data, streams, links, running, source, connected, mode, attempts,
                 retryTimer, pollTimer, shown, failures>>

\* The interval has passed, or the user has come back to the tab.
BackstopFires ==
  /\ backstop
  /\ React(List)
  /\ UNCHANGED <<data, streams, links, channel, shown, failures>>

-----------------------------------------------------------------------------
\* The page is loaded, with the lists as they were then.
Init ==
  /\ imports = 0 /\ known = [l \in List |-> 0] /\ outbox = <<>>
  /\ generator = [c \in Conn |-> "none"] /\ queue = [c \in Conn |-> <<>>]
  /\ net = [c \in Conn |-> "free"] /\ wire = [c \in Conn |-> <<>>]
  /\ running = FALSE /\ source = None /\ connected = FALSE /\ mode = "off"
  /\ attempts = 0 /\ retryTimer = FALSE /\ pollTimer = FALSE /\ backstop = FALSE
  /\ cool = [l \in List |-> FALSE] /\ shown = [l \in List |-> 0]
  /\ refreshes = [l \in List |-> <<>>] /\ told = 0
  /\ since = [c \in Conn |-> 0] /\ failures = 0

Refresh(l) ==
  \E k \in DOMAIN refreshes[l] :
    AnswerRefresh(l, k) \/ TakeRefresh(l, k) \/ FailRefresh(l, k)

Next ==
  \/ \E news \in SUBSET List : Import(news)
  \/ Cleanup \/ Publish \/ Restart
  \/ \E c \in Conn : Accept(c) \/ Check(c) \/ Take(c) \/ KeepAlive(c)
  \/ \E c \in Conn : Start(c) \/ Receive(c) \/ Error(c) \/ RetryFires(c)
  \/ Stop \/ PollFires \/ BackstopFires
  \/ \E l \in List : CoolDownOver(l) \/ Refresh(l)

LiveSpec == Init /\ [][Next]_vars

\* The generator waits with a timeout and checks on every turn; timers fire
\* and requests end, in the browser as anywhere.  Nothing is assumed of the
\* stream: it may be refused or lost over and over.
FairLiveSpec ==
  /\ LiveSpec
  /\ \A c \in Conn :
       /\ WF_vars(Check(c)) /\ WF_vars(Take(c)) /\ WF_vars(KeepAlive(c))
  /\ WF_vars(BackstopFires)
  /\ \A l \in List : WF_vars(CoolDownOver(l)) /\ WF_vars(Refresh(l))

-----------------------------------------------------------------------------
(* Properties.                                                             *)

Channels ==
  {ch \in {"source", "retry", "poll"} :
     CASE ch = "source" -> source # None
       [] ch = "retry"  -> retryTimer
       [] ch = "poll"   -> pollTimer}

\* There is one channel at a time - a stream, a retry that is due, or polling -
\* and none when live updates are off, whatever order they are started,
\* stopped, lost and retried in; and one connection ("so that the whole app
\* uses one EventSource").
OneChannel ==
  /\ Cardinality(Channels) = IF running THEN 1 ELSE 0
  /\ mode = "poll" <=> pollTimer
  /\ connected => source # None
  /\ \A c \in Conn : net[c] \in {"requested", "open"} => c = source

\* A browser that has drained its stream was told to fetch whatever was
\* imported since it subscribed, however many events its queue had to drop.
NewestArrives ==
  \A c \in Subscribed :
    /\ source = c /\ net[c] = "open"
    /\ outbox = <<>> /\ queue[c] = <<>> /\ wire[c] = <<>>
    => told = imports \/ imports = since[c]

\* A browser that keeps live updates on catches up with every import and every
\* change of the lists, through lost streams, dropped and swallowed events,
\* refreshes that overtake each other or fail, and restarts of the add-on
\* ("Backstop for anything the stream did not tell us about").
EventuallyCurrent ==
  \A n \in 1..MaxImports :
    <>[]running /\ <>(imports >= n) =>
      <>(told >= n) /\ \A l \in List : <>[](known[l] >= n => shown[l] >= n)

\* A subscriber whose browser is gone is dropped, even if nothing is published
\* any more.
SubscribersDrain ==
  \A c \in Conn : (net[c] = "closed" /\ generator[c] # "none") ~> (generator[c] = "none")
=============================================================================
