-------------------------- MODULE LiveUpdatesProofs --------------------------
(***************************************************************************)
(* One channel at a time, and a drained stream that missed nothing, for    *)
(* any number of connections, lists and imports and every size of the      *)
(* queues.                                                                 *)
(***************************************************************************)
EXTENDS LiveUpdates, FiniteSetTheorems, SequenceTheorems, TLAPS

-----------------------------------------------------------------------------
(* The inductive invariant.                                                *)

Message == [hello : BOOLEAN, news : SUBSET List]
ImportEvent == {m \in Message : ~ m.hello}

\* What the variables of the two theorems hold: events wait in the outbox and
\* in the queues, and a hello only ever goes over the wire.
ChannelTypeOK ==
  /\ imports \in Nat
  /\ outbox \in Seq(ImportEvent)
  /\ generator \in [Conn -> {"none", "check", "wait"}]
  /\ queue \in [Conn -> Seq(ImportEvent)]
  /\ net \in [Conn -> {"free", "requested", "open", "closed"}]
  /\ wire \in [Conn -> Seq(Message)]
  /\ running \in BOOLEAN
  /\ source \in Conn \cup {None}
  /\ connected \in BOOLEAN
  /\ mode \in {"off", "stream", "poll"}
  /\ attempts \in Nat
  /\ retryTimer \in BOOLEAN /\ pollTimer \in BOOLEAN /\ backstop \in BOOLEAN
  /\ cool \in [List -> BOOLEAN]
  /\ since \in [Conn -> Nat]

\* Live updates that are on have a stream, a retry that is due or the polling
\* timer, and no two of them; those that are off have none.
ChannelOfItsOwn ==
  /\ running <=> source # None \/ retryTimer \/ pollTimer
  /\ source # None => ~ retryTimer /\ ~ pollTimer
  /\ ~ (retryTimer /\ pollTimer)
  /\ mode = "poll" <=> pollTimer
  /\ connected => source # None

\* A connection that is not given up is the one the browser has.
ConnectionOfItsOwn ==
  \A c \in Conn : net[c] \in {"requested", "open"} => c = source

\* An import the browser was not told of since it subscribed is on its way to
\* it: about to be published, in the queue, or on the wire.
NewsOnItsWay ==
  \A c \in Subscribed :
    source = c /\ net[c] = "open" /\ told # imports /\ imports # since[c]
    => \/ outbox # <<>>
       \/ queue[c] # <<>>
       \/ wire[c] # <<>> /\ ~ wire[c][1].hello

IInv == ChannelTypeOK /\ ChannelOfItsOwn /\ ConnectionOfItsOwn /\ NewsOnItsWay

-----------------------------------------------------------------------------
(* The operators.                                                          *)

\* An event is a message, and the hello that opens a stream is none.
LEMMA Messages ==
  /\ Hello \in Message /\ Hello.hello
  /\ \A news \in SUBSET List : Event(news) \in ImportEvent
BY DEF Hello, Event, Message, ImportEvent

\* An event put into a queue is in it, whatever had to be dropped.
LEMMA PutLeavesNews ==
  ASSUME NEW S, NEW q \in Seq(S), NEW e \in S
  PROVE  Put(q, e) \in Seq(S) /\ Put(q, e) # <<>>
<1>1. CASE Len(q) = QueueSize
  <2>1. q # <<>> /\ Tail(q) \in Seq(S)
    BY <1>1, LiveAssumption
  <2>. QED
    BY <1>1, <2>1 DEF Put
<1>2. CASE Len(q) # QueueSize
  <2>1. Put(q, e) = Append(q, e)
    BY <1>2 DEF Put
  <2>2. Append(q, e) \in Seq(S) /\ Append(q, e) # <<>>
    BY AppendProperties
  <2>. QED
    BY <2>1, <2>2
<1>. QED
  BY <1>1, <1>2

\* No connection is called None.
LEMMA NoneIsNoConnection == None \notin Conn
BY LiveAssumption DEF None

\* How many of the three channels are there.
LEMMA ChannelCount ==
  ASSUME ChannelTypeOK, ChannelOfItsOwn
  PROVE  Cardinality(Channels) = IF running THEN 1 ELSE 0
<1>1. Channels = {ch \in {"source", "retry", "poll"} :
                    \/ ch = "source" /\ source # None
                    \/ ch = "retry" /\ retryTimer
                    \/ ch = "poll" /\ pollTimer}
  BY DEF Channels
<1>2. CASE ~ running
  <2>1. Channels = {}
    BY <1>1, <1>2 DEF ChannelOfItsOwn
  <2>. QED
    BY <1>2, <2>1, FS_EmptySet
<1>3. CASE running
  <2>1. Channels = {"source"} \/ Channels = {"retry"} \/ Channels = {"poll"}
    BY <1>1, <1>3 DEF ChannelOfItsOwn
  <2>. QED
    BY <1>3, <2>1, FS_Singleton
<1>. QED
  BY <1>2, <1>3 DEF ChannelTypeOK

-----------------------------------------------------------------------------
(* Every step preserves the inductive invariant.                           *)

LEMMA ImportKeepsIInv ==
  ASSUME IInv, NEW news \in SUBSET List, Import(news)
  PROVE  IInv'
<1>1. ChannelTypeOK'
  BY Messages DEF Import, streams, links, channel, lists, IInv, ChannelTypeOK
<1>2. ChannelOfItsOwn'
  BY DEF Import, channel, IInv, ChannelOfItsOwn
<1>3. ConnectionOfItsOwn'
  BY DEF Import, links, channel, IInv, ConnectionOfItsOwn
<1>4. NewsOnItsWay'
  BY DEF Import, NewsOnItsWay
<1>. QED
  BY <1>1, <1>2, <1>3, <1>4 DEF IInv

LEMMA PublishKeepsIInv ==
  ASSUME IInv, Publish
  PROVE  IInv'
<1>1. ChannelTypeOK'
  <2>1. outbox[1] \in ImportEvent /\ <<>> \in Seq(ImportEvent)
    BY DEF Publish, IInv, ChannelTypeOK
  <2>2. queue' \in [Conn -> Seq(ImportEvent)]
    BY <2>1, PutLeavesNews DEF Publish, IInv, ChannelTypeOK
  <2>. QED
    BY <2>2 DEF Publish, links, channel, lists, IInv, ChannelTypeOK
<1>2. ChannelOfItsOwn'
  BY DEF Publish, channel, IInv, ChannelOfItsOwn
<1>3. ConnectionOfItsOwn'
  BY DEF Publish, links, channel, IInv, ConnectionOfItsOwn
<1>4. NewsOnItsWay'
  <2>1. outbox[1] \in ImportEvent
    BY DEF Publish, IInv, ChannelTypeOK
  <2>2. \A c \in Subscribed : queue'[c] # <<>>
    BY <2>1, PutLeavesNews DEF Publish, IInv, ChannelTypeOK, Subscribed
  <2>. QED
    BY <2>2 DEF Publish, NewsOnItsWay, Subscribed
<1>. QED
  BY <1>1, <1>2, <1>3, <1>4 DEF IInv

LEMMA CleanupKeepsIInv ==
  ASSUME IInv, Cleanup
  PROVE  IInv'
<1>1. ChannelTypeOK'
  BY Messages DEF Cleanup, streams, links, channel, lists, IInv, ChannelTypeOK
<1>2. ChannelOfItsOwn'
  BY DEF Cleanup, channel, IInv, ChannelOfItsOwn
<1>3. ConnectionOfItsOwn'
  BY DEF Cleanup, links, channel, IInv, ConnectionOfItsOwn
<1>4. NewsOnItsWay'
  BY DEF Cleanup, NewsOnItsWay
<1>. QED
  BY <1>1, <1>2, <1>3, <1>4 DEF IInv

LEMMA RestartKeepsIInv ==
  ASSUME IInv, Restart
  PROVE  IInv'
<1>1. ChannelTypeOK'
  BY DEF Restart, channel, lists, IInv, ChannelTypeOK
<1>2. ChannelOfItsOwn'
  BY DEF Restart, channel, IInv, ChannelOfItsOwn
<1>3. ConnectionOfItsOwn'
  BY DEF Restart, ConnectionOfItsOwn
<1>4. NewsOnItsWay'
  BY DEF Restart, NewsOnItsWay, Subscribed
<1>. QED
  BY <1>1, <1>2, <1>3, <1>4 DEF IInv

LEMMA AcceptKeepsIInv ==
  ASSUME IInv, NEW c \in Conn, Accept(c)
  PROVE  IInv'
<1>1. ChannelTypeOK'
  BY Messages DEF Accept, data, channel, lists, IInv, ChannelTypeOK
<1>2. ChannelOfItsOwn'
  BY DEF Accept, channel, IInv, ChannelOfItsOwn
<1>3. ConnectionOfItsOwn'
  BY DEF Accept, channel, IInv, ConnectionOfItsOwn
<1>4. NewsOnItsWay'
  BY DEF Accept, data, IInv, ChannelTypeOK, ConnectionOfItsOwn, NewsOnItsWay, Subscribed
<1>. QED
  BY <1>1, <1>2, <1>3, <1>4 DEF IInv

LEMMA CheckKeepsIInv ==
  ASSUME IInv, NEW c \in Conn, Check(c)
  PROVE  IInv'
<1>1. ChannelTypeOK'
  <2>1. <<>> \in Seq(ImportEvent) /\ 0 \in Nat
    OBVIOUS
  <2>2. CASE net[c] = "closed"
    BY <2>1 DEF Check, data, channel, lists, IInv, ChannelTypeOK
  <2>3. CASE net[c] # "closed"
    BY <2>3 DEF Check, data, channel, lists, IInv, ChannelTypeOK
  <2>. QED
    BY <2>2, <2>3
<1>2. ChannelOfItsOwn'
  BY DEF Check, channel, IInv, ChannelOfItsOwn
<1>3. ConnectionOfItsOwn'
  BY DEF Check, channel, IInv, ChannelTypeOK, ConnectionOfItsOwn
<1>4. NewsOnItsWay'
  BY DEF Check, data, lists, IInv, ChannelTypeOK, ConnectionOfItsOwn, NewsOnItsWay,
    Subscribed
<1>. QED
  BY <1>1, <1>2, <1>3, <1>4 DEF IInv

LEMMA TakeKeepsIInv ==
  ASSUME IInv, NEW c \in Conn, Take(c)
  PROVE  IInv'
<1>1. ChannelTypeOK'
  <2>1. queue[c] \in Seq(ImportEvent) /\ queue[c] # <<>>
    BY DEF Take, IInv, ChannelTypeOK
  <2>2. queue[c][1] \in Message /\ Tail(queue[c]) \in Seq(ImportEvent)
    BY <2>1 DEF ImportEvent
  <2>3. <<queue[c][1]>> \in Seq(Message) /\ <<>> \in Seq(Message)
    BY <2>2
  <2>. QED
    BY <2>3 DEF Take, data, channel, lists, IInv, ChannelTypeOK
<1>2. ChannelOfItsOwn'
  BY DEF Take, channel, IInv, ChannelOfItsOwn
<1>3. ConnectionOfItsOwn'
  BY DEF Take, channel, IInv, ConnectionOfItsOwn
<1>4. NewsOnItsWay'
  <2>1. queue[c][1] \in ImportEvent
    BY DEF Take, IInv, ChannelTypeOK
  <2>2. net[c] = "open" => wire'[c] # <<>> /\ ~ wire'[c][1].hello
    BY DEF Take, IInv, ChannelTypeOK, ImportEvent
  <2>. QED
    BY <2>2 DEF Take, data, channel, lists, IInv, NewsOnItsWay, Subscribed
<1>. QED
  BY <1>1, <1>2, <1>3, <1>4 DEF IInv

LEMMA KeepAliveKeepsIInv ==
  ASSUME IInv, NEW c \in Conn, KeepAlive(c)
  PROVE  IInv'
<1>1. ChannelTypeOK'
  BY DEF KeepAlive, data, links, channel, lists, IInv, ChannelTypeOK
<1>2. ChannelOfItsOwn'
  BY DEF KeepAlive, channel, IInv, ChannelOfItsOwn
<1>3. ConnectionOfItsOwn'
  BY DEF KeepAlive, links, channel, IInv, ConnectionOfItsOwn
<1>4. NewsOnItsWay'
  BY DEF KeepAlive, data, links, lists, IInv, ConnectionOfItsOwn, NewsOnItsWay, Subscribed
<1>. QED
  BY <1>1, <1>2, <1>3, <1>4 DEF IInv

LEMMA StartKeepsIInv ==
  ASSUME IInv, NEW c \in Conn, Start(c)
  PROVE  IInv'
<1>1. ChannelTypeOK'
  BY DEF Start, Connect, data, streams, lists, IInv, ChannelTypeOK
<1>2. ChannelOfItsOwn'
  BY NoneIsNoConnection DEF Start, Connect, IInv, ChannelOfItsOwn
<1>3. ConnectionOfItsOwn'
  BY NoneIsNoConnection DEF Start, Connect, IInv, ChannelOfItsOwn, ConnectionOfItsOwn
<1>4. NewsOnItsWay'
  BY DEF Start, Connect, IInv, ChannelTypeOK, NewsOnItsWay
<1>. QED
  BY <1>1, <1>2, <1>3, <1>4 DEF IInv

LEMMA ReceiveKeepsIInv ==
  ASSUME IInv, NEW c \in Conn, Receive(c)
  PROVE  IInv'
<1>1. ChannelTypeOK'
  <2>1. wire[c] \in Seq(Message) /\ Tail(wire[c]) \in Seq(Message)
    BY DEF Receive, IInv, ChannelTypeOK
  <2>2. wire' \in [Conn -> Seq(Message)]
    BY <2>1 DEF Receive, IInv, ChannelTypeOK
  <2>3. /\ attempts' \in Nat /\ connected' \in BOOLEAN
        /\ cool' \in [List -> BOOLEAN]
    <3>1. CASE wire[c][1].hello
      BY <3>1 DEF Receive, lists, IInv, ChannelTypeOK
    <3>2. CASE ~ wire[c][1].hello
      BY <3>2 DEF Receive, React, IInv, ChannelTypeOK
    <3>. QED
      BY <3>1, <3>2
  <2>. QED
    BY <2>3 DEF Receive, data, streams, IInv, ChannelTypeOK
<1>2. ChannelOfItsOwn'
  BY NoneIsNoConnection DEF Receive, IInv, ChannelOfItsOwn
<1>3. ConnectionOfItsOwn'
  BY DEF Receive, IInv, ConnectionOfItsOwn
<1>4. NewsOnItsWay'
  BY DEF Receive, React, data, streams, lists, IInv, NewsOnItsWay, Subscribed
<1>. QED
  BY <1>1, <1>2, <1>3, <1>4 DEF IInv

LEMMA ErrorKeepsIInv ==
  ASSUME IInv, NEW c \in Conn, Error(c)
  PROVE  IInv'
<1>1. ChannelTypeOK'
  <2>1. <<>> \in Seq(Message) /\ wire' \in [Conn -> Seq(Message)]
    BY DEF Error, IInv, ChannelTypeOK
  <2>2. \A d \in Conn : Closed(d) \in {"free", "closed"}
    BY DEF Closed
  <2>3. net' \in [Conn -> {"free", "requested", "open", "closed"}]
    BY <2>2 DEF Error, IInv, ChannelTypeOK
  <2>4. /\ source' = None /\ attempts' = attempts + 1 /\ connected' = FALSE
        /\ UNCHANGED running /\ UNCHANGED backstop
        /\ \/ mode' = "poll" /\ pollTimer' = TRUE /\ retryTimer' = retryTimer
           \/ mode' = mode /\ pollTimer' = pollTimer /\ retryTimer' = TRUE
    BY Zenon DEF Error
  <2>5. UNCHANGED <<imports, outbox, generator, queue, since, cool>>
    BY DEF Error, data, streams, lists
  <2>6. attempts' \in Nat
    BY <2>4 DEF IInv, ChannelTypeOK
  <2>7. /\ source' \in Conn \cup {None} /\ mode' \in {"off", "stream", "poll"}
        /\ connected' \in BOOLEAN /\ retryTimer' \in BOOLEAN /\ pollTimer' \in BOOLEAN
        /\ backstop' \in BOOLEAN /\ running' \in BOOLEAN
    BY <2>4, Zenon DEF IInv, ChannelTypeOK
  <2>. QED
    BY <2>1, <2>3, <2>5, <2>6, <2>7 DEF IInv, ChannelTypeOK
<1>2. ChannelOfItsOwn'
  BY NoneIsNoConnection DEF Error, IInv, ChannelOfItsOwn
<1>3. ConnectionOfItsOwn'
  BY DEF Error, Closed, IInv, ChannelTypeOK, ConnectionOfItsOwn
<1>4. NewsOnItsWay'
  BY DEF Error, Closed, IInv, ChannelTypeOK, ConnectionOfItsOwn, NewsOnItsWay, Subscribed
<1>. QED
  BY <1>1, <1>2, <1>3, <1>4 DEF IInv

LEMMA RetryFiresKeepsIInv ==
  ASSUME IInv, NEW c \in Conn, RetryFires(c)
  PROVE  IInv'
<1>1. ChannelTypeOK'
  BY DEF RetryFires, Connect, data, streams, lists, IInv, ChannelTypeOK
<1>2. ChannelOfItsOwn'
  BY NoneIsNoConnection DEF RetryFires, Connect, IInv, ChannelOfItsOwn
<1>3. ConnectionOfItsOwn'
  BY NoneIsNoConnection DEF RetryFires, Connect, IInv, ChannelOfItsOwn, ConnectionOfItsOwn
<1>4. NewsOnItsWay'
  BY DEF RetryFires, Connect, IInv, ChannelTypeOK, NewsOnItsWay
<1>. QED
  BY <1>1, <1>2, <1>3, <1>4 DEF IInv

LEMMA StopKeepsIInv ==
  ASSUME IInv, Stop
  PROVE  IInv'
<1>1. ChannelTypeOK'
  <2>1. <<>> \in Seq(Message) /\ wire' \in [Conn -> Seq(Message)]
    BY DEF Stop, IInv, ChannelTypeOK
  <2>2. \A d \in Conn : Closed(d) \in {"free", "closed"}
    BY DEF Closed
  <2>3. net' \in [Conn -> {"free", "requested", "open", "closed"}]
    BY <2>2 DEF Stop, IInv, ChannelTypeOK
  <2>4. /\ source' \in Conn \cup {None} /\ mode' \in {"off", "stream", "poll"}
        /\ attempts' \in Nat /\ connected' \in BOOLEAN /\ retryTimer' \in BOOLEAN
        /\ pollTimer' \in BOOLEAN /\ backstop' \in BOOLEAN /\ running' \in BOOLEAN
    BY DEF Stop, IInv, ChannelTypeOK
  <2>. QED
    BY <2>3, <2>4 DEF Stop, data, streams, lists, IInv, ChannelTypeOK
<1>2. ChannelOfItsOwn'
  BY DEF Stop, ChannelOfItsOwn
<1>3. ConnectionOfItsOwn'
  BY DEF Stop, Closed, IInv, ConnectionOfItsOwn
<1>4. NewsOnItsWay'
  BY DEF Stop, Closed, IInv, ConnectionOfItsOwn, NewsOnItsWay, Subscribed
<1>. QED
  BY <1>1, <1>2, <1>3, <1>4 DEF IInv

LEMMA PollFiresKeepsIInv ==
  ASSUME IInv, PollFires
  PROVE  IInv'
<1>1. ChannelTypeOK'
  BY DEF PollFires, React, data, streams, links, channel, IInv, ChannelTypeOK
<1>2. ChannelOfItsOwn'
  BY DEF PollFires, channel, IInv, ChannelOfItsOwn
<1>3. ConnectionOfItsOwn'
  BY DEF PollFires, links, channel, IInv, ConnectionOfItsOwn
<1>4. NewsOnItsWay'
  BY DEF PollFires, React, data, NewsOnItsWay
<1>. QED
  BY <1>1, <1>2, <1>3, <1>4 DEF IInv

LEMMA BackstopFiresKeepsIInv ==
  ASSUME IInv, BackstopFires
  PROVE  IInv'
<1>1. ChannelTypeOK'
  BY DEF BackstopFires, React, data, streams, links, channel, IInv, ChannelTypeOK
<1>2. ChannelOfItsOwn'
  BY DEF BackstopFires, channel, IInv, ChannelOfItsOwn
<1>3. ConnectionOfItsOwn'
  BY DEF BackstopFires, links, channel, IInv, ConnectionOfItsOwn
<1>4. NewsOnItsWay'
  BY DEF BackstopFires, React, data, NewsOnItsWay
<1>. QED
  BY <1>1, <1>2, <1>3, <1>4 DEF IInv

\* What becomes of the lists touches none of this but the cool-down.
LEMMA ListsKeepIInv ==
  ASSUME IInv, NEW l \in List, CoolDownOver(l) \/ Refresh(l)
  PROVE  IInv'
<1>1. ASSUME CoolDownOver(l) PROVE IInv'
  BY <1>1 DEF CoolDownOver, data, streams, links, channel, IInv, ChannelTypeOK,
    ChannelOfItsOwn, ConnectionOfItsOwn, NewsOnItsWay, Subscribed
<1>2. ASSUME Refresh(l) PROVE IInv'
  <2>1. UNCHANGED <<data, streams, links, channel, cool, told>>
    BY <1>2 DEF Refresh, AnswerRefresh, TakeRefresh, FailRefresh
  <2>. QED
    BY <2>1 DEF data, streams, links, channel, IInv, ChannelTypeOK, ChannelOfItsOwn,
      ConnectionOfItsOwn, NewsOnItsWay, Subscribed
<1>. QED
  BY <1>1, <1>2

LEMMA InitIInv == Init => IInv
<1> SUFFICES ASSUME Init PROVE IInv
  OBVIOUS
<1>1. ChannelTypeOK
  <2>1. <<>> \in Seq(ImportEvent) /\ <<>> \in Seq(Message)
    OBVIOUS
  <2>. QED
    BY <2>1 DEF Init, ChannelTypeOK
<1>. QED
  BY <1>1 DEF Init, IInv, ChannelOfItsOwn, ConnectionOfItsOwn, NewsOnItsWay

LEMMA NextIInv == IInv /\ [Next]_vars => IInv'
<1> SUFFICES ASSUME IInv, [Next]_vars PROVE IInv'
  OBVIOUS
<1>1. ASSUME NEW news \in SUBSET List, Import(news) PROVE IInv'
  BY <1>1, ImportKeepsIInv
<1>2. ASSUME Cleanup \/ Publish \/ Restart PROVE IInv'
  BY <1>2, CleanupKeepsIInv, PublishKeepsIInv, RestartKeepsIInv
<1>3. ASSUME NEW c \in Conn, Accept(c) \/ Check(c) \/ Take(c) \/ KeepAlive(c) PROVE IInv'
  BY <1>3, AcceptKeepsIInv, CheckKeepsIInv, TakeKeepsIInv, KeepAliveKeepsIInv
<1>4. ASSUME NEW c \in Conn, Start(c) \/ Receive(c) \/ Error(c) \/ RetryFires(c) PROVE IInv'
  BY <1>4, StartKeepsIInv, ReceiveKeepsIInv, ErrorKeepsIInv, RetryFiresKeepsIInv
<1>5. ASSUME Stop \/ PollFires \/ BackstopFires PROVE IInv'
  BY <1>5, StopKeepsIInv, PollFiresKeepsIInv, BackstopFiresKeepsIInv
<1>6. ASSUME NEW l \in List, CoolDownOver(l) \/ Refresh(l) PROVE IInv'
  BY <1>6, ListsKeepIInv
<1>7. CASE UNCHANGED vars
  BY <1>7 DEF vars, data, streams, links, channel, lists, IInv, ChannelTypeOK,
    ChannelOfItsOwn, ConnectionOfItsOwn, NewsOnItsWay, Subscribed
<1>. QED
  BY <1>1, <1>2, <1>3, <1>4, <1>5, <1>6, <1>7 DEF Next

LEMMA AlwaysIInv == LiveSpec => []IInv
BY InitIInv, NextIInv, PTL DEF LiveSpec

-----------------------------------------------------------------------------
\* Live updates that are on have one channel - a stream, a retry that is due,
\* or polling - and those that are off have none, in whatever order they are
\* started, stopped, lost and retried (stores/liveUpdates.ts).
THEOREM OneChannelAtATime == LiveSpec => []OneChannel
<1>1. IInv => OneChannel
  BY ChannelCount DEF IInv, ChannelOfItsOwn, ConnectionOfItsOwn, OneChannel
<1>. QED
  BY <1>1, AlwaysIInv, PTL

\* A browser that has drained its stream was told to fetch whatever was
\* imported since it subscribed, although a full queue drops its oldest event:
\* it never drops the last (services/events.py).
THEOREM TheNewestArrives == LiveSpec => []NewestArrives
<1>1. IInv => NewestArrives
  BY DEF IInv, NewsOnItsWay, NewestArrives
<1>. QED
  BY <1>1, AlwaysIInv, PTL
=============================================================================
