------------------------------ MODULE FileTail ------------------------------
(***************************************************************************)
(* Tailing AdGuard's query log file (ingest/file_provider.py).  A poll     *)
(* opens the file, decides whether it is still the one the checkpoint      *)
(* describes, reads chunks from there on and remembers the offset of the   *)
(* last complete line, together with the inode and a fingerprint of the    *)
(* bytes it consumed.  Meanwhile AdGuard appends to the file, with lines   *)
(* that are half written, and the file is removed, created anew - perhaps  *)
(* under the same inode - or emptied in place.                             *)
(*                                                                         *)
(* A line is two bytes: its text and the end of line.                      *)
(***************************************************************************)
EXTENDS Integers, Sequences, FiniteSets

CONSTANTS
  Inode,            \* the inodes a file may get, numbers above 0
  Readable,         \* the lines parse_file_record makes sense of
  Floor,            \* the retention floors a poll may be given
  ChunkBytes,       \* CHUNK_BYTES
  HeadBytes,        \* HEAD_BYTES
  MaxPages,         \* max_pages_per_poll
  MaxLines,         \* bound on the lines AdGuard writes
  MaxReplacements,  \* bound on the removals and truncations of the file
  MaxFailures       \* bound on the polls that fail

Line == 1..MaxLines

ASSUME TailAssumption ==
  /\ Inode \subseteq Nat \ {0}
  /\ Readable \subseteq Line
  /\ Floor \subseteq Nat
  /\ ChunkBytes \in Nat \ {0} /\ HeadBytes \in Nat \ {0} /\ MaxPages \in Nat \ {0}
  /\ MaxLines \in Nat /\ MaxReplacements \in Nat /\ MaxFailures \in Nat

VARIABLES
  files,         \* [Inode -> sequence of bytes]
  path,          \* the inode of the log file, None when there is no file
  lines,         \* how many lines AdGuard began to write; a line's time
  key,           \* checkpoint: file_key, None at the first run
  offset,        \* checkpoint: offset
  head,          \* checkpoint: head, the bytes it is the digest of
  queries,       \* the lines that are stored
  phase,         \* where the poll is
  handle,        \* the inode the poll has open
  pos,           \* the position of the handle
  nextOffset,    \* the poll's offset
  remainder,     \* the trailing partial line
  batch,         \* the lines read so far
  pages,         \* the chunks read so far
  nextHead,      \* what the poll fingerprints at its end
  floor,         \* floor_ts_ns
  topFloor,      \* history: the highest floor ever enforced
  torn,          \* history: the checkpoint is of a file emptied under a read
  nextTorn,      \* history: the same of the poll in flight
  grown,         \* history: the file only grew since the checkpoint's poll
  nextGrown,     \* history: the same since the poll in flight opened it
  replacements,  \* how often the file was removed or emptied
  failures       \* how many polls failed

file == <<files, path, lines>>
checkpoint == <<key, offset, head, torn, grown>>
poll == <<phase, handle, pos, nextOffset, remainder, batch, pages, nextHead, floor>>
vars == <<file, checkpoint, queries, poll, topFloor, nextTorn, nextGrown,
          replacements, failures>>

None == 0
Text(l) == <<l, "text">>
End(l) == <<l, "end">>
Byte == Line \X {"text", "end"}

IsEnd(b) == b[2] = "end"
Least(m, n) == IF m < n THEN m ELSE n
Greatest(m, n) == IF m > n THEN m ELSE n

Prefix(s, n) == SubSeq(s, 1, Least(n, Len(s)))

-----------------------------------------------------------------------------
(* AdGuard and whoever else touches the file.                              *)

\* The line being written is finished, or the next one is begun.
Grow ==
  LET content == files[path] IN
  /\ path # None
  /\ IF content # <<>> /\ ~ IsEnd(content[Len(content)])
     THEN /\ files' = [files EXCEPT ![path] = Append(@, End(content[Len(content)][1]))]
          /\ UNCHANGED lines
     ELSE /\ lines < MaxLines
          /\ lines' = lines + 1
          /\ files' = [files EXCEPT ![path] = Append(@, Text(lines + 1))]
  /\ UNCHANGED <<path, checkpoint, queries, poll, topFloor, nextTorn, nextGrown,
                 replacements, failures>>

\* The file is rotated away or cleared; a poll that has it open reads on.
Remove ==
  /\ path # None
  /\ replacements < MaxReplacements
  /\ replacements' = replacements + 1
  /\ path' = None
  /\ grown' = FALSE /\ nextGrown' = FALSE
  /\ UNCHANGED <<files, lines, key, offset, head, torn, queries, poll, topFloor,
                 nextTorn, failures>>

\* A new file may get the inode of one that is gone, but not of one in use.
Create(i) ==
  /\ path = None
  /\ phase = "reading" => i # handle
  /\ path' = i
  /\ files' = [files EXCEPT ![i] = <<>>]
  /\ UNCHANGED <<lines, checkpoint, queries, poll, topFloor, nextTorn, nextGrown,
                 replacements, failures>>

Truncate ==
  /\ path # None
  /\ replacements < MaxReplacements
  /\ replacements' = replacements + 1
  /\ files' = [files EXCEPT ![path] = <<>>]
  /\ nextTorn' = (nextTorn \/ (phase = "reading" /\ handle = path))
  /\ grown' = FALSE /\ nextGrown' = FALSE
  /\ UNCHANGED <<path, lines, key, offset, head, torn, queries, poll, topFloor,
                 failures>>

-----------------------------------------------------------------------------
(* A poll.                                                                 *)

\* How much of the file the checkpoint's fingerprint covers.
HeadLen(consumed) == Least(HeadBytes, consumed)

\* As if the fingerprint was not compared.
ReplacedUnlessSameSize ==
  /\ key # None
  /\ key # path \/ offset > Len(files[path])

\* The three signals of _rotation_reason: another inode, a file shorter than
\* what was consumed, other bytes where it was consumed.
Replaced ==
  /\ key # None
  /\ \/ key # path
     \/ offset > Len(files[path])
     \/ Prefix(files[path], HeadLen(offset)) # head

\* As if a replaced file was read on from the old offset.
StartPollAnyway(f) ==
  /\ phase = "idle" /\ path # None
  /\ phase' = "reading"
  /\ handle' = path
  /\ nextOffset' = offset
  /\ pos' = offset
  /\ remainder' = <<>> /\ batch' = {} /\ pages' = 0 /\ nextHead' = <<>>
  /\ floor' = f
  /\ topFloor' = Greatest(topFloor, f)
  /\ nextTorn' = torn
  /\ nextGrown' = TRUE
  /\ UNCHANGED <<file, checkpoint, queries, replacements, failures>>

\* The checkpoint is read and the file opened; a poll that finds no file writes
\* the checkpoint back as it was.
StartPoll(f) ==
  /\ phase = "idle" /\ path # None
  /\ phase' = "reading"
  /\ handle' = path
  /\ nextOffset' = IF Replaced THEN 0 ELSE offset
  /\ pos' = nextOffset'
  /\ remainder' = <<>> /\ batch' = {} /\ pages' = 0 /\ nextHead' = <<>>
  /\ floor' = f
  /\ topFloor' = Greatest(topFloor, f)
  /\ nextTorn' = (torn /\ ~ Replaced)
  /\ nextGrown' = TRUE
  /\ UNCHANGED <<file, checkpoint, queries, replacements, failures>>

Chunk == SubSeq(files[handle], pos + 1, Least(pos + ChunkBytes, Len(files[handle])))

\* The bytes up to the last end of line, and the lines among them that are
\* whole, readable and inside the window.
Complete(buffer) ==
  LET ends == {i \in DOMAIN buffer : IsEnd(buffer[i])} IN
  IF ends = {} THEN 0 ELSE CHOOSE i \in ends : \A j \in ends : j <= i

Parsed(buffer) ==
  {l \in Readable :
     /\ l >= floor
     /\ \E i \in DOMAIN buffer :
          /\ buffer[i] = End(l)
          /\ i > 1 /\ buffer[i - 1] = Text(l)
          /\ i > 2 => IsEnd(buffer[i - 2])}

\* One chunk, split into lines.
ReadChunk ==
  LET buffer == remainder \o Chunk IN
  /\ phase = "reading"
  /\ pages < MaxPages /\ Chunk # <<>>
  /\ pages' = pages + 1
  /\ pos' = pos + Len(Chunk)
  /\ batch' = batch \cup Parsed(buffer)
  /\ nextOffset' = nextOffset + Complete(buffer)
  /\ remainder' = SubSeq(buffer, Complete(buffer) + 1, Len(buffer))
  /\ UNCHANGED <<file, checkpoint, queries, phase, handle, nextHead, floor, topFloor,
                 nextTorn, nextGrown, replacements, failures>>

\* As if the fingerprint covered more than what was consumed.
CloseFileFullHead ==
  /\ phase = "reading"
  /\ pages = MaxPages \/ Chunk = <<>>
  /\ nextHead' = Prefix(files[handle], HeadBytes)
  /\ phase' = "write"
  /\ UNCHANGED <<file, checkpoint, queries, handle, pos, nextOffset, remainder, batch,
                 pages, floor, topFloor, nextTorn, nextGrown, replacements, failures>>

\* The end of the file, or of the budget: what was consumed is fingerprinted.
CloseFile ==
  /\ phase = "reading"
  /\ pages = MaxPages \/ Chunk = <<>>
  /\ nextHead' = Prefix(files[handle], HeadLen(nextOffset))
  /\ phase' = "write"
  /\ UNCHANGED <<file, checkpoint, queries, handle, pos, nextOffset, remainder, batch,
                 pages, floor, topFloor, nextTorn, nextGrown, replacements, failures>>

\* The poll's local state dies with it.
PollOver ==
  /\ phase' = "idle" /\ handle' = None /\ pos' = 0 /\ nextOffset' = 0
  /\ remainder' = <<>> /\ batch' = {} /\ pages' = 0 /\ nextHead' = <<>> /\ floor' = 0
  /\ nextTorn' = FALSE /\ nextGrown' = FALSE

\* Records and checkpoint in one transaction.
Write ==
  /\ phase = "write"
  /\ queries' = queries \cup batch
  /\ key' = handle /\ offset' = nextOffset /\ head' = nextHead
  /\ torn' = nextTorn /\ grown' = nextGrown
  /\ PollOver
  /\ UNCHANGED <<file, topFloor, replacements, failures>>

\* The write fails or the process dies.
Fail ==
  /\ phase # "idle"
  /\ failures < MaxFailures
  /\ failures' = failures + 1
  /\ PollOver
  /\ UNCHANGED <<file, checkpoint, queries, topFloor, replacements>>

-----------------------------------------------------------------------------
Init ==
  /\ files = [i \in Inode |-> <<>>] /\ path = None /\ lines = 0
  /\ key = None /\ offset = 0 /\ head = <<>>
  /\ queries = {}
  /\ phase = "idle" /\ handle = None /\ pos = 0 /\ nextOffset = 0
  /\ remainder = <<>> /\ batch = {} /\ pages = 0 /\ nextHead = <<>> /\ floor = 0
  /\ topFloor = 0
  /\ torn = FALSE /\ nextTorn = FALSE /\ grown = FALSE /\ nextGrown = FALSE
  /\ replacements = 0 /\ failures = 0

Poll ==
  \/ \E f \in Floor : StartPoll(f)
  \/ ReadChunk \/ CloseFile \/ Write

Next ==
  \/ Poll \/ Fail
  \/ Grow \/ Remove \/ Truncate
  \/ \E i \in Inode : Create(i)

TailSpec == Init /\ [][Next]_vars

\* The ingest loop sleeps with a timeout, and reading a file ends.
FairTailSpec == TailSpec /\ WF_vars(Poll)

-----------------------------------------------------------------------------
(* Properties.                                                             *)

\* The line is complete in the file, and ends at a position.
EndsAt(l, i) == i \in DOMAIN files[path] /\ files[path][i] = End(l)

\* A line the import owes the user: readable, and inside every window that was
\* ever enforced.
Owed(l) == l \in Readable /\ l >= topFloor

\* Whatever the next poll would pass over as consumed has been stored: the
\* offset is never ahead of an unread line of the file it will be used on, be
\* it rotated, replaced under the same inode, or emptied, with polls that fail
\* or run out of budget in the middle of a line; it may be of a file that was
\* emptied while a poll was reading it.
NothingPassedOver ==
  path # None /\ ~ torn /\ ~ Replaced =>
    \A l \in Line, i \in 1..offset : Owed(l) /\ EndsAt(l, i) => l \in queries

\* A file that was only appended to is read on where it was left, not from its
\* beginning ("The window only ever grows, which keeps the comparison stable
\* while the file is appended to").
AppendingIsNoRotation ==
  [][phase = "idle" /\ phase' = "reading" /\ grown => nextOffset' = offset]_vars

\* A line that stays in the file is stored in the end, unless the file was
\* emptied under a poll that was reading it, or the line leaves the window.
EventuallyStored ==
  \A l \in Line :
    <>[](path # None /\ \E i \in 1..(2 * MaxLines) : EndsAt(l, i)) /\ []~ torn
      => <>(l \in queries \/ ~ Owed(l))
=============================================================================
