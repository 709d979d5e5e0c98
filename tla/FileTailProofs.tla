--------------------------- MODULE FileTailProofs ---------------------------
(***************************************************************************)
(* The tail passes nothing over and reads an appended file on where it was *)
(* left, for files of any length, chunks and fingerprints of any size, any *)
(* budget, and however often the file is rotated, emptied or a poll fails. *)
(***************************************************************************)
EXTENDS FileTail, SequenceTheorems, WellFoundedInduction, TLAPS

-----------------------------------------------------------------------------
(* The inductive invariant.                                                *)

TypeOK ==
  /\ files \in [Inode -> Seq(Byte)]
  /\ path \in Inode \cup {None}
  /\ lines \in 0..MaxLines
  /\ key \in Inode \cup {None} /\ offset \in Nat /\ head \in Seq(Byte)
  /\ queries \subseteq Line
  /\ phase \in {"idle", "reading", "write"}
  /\ handle \in Inode \cup {None} /\ (handle = None <=> phase = "idle")
  /\ pos \in Nat /\ nextOffset \in Nat /\ pages \in Nat /\ floor \in Nat
  /\ remainder \in Seq(Byte) /\ nextHead \in Seq(Byte)
  /\ batch \subseteq Line
  /\ topFloor \in Nat
  /\ torn \in BOOLEAN /\ nextTorn \in BOOLEAN
  /\ grown \in BOOLEAN /\ nextGrown \in BOOLEAN
  /\ replacements \in Nat /\ failures \in Nat

\* A file is lines of two bytes, the last of which may be half written, and no
\* line is later than now.
Lined(content, now) ==
  \A n \in DOMAIN content :
    /\ content[n][1] <= now
    /\ n = 1 => ~ IsEnd(content[n])
    /\ n > 1 => /\ IsEnd(content[n]) <=> ~ IsEnd(content[n - 1])
                /\ IsEnd(content[n]) => content[n][1] = content[n - 1][1]

FilesLined == \A i \in Inode : Lined(files[i], lines)

\* The first n bytes of a file are whole lines, and every line among them that
\* is readable and inside the window is in S.
Consumed(content, n, S, window) ==
  /\ n <= Len(content)
  /\ n > 0 => IsEnd(content[n])
  /\ \A i \in 1..n, l \in Readable : content[i] = End(l) /\ l >= window => l \in S

\* What an offset with a fingerprint says of a file, which may be another one by
\* now: if it still begins as the one that was read, it was consumed.
Fingerprinted(content, n, print, S, window, now) ==
  n > 0 =>
    /\ print # <<>> /\ print[1][1] <= now
    /\ content # <<>> /\ content[1] = print[1] => Consumed(content, n, S, window)

\* The checkpoint is of a file whose consumed lines are stored.
CheckpointCounts ==
  /\ key = None => offset = 0
  /\ key # None /\ ~ torn =>
       Fingerprinted(files[key], offset, head, queries, topFloor, lines)

\* A poll that reads has the lines before its offset stored or in its batch, and
\* holds the bytes from there to its position.
ReadingCounts ==
  phase = "reading" =>
    /\ floor <= topFloor
    /\ nextOffset + Len(remainder) = pos
    /\ ~ nextTorn =>
         /\ Consumed(files[handle], nextOffset, queries \cup batch, topFloor)
         /\ pos <= Len(files[handle])
         /\ remainder = SubSeq(files[handle], nextOffset + 1, pos)

\* A poll that is about to write has what its checkpoint will promise.
WriteCounts ==
  phase = "write" /\ ~ nextTorn =>
    Fingerprinted(files[handle], nextOffset, nextHead, queries \cup batch, topFloor, lines)

\* A fingerprint is of the first bytes of a file.
PrintOf(content, n, print) ==
  n <= Len(content) /\ print = Prefix(content, HeadLen(n))

\* A file that only grew is the one that was read, and begins as it did.
GrownIsTheSame ==
  /\ grown => key # None /\ key = path /\ PrintOf(files[key], offset, head)
  /\ nextGrown =>
       /\ phase # "idle" /\ handle = path
       /\ phase = "reading" => pos <= Len(files[handle])
       /\ phase = "write" => PrintOf(files[handle], nextOffset, nextHead)

IInv ==
  /\ TypeOK
  /\ FilesLined
  /\ CheckpointCounts
  /\ ReadingCounts
  /\ WriteCounts
  /\ GrownIsTheSame

-----------------------------------------------------------------------------
(* The operators.                                                          *)

\* A byte is the text or the end of its line.
LEMMA Bytes ==
  /\ \A l \in Line : /\ Text(l) \in Byte /\ Text(l)[1] = l /\ ~ IsEnd(Text(l))
                     /\ End(l) \in Byte /\ End(l)[1] = l /\ IsEnd(End(l))
  /\ \A b \in Byte : /\ b[1] \in Line
                     /\ IsEnd(b) => b = End(b[1])
                     /\ ~ IsEnd(b) => b = Text(b[1])
BY DEF Byte, Text, End, IsEnd

\* The first n bytes of a file.
LEMMA Prefixes ==
  ASSUME NEW S, NEW s \in Seq(S), NEW n \in Nat
  PROVE  /\ Prefix(s, n) \in Seq(S)
         /\ Len(Prefix(s, n)) = Least(n, Len(s))
         /\ \A i \in 1..Least(n, Len(s)) : Prefix(s, n)[i] = s[i]
<1>1. Len(s) \in Nat /\ Least(n, Len(s)) \in 0..Len(s)
  BY DEF Least
<1>. QED
  BY <1>1, SubSeqProperties DEF Prefix

\* They stay the same while the file grows, once they are all there.
LEMMA PrefixWhileGrowing ==
  ASSUME NEW S, NEW s \in Seq(S), NEW e \in S, NEW n \in Nat, n <= Len(s)
  PROVE  Prefix(Append(s, e), n) = Prefix(s, n)
<1>1. /\ Append(s, e) \in Seq(S) /\ Len(Append(s, e)) = Len(s) + 1
      /\ \A i \in 1..Len(s) : Append(s, e)[i] = s[i]
  BY AppendProperties
<1>2. Len(s) \in Nat
  OBVIOUS
<1>3. Least(n, Len(s)) = n /\ Least(n, Len(Append(s, e))) = n
  BY <1>1, <1>2 DEF Least
<1>4. /\ Prefix(s, n) \in Seq(S) /\ Len(Prefix(s, n)) = n
      /\ \A i \in 1..n : Prefix(s, n)[i] = s[i]
  BY <1>3, Prefixes
<1>5. /\ Prefix(Append(s, e), n) \in Seq(S) /\ Len(Prefix(Append(s, e), n)) = n
      /\ \A i \in 1..n : Prefix(Append(s, e), n)[i] = Append(s, e)[i]
  BY <1>1, <1>3, Prefixes
<1>. QED
  BY <1>1, <1>2, <1>4, <1>5, SeqEqual

\* A set of numbers up to n has a greatest one.
LEMMA GreatestBelow ==
  ASSUME NEW n \in Nat, NEW S \in SUBSET (0..n), S # {}
  PROVE  \E i \in S : \A j \in S : j <= i
<1> DEFINE T == {n - i : i \in S}
<1>1. \A i \in S : i \in Nat /\ i <= n /\ n - i \in Nat /\ n - i \in T
  OBVIOUS
<1>2. T \in SUBSET Nat /\ T # {}
  <2>1. T \subseteq Nat
    BY <1>1
  <2>2. T # {}
    BY <1>1
  <2>. QED
    BY <2>1, <2>2
<1>3. PICK t \in T : \A u \in T : ~ (<<u, t>> \in OpToRel(<, Nat))
  BY <1>2, NatLessThanWellFounded, WFMin
<1>4. \A u \in T : ~ (u < t)
  BY <1>2, <1>3 DEF OpToRel
<1>5. PICK i \in S : t = n - i
  OBVIOUS
<1> HIDE DEF T
<1>. QED
  BY <1>1, <1>4, <1>5

\* What is complete in a buffer ends with the last end of line in it.
LEMMA Completes ==
  ASSUME NEW buffer \in Seq(Byte)
  PROVE  /\ Complete(buffer) \in 0..Len(buffer)
         /\ Complete(buffer) > 0 => IsEnd(buffer[Complete(buffer)])
         /\ \A i \in DOMAIN buffer : IsEnd(buffer[i]) => i <= Complete(buffer)
<1> DEFINE ends == {i \in DOMAIN buffer : IsEnd(buffer[i])}
<1>1. Len(buffer) \in Nat /\ DOMAIN buffer = 1..Len(buffer)
  OBVIOUS
<1>2. CASE ends = {}
  BY <1>1, <1>2 DEF Complete
<1>3. CASE ends # {}
  <2>1. \E i \in ends : \A j \in ends : j <= i
    BY <1>1, <1>3, GreatestBelow, ends \in SUBSET (0..Len(buffer))
  <2>2. Complete(buffer) \in ends /\ \A j \in ends : j <= Complete(buffer)
    BY <1>3, <2>1 DEF Complete
  <2>. QED
    BY <1>1, <2>2
<1>. QED
  BY <1>2, <1>3

-----------------------------------------------------------------------------
(* Reading on from the end of a line.                                      *)

\* A whole line of the bytes that were read is parsed, wherever the chunks of
\* the file ended, if it is readable and inside the window.
LEMMA WholeLinesAreParsed ==
  ASSUME NEW content \in Seq(Byte), NEW now, Lined(content, now),
         NEW n \in Nat, n > 0 => IsEnd(content[n]),
         NEW m \in Nat, m <= Len(content), n <= m,
         NEW i \in (n + 1)..m, NEW l \in Readable, l >= floor, content[i] = End(l)
  PROVE  l \in Parsed(SubSeq(content, n + 1, m))
<1> DEFINE buffer == SubSeq(content, n + 1, m)
           j == i - n
<1>1. Len(content) \in Nat /\ DOMAIN content = 1..Len(content)
  OBVIOUS
<1>2. \A k \in (n + 1)..m : content[k] \in Byte
  BY <1>1
<1>3. /\ buffer \in Seq(Byte) /\ Len(buffer) = m - n
      /\ \A k \in 1..(m - n) : buffer[k] = content[n + k]
  BY <1>2, SubSeqProperties
<1>4. DOMAIN buffer = 1..(m - n)
  BY <1>3
<1>5. i \in DOMAIN content /\ j \in 1..(m - n) /\ buffer[j] = End(l)
  BY <1>1, <1>3
<1>6. IsEnd(content[i]) /\ content[i][1] = l /\ l \in Line
  BY Bytes, TailAssumption
<1>7. /\ i > 1 /\ i - 1 \in DOMAIN content
      /\ ~ IsEnd(content[i - 1]) /\ content[i - 1][1] = l
  <2>1. i # 1
    BY <1>5, <1>6 DEF Lined
  <2>2. i > 1 /\ i - 1 \in DOMAIN content
    BY <1>1, <1>5, <2>1
  <2>. QED
    BY <1>5, <1>6, <2>2 DEF Lined
<1>8. content[i - 1] = Text(l)
  BY <1>1, <1>7, Bytes
<1>9. i - 1 # n
  BY <1>7
<1>10. j > 1 /\ buffer[j - 1] = Text(l)
  BY <1>3, <1>5, <1>8, <1>9
<1>11. j > 2 => IsEnd(buffer[j - 2])
  <2> SUFFICES ASSUME j > 2 PROVE IsEnd(buffer[j - 2])
    OBVIOUS
  <2>1. buffer[j - 2] = content[i - 2]
    <3>1. j - 2 \in 1..(m - n) /\ n + (j - 2) = i - 2
      BY j > 2, j = i - n, j \in 1..(m - n)
    <3> HIDE DEF buffer, j
    <3>. QED
      BY <1>3, <3>1
  <2>2. i - 1 > 1 /\ (i - 1) - 1 = i - 2
    OBVIOUS
  <2>3. IsEnd(content[i - 2])
    BY <1>7, <2>2 DEF Lined
  <2>. QED
    BY <2>1, <2>3
<1> HIDE DEF buffer, j
<1>12. l \in Parsed(buffer)
  BY <1>4, <1>5, <1>10, <1>11 DEF Parsed
<1>. QED
  BY <1>12 DEF buffer

\* Splitting what was read moves the offset to the end of a line, and leaves
\* no line before it that is neither stored nor in the batch.
LEMMA MoreConsumed ==
  ASSUME NEW content \in Seq(Byte), NEW now, Lined(content, now), NEW n \in Nat, NEW S,
         Consumed(content, n, S, topFloor),
         NEW m \in Nat, n <= m, m <= Len(content), floor \in Nat, topFloor \in Nat,
         floor <= topFloor,
         NEW buffer, buffer = SubSeq(content, n + 1, m)
  PROVE  /\ buffer \in Seq(Byte) /\ Len(buffer) = m - n
         /\ Complete(buffer) \in 0..(m - n)
         /\ Consumed(content, n + Complete(buffer), S \cup Parsed(buffer), topFloor)
<1>1. Len(content) \in Nat /\ DOMAIN content = 1..Len(content)
  OBVIOUS
<1>2. \A k \in (n + 1)..m : content[k] \in Byte
  BY <1>1
<1>3. /\ buffer \in Seq(Byte) /\ Len(buffer) = m - n
      /\ \A k \in 1..(m - n) : buffer[k] = content[n + k]
  BY <1>2, SubSeqProperties
<1>4. /\ Complete(buffer) \in 0..(m - n)
      /\ Complete(buffer) > 0 => IsEnd(buffer[Complete(buffer)])
  BY <1>3, Completes
<1> DEFINE next == n + Complete(buffer)
<1>5. next \in Nat /\ n <= next /\ next <= m
  BY <1>4
<1>6. next > 0 => IsEnd(content[next])
  <2>1. CASE Complete(buffer) = 0
    BY <2>1 DEF Consumed
  <2>2. CASE Complete(buffer) > 0
    BY <1>3, <1>4, <2>2
  <2>. QED
    BY <1>4, <2>1, <2>2
<1> HIDE DEF next
<1>7. ASSUME NEW i \in 1..next, NEW l \in Readable, content[i] = End(l), l >= topFloor
      PROVE  l \in S \cup Parsed(buffer)
  <2>1. CASE i <= n
    BY <1>7, <2>1 DEF Consumed
  <2>2. CASE i > n
    <3>1. i \in (n + 1)..m
      BY <1>5, <2>2
    <3>2. l \in Nat
      BY TailAssumption DEF Line
    <3>3. l >= floor
      BY <1>7, <3>2
    <3>4. n > 0 => IsEnd(content[n])
      BY DEF Consumed
    <3>. QED
      BY <1>7, <3>1, <3>2, <3>3, <3>4, WholeLinesAreParsed
  <2>. QED
    BY <1>5, <2>1, <2>2
<1>8. Consumed(content, next, S \cup Parsed(buffer), topFloor)
  BY <1>1, <1>5, <1>6, <1>7 DEF Consumed
<1>. QED
  BY <1>3, <1>4, <1>8 DEF next

\* What was consumed of a file stays consumed while the file grows and more is
\* stored.
LEMMA ConsumedWhileGrowing ==
  ASSUME NEW s \in Seq(Byte), NEW e \in Byte, NEW n \in Nat, NEW S, NEW window,
         Consumed(s, n, S, window)
  PROVE  Consumed(Append(s, e), n, S, window)
<1>1. /\ Append(s, e) \in Seq(Byte) /\ Len(Append(s, e)) = Len(s) + 1
      /\ \A i \in 1..Len(s) : Append(s, e)[i] = s[i]
  BY AppendProperties
<1>2. Len(s) \in Nat
  OBVIOUS
<1>. QED
  BY <1>1, <1>2 DEF Consumed

\* A window that moves on owes the user less.
LEMMA ConsumedMonotonic ==
  ASSUME NEW s, NEW n, NEW S, NEW T, S \subseteq T, NEW u \in Nat, NEW v \in Nat, u <= v,
         Consumed(s, n, S, u)
  PROVE  Consumed(s, n, T, v)
<1>1. Readable \subseteq Nat
  BY TailAssumption DEF Line
<1>. QED
  BY <1>1 DEF Consumed

\* So it is with what a fingerprint says, which says nothing of a file that was
\* begun after it was taken.
LEMMA FingerprintedWhileGrowing ==
  ASSUME NEW s \in Seq(Byte), NEW e \in Byte, NEW n \in Nat, NEW print, NEW S, NEW window,
         NEW now \in Nat, NEW later \in Nat, now <= later,
         print # <<>> => print[1][1] \in Nat,
         s = <<>> => e[1] > now,
         Fingerprinted(s, n, print, S, window, now)
  PROVE  Fingerprinted(Append(s, e), n, print, S, window, later)
<1> SUFFICES ASSUME n > 0
             PROVE  /\ print # <<>> /\ print[1][1] <= later
                    /\ Append(s, e)[1] = print[1] => Consumed(Append(s, e), n, S, window)
  BY DEF Fingerprinted
<1>1. print # <<>> /\ print[1][1] \in Nat /\ print[1][1] <= now
  BY DEF Fingerprinted
<1>2. /\ \A i \in 1..Len(s) : Append(s, e)[i] = s[i]
      /\ Append(s, e)[Len(s) + 1] = e
  BY AppendProperties
<1>3. CASE s = <<>>
  <2>1. Append(s, e)[1] # print[1]
    BY <1>1, <1>2, <1>3, EmptySeq
  <2>. QED
    BY <1>1, <2>1
<1>4. CASE s # <<>>
  <2>1. Append(s, e)[1] = s[1]
    BY <1>2, <1>4
  <2>. QED
    BY <1>1, <1>4, <2>1, ConsumedWhileGrowing DEF Fingerprinted
<1>. QED
  BY <1>3, <1>4

LEMMA FingerprintedMonotonic ==
  ASSUME NEW s, NEW n, NEW print, NEW S, NEW T, S \subseteq T,
         NEW u \in Nat, NEW v \in Nat, u <= v, NEW now \in Nat, NEW later \in Nat, now <= later,
         print # <<>> => print[1][1] \in Nat,
         Fingerprinted(s, n, print, S, u, now)
  PROVE  Fingerprinted(s, n, print, T, v, later)
BY ConsumedMonotonic DEF Fingerprinted

\* Nothing is said of an empty file.
LEMMA FingerprintedEmptied ==
  ASSUME NEW s, NEW n, NEW print, NEW S, NEW window, NEW now,
         Fingerprinted(s, n, print, S, window, now)
  PROVE  Fingerprinted(<<>>, n, print, S, window, now)
BY DEF Fingerprinted

\* What a poll has consumed it may put its fingerprint to.
LEMMA FingerprintTaken ==
  ASSUME NEW s \in Seq(Byte), NEW now, Lined(s, now), NEW n \in Nat, NEW S, NEW window,
         Consumed(s, n, S, window)
  PROVE  Fingerprinted(s, n, Prefix(s, HeadLen(n)), S, window, now)
<1> SUFFICES ASSUME n > 0
             PROVE  /\ Prefix(s, HeadLen(n)) # <<>>
                    /\ Prefix(s, HeadLen(n))[1][1] <= now
  BY DEF Fingerprinted
<1>1. Len(s) \in Nat /\ n <= Len(s) /\ 1 \in DOMAIN s
  BY DEF Consumed
<1>2. HeadLen(n) \in Nat /\ HeadLen(n) >= 1 /\ HeadLen(n) <= n
  BY TailAssumption DEF HeadLen, Least
<1>3. Least(HeadLen(n), Len(s)) >= 1
  BY <1>1, <1>2 DEF Least
<1>4. /\ Prefix(s, HeadLen(n)) \in Seq(Byte)
      /\ Len(Prefix(s, HeadLen(n))) >= 1
      /\ Prefix(s, HeadLen(n))[1] = s[1]
  <2>1. /\ Prefix(s, HeadLen(n)) \in Seq(Byte)
        /\ Len(Prefix(s, HeadLen(n))) = Least(HeadLen(n), Len(s))
        /\ \A i \in 1..Least(HeadLen(n), Len(s)) : Prefix(s, HeadLen(n))[i] = s[i]
    BY <1>2, Prefixes
  <2>2. Least(HeadLen(n), Len(s)) \in Nat
    BY <1>1, <1>2 DEF Least
  <2>. QED
    BY <1>3, <2>1, <2>2
<1>5. Prefix(s, HeadLen(n)) # <<>>
  BY <1>4, EmptySeq
<1>. QED
  BY <1>1, <1>4, <1>5 DEF Lined

LEMMA PrintWhileGrowing ==
  ASSUME NEW s \in Seq(Byte), NEW e \in Byte, NEW n \in Nat, NEW print, PrintOf(s, n, print)
  PROVE  PrintOf(Append(s, e), n, print)
<1>1. Len(s) \in Nat /\ n <= Len(s) /\ Len(Append(s, e)) = Len(s) + 1
  BY AppendProperties DEF PrintOf
<1>2. HeadLen(n) \in Nat /\ HeadLen(n) <= n
  BY TailAssumption DEF HeadLen, Least
<1>3. Prefix(Append(s, e), HeadLen(n)) = Prefix(s, HeadLen(n))
  BY <1>1, <1>2, PrefixWhileGrowing
<1>. QED
  BY <1>1, <1>3 DEF PrintOf

-----------------------------------------------------------------------------
(* AdGuard's steps.                                                        *)

\* What is written is the end of the line that was begun, or the text of a line
\* that is newer than all the others.
LEMMA GrowAppends ==
  ASSUME IInv, Grow
  PROVE  \E byte \in Byte :
           /\ path \in Inode
           /\ files' = [files EXCEPT ![path] = Append(files[path], byte)]
           /\ lines' \in 0..MaxLines /\ lines <= lines'
           /\ files[path] = <<>> => byte[1] > lines
           /\ Lined(Append(files[path], byte), lines')
<1> DEFINE content == files[path]
           last == content[Len(content)]
<1>1. path \in Inode /\ content \in Seq(Byte) /\ lines \in 0..MaxLines /\ MaxLines \in Nat
  BY TailAssumption DEF Grow, IInv, TypeOK
<1>2. Lined(content, lines)
  BY <1>1 DEF IInv, FilesLined
<1>3. Len(content) \in Nat /\ DOMAIN content = 1..Len(content)
  BY <1>1
<1> HIDE DEF content
<1>4. \A byte \in Byte :
        /\ DOMAIN Append(content, byte) = 1..(Len(content) + 1)
        /\ \A i \in 1..Len(content) : Append(content, byte)[i] = content[i]
        /\ Append(content, byte)[Len(content) + 1] = byte
  BY <1>1, AppendProperties
<1>5. CASE content # <<>> /\ ~ IsEnd(last)
  <2> DEFINE byte == End(last[1])
  <2>1. Len(content) > 0 /\ last \in Byte
    BY <1>1, <1>3, <1>5
  <2>2. byte \in Byte /\ IsEnd(byte) /\ byte[1] = last[1] /\ last[1] <= lines
    BY <1>2, <1>3, <2>1, Bytes DEF Lined
  <2>3. files' = [files EXCEPT ![path] = Append(content, byte)] /\ lines' = lines
    BY <1>5 DEF Grow, content
  <2> HIDE DEF byte
  <2>4. Lined(Append(content, byte), lines')
    <3> SUFFICES ASSUME NEW n \in 1..(Len(content) + 1)
                 PROVE  LET grownBy == Append(content, byte) IN
                        /\ grownBy[n][1] <= lines
                        /\ n = 1 => ~ IsEnd(grownBy[n])
                        /\ n > 1 => /\ IsEnd(grownBy[n]) <=> ~ IsEnd(grownBy[n - 1])
                                    /\ IsEnd(grownBy[n]) => grownBy[n][1] = grownBy[n - 1][1]
      BY <1>4, <2>2, <2>3 DEF Lined
    <3>1. CASE n = Len(content) + 1
      <4>1. n - 1 = Len(content) /\ n > 1 /\ n - 1 \in 1..Len(content)
        BY <1>3, <2>1, <3>1
      <4>2. /\ Append(content, byte)[n] = byte
            /\ Append(content, byte)[n - 1] = last
        BY <1>4, <2>2, <3>1, <4>1
      <4>. QED
        BY <1>5, <2>2, <4>1, <4>2
    <3>2. CASE n \in 1..Len(content)
      <4>1. Append(content, byte)[n] = content[n]
        BY <1>4, <2>2, <3>2
      <4>2. n > 1 => Append(content, byte)[n - 1] = content[n - 1]
        BY <1>3, <1>4, <2>2, <3>2
      <4>. QED
        BY <1>2, <1>3, <3>2, <4>1, <4>2 DEF Lined
    <3>. QED
      BY <1>3, <3>1, <3>2
  <2>. byte \in Byte
    BY <2>2
  <2>. WITNESS byte \in Byte
  <2>. QED
    BY <1>1, <1>5, <2>2, <2>3, <2>4 DEF content
<1>6. CASE ~ (content # <<>> /\ ~ IsEnd(last))
  <2> DEFINE byte == Text(lines + 1)
  <2>1. /\ files' = [files EXCEPT ![path] = Append(content, byte)]
        /\ lines' = lines + 1 /\ lines < MaxLines
    BY <1>6 DEF Grow, content
  <2>2. byte \in Byte /\ ~ IsEnd(byte) /\ byte[1] = lines + 1 /\ lines' \in 0..MaxLines
    BY <1>1, <2>1, Bytes DEF Line
  <2> HIDE DEF byte
  <2>3. Lined(Append(content, byte), lines')
    <3> SUFFICES ASSUME NEW n \in 1..(Len(content) + 1)
                 PROVE  LET grownBy == Append(content, byte) IN
                        /\ grownBy[n][1] <= lines + 1
                        /\ n = 1 => ~ IsEnd(grownBy[n])
                        /\ n > 1 => /\ IsEnd(grownBy[n]) <=> ~ IsEnd(grownBy[n - 1])
                                    /\ IsEnd(grownBy[n]) => grownBy[n][1] = grownBy[n - 1][1]
      BY <1>4, <2>1, <2>2 DEF Lined
    <3>1. CASE n = Len(content) + 1
      <4>1. n > 1 => content # <<>> /\ IsEnd(content[n - 1])
        BY <1>1, <1>3, <1>6, <3>1, EmptySeq
      <4>2. n > 1 => n - 1 \in 1..Len(content)
        BY <1>3, <3>1
      <4>3. n > 1 => Append(content, byte)[n - 1] = content[n - 1]
        BY <1>4, <2>2, <4>2
      <4>4. Append(content, byte)[n] = byte
        BY <1>4, <2>2, <3>1
      <4>. QED
        BY <1>1, <2>2, <4>1, <4>3, <4>4
    <3>2. CASE n \in 1..Len(content)
      <4>1. Append(content, byte)[n] = content[n]
        BY <1>4, <2>2, <3>2
      <4>2. n > 1 => Append(content, byte)[n - 1] = content[n - 1]
        BY <1>3, <1>4, <2>2, <3>2
      <4>3. content[n][1] <= lines /\ content[n][1] \in Nat
        BY <1>1, <1>2, <1>3, <3>2, Bytes DEF Lined, Line
      <4>. QED
        BY <1>1, <1>2, <1>3, <3>2, <4>1, <4>2, <4>3 DEF Lined
    <3>. QED
      BY <1>3, <3>1, <3>2
  <2>4. byte[1] > lines /\ lines <= lines'
    BY <1>1, <2>1, <2>2
  <2>. byte \in Byte
    BY <2>2
  <2>. WITNESS byte \in Byte
  <2>. QED
    BY <1>1, <2>1, <2>2, <2>3, <2>4 DEF content
<1>. QED
  BY <1>5, <1>6

\* A file that stays as it is is well formed at any later time.
LEMMA LinedLater ==
  ASSUME NEW content \in Seq(Byte), NEW now \in Nat, NEW later \in Nat, now <= later,
         Lined(content, now)
  PROVE  Lined(content, later)
<1>1. \A n \in DOMAIN content : content[n][1] \in Nat
  BY Bytes DEF Line
<1>. QED
  BY <1>1 DEF Lined

\* The part of a file that was read stays the same while the file grows.
LEMMA PartWhileGrowing ==
  ASSUME NEW s \in Seq(Byte), NEW e \in Byte, NEW m \in Nat, NEW n \in Nat, n <= Len(s)
  PROVE  SubSeq(Append(s, e), m + 1, n) = SubSeq(s, m + 1, n)
<1>1. /\ Append(s, e) \in Seq(Byte) /\ Len(Append(s, e)) = Len(s) + 1
      /\ \A i \in 1..Len(s) : Append(s, e)[i] = s[i]
  BY AppendProperties
<1>2. \A i \in (m + 1)..n : s[i] \in Byte /\ Append(s, e)[i] = s[i]
  BY <1>1
<1>3. /\ SubSeq(s, m + 1, n) \in Seq(Byte)
      /\ Len(SubSeq(s, m + 1, n)) = IF m + 1 <= n THEN n - (m + 1) + 1 ELSE 0
      /\ \A i \in 1..(n - (m + 1) + 1) : SubSeq(s, m + 1, n)[i] = s[m + 1 + i - 1]
  BY <1>2, SubSeqProperties
<1>4. /\ SubSeq(Append(s, e), m + 1, n) \in Seq(Byte)
      /\ Len(SubSeq(Append(s, e), m + 1, n)) = IF m + 1 <= n THEN n - (m + 1) + 1 ELSE 0
      /\ \A i \in 1..(n - (m + 1) + 1) :
           SubSeq(Append(s, e), m + 1, n)[i] = Append(s, e)[m + 1 + i - 1]
  BY <1>1, <1>2, SubSeqProperties
<1>5. \A i \in 1..Len(SubSeq(s, m + 1, n)) :
        /\ i \in 1..(n - (m + 1) + 1)
        /\ m + 1 + i - 1 \in (m + 1)..n
  BY <1>3
<1>. QED
  BY <1>2, <1>3, <1>4, <1>5, SeqEqual

\* A fingerprint is of lines.
LEMMA PrintsAreOfLines ==
  ASSUME NEW print \in Seq(Byte)
  PROVE  print # <<>> => print[1][1] \in Nat
<1>1. print # <<>> => print[1] \in Byte
  OBVIOUS
<1>. QED
  BY <1>1, Bytes DEF Line

LEMMA GrowKeepsIInv ==
  ASSUME IInv, Grow
  PROVE  IInv'
<1>1. PICK byte \in Byte :
        /\ path \in Inode
        /\ files' = [files EXCEPT ![path] = Append(files[path], byte)]
        /\ lines' \in 0..MaxLines /\ lines <= lines'
        /\ files[path] = <<>> => byte[1] > lines
        /\ Lined(Append(files[path], byte), lines')
  BY GrowAppends
<1>2. UNCHANGED <<path, checkpoint, queries, poll, topFloor, nextTorn, nextGrown,
                  replacements, failures>>
  BY DEF Grow
<1>3. TypeOK /\ lines \in Nat /\ lines' \in Nat /\ topFloor \in Nat
  BY <1>1, TailAssumption DEF IInv, TypeOK
<1>4. \A i \in Inode : files[i] \in Seq(Byte)
  BY <1>3 DEF TypeOK
<1>5. \A i \in Inode : files'[i] = IF i = path THEN Append(files[i], byte) ELSE files[i]
  BY <1>1, <1>3 DEF TypeOK
<1>6. TypeOK'
  <2>1. Append(files[path], byte) \in Seq(Byte)
    BY <1>1, <1>4, AppendProperties
  <2>2. files' \in [Inode -> Seq(Byte)]
    BY <1>1, <1>3, <2>1 DEF TypeOK
  <2>. QED
    BY <1>1, <1>2, <1>3, <2>2 DEF TypeOK, checkpoint, poll
<1>7. FilesLined'
  BY <1>1, <1>3, <1>4, <1>5, LinedLater DEF IInv, FilesLined
<1>8. ASSUME NEW i \in Inode, NEW n \in Nat, NEW print \in Seq(Byte), NEW S,
             Fingerprinted(files[i], n, print, S, topFloor, lines)
      PROVE  Fingerprinted(files'[i], n, print, S, topFloor, lines')
  <2>1. print # <<>> => print[1][1] \in Nat
    BY PrintsAreOfLines
  <2>2. CASE i = path
    BY <1>1, <1>3, <1>4, <1>5, <1>8, <2>1, <2>2, FingerprintedWhileGrowing
  <2>3. CASE i # path
    BY <1>1, <1>3, <1>5, <1>8, <2>1, <2>3, FingerprintedMonotonic
  <2>. QED
    BY <2>2, <2>3
<1>9. CheckpointCounts'
  BY <1>2, <1>3, <1>8 DEF IInv, TypeOK, CheckpointCounts, checkpoint
<1>10. ReadingCounts'
  <2> SUFFICES ASSUME phase = "reading", ~ nextTorn
               PROVE  /\ Consumed(files'[handle], nextOffset, queries \cup batch, topFloor)
                      /\ pos <= Len(files'[handle])
                      /\ remainder = SubSeq(files'[handle], nextOffset + 1, pos)
    BY <1>2 DEF IInv, ReadingCounts, poll
  <2>1. handle \in Inode /\ pos \in Nat /\ nextOffset \in Nat
    BY <1>3 DEF TypeOK
  <2>2. /\ Consumed(files[handle], nextOffset, queries \cup batch, topFloor)
        /\ pos <= Len(files[handle])
        /\ remainder = SubSeq(files[handle], nextOffset + 1, pos)
    BY DEF IInv, ReadingCounts
  <2>3. CASE handle = path
    <3>1. files'[handle] = Append(files[handle], byte)
      BY <1>5, <2>1, <2>3
    <3>2. Len(files[handle]) \in Nat /\ Len(files'[handle]) = Len(files[handle]) + 1
      BY <1>4, <2>1, <3>1, AppendProperties
    <3>. QED
      BY <1>4, <2>1, <2>2, <3>1, <3>2, ConsumedWhileGrowing, PartWhileGrowing
  <2>4. CASE handle # path
    BY <1>5, <2>1, <2>2, <2>4
  <2>. QED
    BY <2>3, <2>4
<1>11. WriteCounts'
  BY <1>2, <1>3, <1>8 DEF IInv, TypeOK, WriteCounts, poll
<1>12. ASSUME NEW n \in Nat, NEW print, PrintOf(files[path], n, print)
       PROVE  PrintOf(files'[path], n, print)
  BY <1>1, <1>4, <1>5, <1>12, PrintWhileGrowing
<1>13. Len(files'[path]) >= Len(files[path])
  BY <1>1, <1>4, <1>5, AppendProperties
<1>14. GrownIsTheSame'
  <2>1. grown => key # None /\ key = path /\ PrintOf(files'[key], offset, head)
    BY <1>3, <1>12 DEF IInv, TypeOK, GrownIsTheSame
  <2>2. nextGrown /\ phase = "reading" => handle = path /\ pos <= Len(files'[handle])
    <3>1. pos \in Nat /\ Len(files[path]) \in Nat /\ Len(files'[path]) \in Nat
      BY <1>1, <1>3, <1>4, <1>5, AppendProperties DEF TypeOK
    <3>. QED
      BY <1>13, <3>1 DEF IInv, GrownIsTheSame
  <2>3. nextGrown /\ phase = "write" =>
          handle = path /\ PrintOf(files'[handle], nextOffset, nextHead)
    BY <1>3, <1>12 DEF IInv, TypeOK, GrownIsTheSame
  <2>4. nextGrown => phase # "idle" /\ handle = path
    BY DEF IInv, GrownIsTheSame
  <2>. QED
    BY <1>2, <2>1, <2>2, <2>3, <2>4 DEF GrownIsTheSame, checkpoint, poll
<1>. QED
  BY <1>6, <1>7, <1>9, <1>10, <1>11, <1>14 DEF IInv

\* A file that is emptied, or created empty, keeps every promise: nothing is
\* promised of an empty file, and no poll counts on it.
LEMMA EmptyingKeepsIInv ==
  ASSUME IInv, NEW i \in Inode, files' = [files EXCEPT ![i] = <<>>],
         path' \in Inode \cup {None}, UNCHANGED lines,
         UNCHANGED <<key, offset, head, torn>>, UNCHANGED <<queries, poll, topFloor, failures>>,
         replacements' \in Nat, nextTorn' \in BOOLEAN,
         phase = "reading" /\ handle = i => nextTorn',
         nextTorn => nextTorn',
         ~ grown' /\ ~ nextGrown', grown' \in BOOLEAN, nextGrown' \in BOOLEAN
  PROVE  IInv'
<1>1. TypeOK
  BY DEF IInv
<1>2. <<>> \in Seq(Byte) /\ DOMAIN <<>> = {}
  OBVIOUS
<1>3. \A j \in Inode : files'[j] = IF j = i THEN <<>> ELSE files[j]
  BY <1>1 DEF TypeOK
<1>4. TypeOK'
  <2>1. files' \in [Inode -> Seq(Byte)]
    BY <1>1, <1>2 DEF TypeOK
  <2>. QED
    BY <1>1, <2>1 DEF TypeOK, poll
<1>5. FilesLined'
  BY <1>2, <1>3 DEF IInv, FilesLined, Lined
<1>6. ASSUME NEW j \in Inode, NEW n, NEW print, NEW S,
             Fingerprinted(files[j], n, print, S, topFloor, lines)
      PROVE  Fingerprinted(files'[j], n, print, S, topFloor, lines)
  BY <1>3, <1>6, FingerprintedEmptied
<1>7. CheckpointCounts'
  BY <1>1, <1>6 DEF IInv, TypeOK, CheckpointCounts
<1>8. ReadingCounts'
  BY <1>1, <1>3 DEF IInv, TypeOK, ReadingCounts, poll
<1>9. WriteCounts'
  BY <1>1, <1>6 DEF IInv, TypeOK, WriteCounts, poll
<1>10. GrownIsTheSame'
  BY DEF GrownIsTheSame
<1>. QED
  BY <1>4, <1>5, <1>7, <1>8, <1>9, <1>10 DEF IInv

LEMMA TruncateKeepsIInv ==
  ASSUME IInv, Truncate
  PROVE  IInv'
<1>1. path \in Inode /\ replacements' \in Nat /\ path' = path
  BY DEF Truncate, IInv, TypeOK
<1>2. nextTorn' = (nextTorn \/ (phase = "reading" /\ handle = path))
  BY DEF Truncate
<1>3. nextTorn' \in BOOLEAN
  BY <1>2
<1>. QED
  BY <1>1, <1>2, <1>3, EmptyingKeepsIInv DEF Truncate

\* Nothing counts as grown while there is no file.
LEMMA CreateKeepsIInv ==
  ASSUME IInv, NEW i \in Inode, Create(i)
  PROVE  IInv'
<1>1. ~ grown /\ ~ nextGrown
  BY DEF Create, IInv, TypeOK, GrownIsTheSame
<1>2. UNCHANGED <<key, offset, head, torn, grown>>
  BY DEF Create, checkpoint
<1>3. /\ replacements' \in Nat /\ nextTorn' \in BOOLEAN
      /\ grown' \in BOOLEAN /\ nextGrown' \in BOOLEAN
  BY <1>2 DEF Create, IInv, TypeOK
<1>. QED
  BY <1>1, <1>2, <1>3, EmptyingKeepsIInv DEF Create

LEMMA RemoveKeepsIInv ==
  ASSUME IInv, Remove
  PROVE  IInv'
<1>1. TypeOK'
  <2>1. /\ path' = None /\ replacements' = replacements + 1
        /\ grown' = FALSE /\ nextGrown' = FALSE
        /\ UNCHANGED <<files, lines, key, offset, head, torn, queries, poll, topFloor,
                       nextTorn, failures>>
    BY DEF Remove
  <2>2. replacements' \in Nat
    BY <2>1 DEF IInv, TypeOK
  <2>. QED
    BY <2>1, <2>2 DEF IInv, TypeOK, poll
<1>2. FilesLined' /\ CheckpointCounts' /\ ReadingCounts' /\ WriteCounts'
  BY DEF Remove, IInv, FilesLined, CheckpointCounts, ReadingCounts, WriteCounts, poll
<1>3. GrownIsTheSame'
  BY DEF Remove, GrownIsTheSame
<1>. QED
  BY <1>1, <1>2, <1>3 DEF IInv

-----------------------------------------------------------------------------
(* The steps of a poll.                                                    *)

\* A poll that is over leaves the default values.
LEMMA OverIsTyped ==
  ASSUME PollOver
  PROVE  /\ phase' = "idle" /\ handle' = None /\ ~ nextTorn' /\ ~ nextGrown'
         /\ pos' \in Nat /\ nextOffset' \in Nat /\ pages' \in Nat /\ floor' \in Nat
         /\ remainder' \in Seq(Byte) /\ nextHead' \in Seq(Byte) /\ batch' \subseteq Line
         /\ nextTorn' \in BOOLEAN /\ nextGrown' \in BOOLEAN
<1>1. <<>> \in Seq(Byte) /\ {} \subseteq Line /\ 0 \in Nat
  OBVIOUS
<1>. QED
  BY <1>1 DEF PollOver

\* The offset of a file that is not replaced is behind lines that were consumed.
LEMMA NotReplacedIsConsumed ==
  ASSUME IInv, path \in Inode, ~ Replaced
  PROVE  /\ offset <= Len(files[path])
         /\ ~ torn => Consumed(files[path], offset, queries, topFloor)
<1>1. files[path] \in Seq(Byte) /\ Len(files[path]) \in Nat /\ offset \in Nat
  BY DEF IInv, TypeOK
<1>2. CASE key = None
  <2>1. offset = 0
    BY <1>2 DEF IInv, CheckpointCounts
  <2>. QED
    BY <1>1, <2>1 DEF Consumed
<1>3. CASE key # None
  <2>1. /\ key = path /\ offset <= Len(files[path])
        /\ Prefix(files[path], HeadLen(offset)) = head
    BY <1>1, <1>3 DEF Replaced
  <2>2. CASE offset = 0
    BY <1>1, <2>1, <2>2 DEF Consumed
  <2>3. CASE offset > 0
    <3>1. files[path] # <<>>
      BY <1>1, <2>1, <2>3, EmptySeq
    <3>2. HeadLen(offset) \in Nat /\ HeadLen(offset) >= 1
      BY <1>1, <2>3, TailAssumption DEF HeadLen, Least
    <3>3. 1 \in 1..Least(HeadLen(offset), Len(files[path]))
      BY <1>1, <2>1, <2>3, <3>2 DEF Least
    <3>4. head[1] = files[path][1]
      BY <1>1, <2>1, <3>2, <3>3, Prefixes
    <3>5. ~ torn => Fingerprinted(files[path], offset, head, queries, topFloor, lines)
      BY <1>3, <2>1 DEF IInv, CheckpointCounts
    <3>. QED
      BY <2>1, <2>3, <3>1, <3>4, <3>5 DEF Fingerprinted
  <2>. QED
    BY <1>1, <2>2, <2>3
<1>. QED
  BY <1>2, <1>3

\* A file that only grew is not taken for a replaced one.
LEMMA GrownIsNotReplaced ==
  ASSUME IInv, grown
  PROVE  ~ Replaced
<1>1. /\ key = path /\ key \in Inode
      /\ offset <= Len(files[path])
      /\ head = Prefix(files[path], HeadLen(offset))
  BY DEF IInv, TypeOK, GrownIsTheSame, PrintOf
<1>2. Len(files[path]) \in Nat /\ offset \in Nat
  BY <1>1 DEF IInv, TypeOK
<1>. QED
  BY <1>1, <1>2 DEF Replaced

LEMMA StartPollKeepsIInv ==
  ASSUME IInv, NEW f \in Floor, StartPoll(f)
  PROVE  IInv'
<1>1. /\ path \in Inode /\ phase' = "reading" /\ handle' = path
      /\ nextOffset' = IF Replaced THEN 0 ELSE offset
      /\ pos' = nextOffset'
      /\ remainder' = <<>> /\ batch' = {} /\ pages' = 0 /\ nextHead' = <<>>
      /\ floor' = f /\ topFloor' = Greatest(topFloor, f)
      /\ nextTorn' = (torn /\ ~ Replaced) /\ nextGrown' = TRUE
      /\ UNCHANGED <<file, checkpoint, queries, replacements, failures>>
  BY DEF StartPoll, IInv, TypeOK
<1>2. TypeOK
  BY DEF IInv
<1>3. /\ topFloor \in Nat /\ f \in Nat /\ topFloor' \in Nat
      /\ topFloor <= topFloor' /\ floor' <= topFloor'
  BY <1>1, <1>2, TailAssumption DEF TypeOK, Greatest
<1>4. nextOffset' \in Nat /\ offset \in Nat /\ files[path] \in Seq(Byte)
  BY <1>1, <1>2 DEF TypeOK
<1>5. path \in Nat \ {0}
  BY <1>1, TailAssumption
<1>6. TypeOK'
  <2>1. <<>> \in Seq(Byte) /\ {} \subseteq Line /\ 0 \in Nat
    OBVIOUS
  <2>2. (torn /\ ~ Replaced) \in BOOLEAN
    OBVIOUS
  <2>. QED
    BY <1>1, <1>2, <1>3, <1>4, <1>5, <2>1, <2>2 DEF TypeOK, file, checkpoint, None
<1>7. FilesLined'
  BY <1>1 DEF IInv, FilesLined, file
<1>8. CheckpointCounts'
  <2>1. lines \in Nat /\ head \in Seq(Byte)
    BY <1>2, TailAssumption DEF TypeOK
  <2>2. head # <<>> => head[1][1] \in Nat
    BY <2>1, PrintsAreOfLines
  <2>3. key # None /\ ~ torn =>
          Fingerprinted(files[key], offset, head, queries, topFloor', lines)
    BY <1>3, <2>1, <2>2, FingerprintedMonotonic DEF IInv, CheckpointCounts
  <2>. QED
    BY <1>1, <2>3 DEF IInv, CheckpointCounts, file, checkpoint
<1>9. ReadingCounts'
  <2>1. nextOffset' + Len(remainder') = pos'
    BY <1>1, <1>4
  <2>2. CASE Replaced
    <3>1. Consumed(files[path], 0, queries \cup {}, topFloor')
      BY <1>4 DEF Consumed
    <3>2. SubSeq(files[path], 1, 0) = <<>>
      BY SubSeqEmpty
    <3>3. 0 <= Len(files[path])
      BY <1>4
    <3>. QED
      BY <1>1, <1>3, <2>1, <2>2, <3>1, <3>2, <3>3 DEF ReadingCounts, file
  <2>3. CASE ~ Replaced
    <3>1. /\ offset <= Len(files[path])
          /\ ~ torn => Consumed(files[path], offset, queries, topFloor)
      BY <1>1, <2>3, NotReplacedIsConsumed
    <3>2. ~ torn => Consumed(files[path], offset, queries \cup {}, topFloor')
      BY <1>3, <3>1, ConsumedMonotonic
    <3>3. SubSeq(files[path], offset + 1, offset) = <<>>
      BY <1>4, SubSeqEmpty
    <3>. QED
      BY <1>1, <1>3, <1>4, <2>1, <2>3, <3>1, <3>2, <3>3 DEF ReadingCounts, file, checkpoint
  <2>. QED
    BY <2>2, <2>3
<1>10. WriteCounts'
  BY <1>1 DEF WriteCounts
<1>11. GrownIsTheSame'
  <2>1. pos' <= Len(files'[handle'])
    <3>1. ~ Replaced => offset <= Len(files[path])
      BY <1>1, NotReplacedIsConsumed
    <3>2. Len(files[path]) \in Nat
      BY <1>4
    <3>. QED
      BY <1>1, <1>4, <3>1, <3>2 DEF file
  <2>. QED
    BY <1>1, <2>1 DEF IInv, GrownIsTheSame, file, checkpoint
<1>. QED
  BY <1>6, <1>7, <1>8, <1>9, <1>10, <1>11 DEF IInv

\* What is left of a part of a file when its beginning is taken off.
LEMMA RestOfPart ==
  ASSUME NEW s \in Seq(Byte), NEW n \in Nat, NEW m \in Nat, n <= m, m <= Len(s),
         NEW k \in 0..(m - n)
  PROVE  SubSeq(SubSeq(s, n + 1, m), k + 1, m - n) = SubSeq(s, (n + k) + 1, m)
<1> DEFINE part == SubSeq(s, n + 1, m)
           rest == SubSeq(part, k + 1, m - n)
           other == SubSeq(s, (n + k) + 1, m)
<1>1. \A i \in (n + 1)..m : s[i] \in Byte
  OBVIOUS
<1>2. /\ part \in Seq(Byte) /\ Len(part) = m - n
      /\ \A i \in 1..(m - n) : part[i] = s[n + i]
  BY <1>1, SubSeqProperties
<1> HIDE DEF part
<1>3. \A i \in (k + 1)..(m - n) : part[i] \in Byte
  BY <1>2
<1>4. /\ rest \in Seq(Byte) /\ Len(rest) = (m - n) - k
      /\ \A i \in 1..((m - n) - k) : rest[i] = part[k + i]
  BY <1>3, SubSeqProperties
<1>5. \A i \in ((n + k) + 1)..m : s[i] \in Byte
  BY <1>1
<1>6. /\ other \in Seq(Byte) /\ Len(other) = (m - n) - k
      /\ \A i \in 1..((m - n) - k) : other[i] = s[(n + k) + i]
  BY <1>5, SubSeqProperties
<1> HIDE DEF rest, other
<1>7. \A i \in 1..((m - n) - k) : rest[i] = other[i]
  <2> TAKE i \in 1..((m - n) - k)
  <2>1. k + i \in 1..(m - n) /\ n + (k + i) = (n + k) + i
    OBVIOUS
  <2>. QED
    BY <1>2, <1>4, <1>6, <2>1
<1>8. rest = other
  BY <1>4, <1>6, <1>7, SeqEqual
<1>. QED
  BY <1>8 DEF part, rest, other

\* A chunk is what comes next in the file.
LEMMA ChunkComesNext ==
  ASSUME IInv, phase = "reading", Chunk # <<>>
  PROVE  /\ handle \in Inode /\ Chunk \in Seq(Byte)
         /\ pos + Len(Chunk) \in Nat /\ pos < pos + Len(Chunk)
         /\ pos + Len(Chunk) <= Len(files[handle])
         /\ Chunk = SubSeq(files[handle], pos + 1, pos + Len(Chunk))
<1> DEFINE content == files[handle]
           last == Least(pos + ChunkBytes, Len(content))
<1>1. /\ handle \in Inode /\ content \in Seq(Byte) /\ Len(content) \in Nat /\ pos \in Nat
  BY DEF IInv, TypeOK
<1>2. last \in Nat /\ last <= Len(content)
  BY <1>1, TailAssumption DEF Least
<1>3. Chunk = SubSeq(content, pos + 1, last)
  BY DEF Chunk
<1> HIDE DEF last
<1>4. \A i \in (pos + 1)..last : content[i] \in Byte
  BY <1>1, <1>2
<1> HIDE DEF content
<1>5. /\ Chunk \in Seq(Byte)
      /\ Len(Chunk) = IF pos + 1 <= last THEN last - (pos + 1) + 1 ELSE 0
  BY <1>1, <1>2, <1>3, <1>4, SubSeqProperties
<1>6. Len(Chunk) # 0
  BY <1>5, EmptySeq
<1>7. pos + Len(Chunk) = last /\ pos < last
  BY <1>1, <1>2, <1>5, <1>6
<1>. QED
  BY <1>1, <1>2, <1>3, <1>5, <1>7 DEF content

LEMMA ReadChunkKeepsIInv ==
  ASSUME IInv, ReadChunk
  PROVE  IInv'
<1> DEFINE content == files[handle]
           buffer == remainder \o Chunk
           next == nextOffset + Complete(buffer)
<1>1. /\ phase = "reading" /\ Chunk # <<>>
      /\ pages' = pages + 1 /\ pos' = pos + Len(Chunk)
      /\ batch' = batch \cup Parsed(buffer)
      /\ nextOffset' = next
      /\ remainder' = SubSeq(buffer, Complete(buffer) + 1, Len(buffer))
      /\ UNCHANGED <<file, checkpoint, queries, phase, handle, nextHead, floor, topFloor,
                     nextTorn, nextGrown, replacements, failures>>
  BY DEF ReadChunk
<1>2. TypeOK
  BY DEF IInv
<1>3. /\ handle \in Inode /\ content \in Seq(Byte) /\ Chunk \in Seq(Byte)
      /\ pos' \in Nat /\ pos < pos'
      /\ pos' <= Len(content)
      /\ Chunk = SubSeq(content, pos + 1, pos')
  BY <1>1, <1>2, ChunkComesNext DEF TypeOK
<1>4. /\ pos \in Nat /\ nextOffset \in Nat /\ remainder \in Seq(Byte)
      /\ nextOffset + Len(remainder) = pos /\ floor <= topFloor
      /\ floor \in Nat /\ topFloor \in Nat
  BY <1>1, <1>2 DEF IInv, TypeOK, ReadingCounts
<1>5. buffer \in Seq(Byte) /\ Len(buffer) = Len(remainder) + Len(Chunk)
  BY <1>3, <1>4, ConcatProperties
<1>6. Len(remainder) \in Nat /\ Len(Chunk) \in Nat
  BY <1>3, <1>4, LenProperties
<1>7. Complete(buffer) \in 0..Len(buffer)
  BY <1>5, Completes
<1>8. \A i \in (Complete(buffer) + 1)..Len(buffer) : buffer[i] \in Byte
  BY <1>5, <1>7
<1> HIDE DEF buffer
<1>9. /\ remainder' \in Seq(Byte)
      /\ Len(remainder') = Len(buffer) - Complete(buffer)
  <2>1. /\ remainder' \in Seq(Byte)
        /\ Len(remainder') = IF Complete(buffer) + 1 <= Len(buffer)
                             THEN Len(buffer) - (Complete(buffer) + 1) + 1 ELSE 0
    BY <1>1, <1>5, <1>6, <1>7, <1>8, SubSeqProperties
  <2>. QED
    BY <1>5, <1>6, <1>7, <2>1
<1>10. nextOffset' \in Nat /\ nextOffset' + Len(remainder') = pos'
  <2>1. Complete(buffer) \in Nat /\ Len(buffer) \in Nat
    BY <1>5, <1>6, <1>7
  <2>2. pos' = pos + Len(Chunk) /\ nextOffset' = nextOffset + Complete(buffer)
    BY <1>1
  <2>3. nextOffset + Len(remainder) = pos
    BY <1>4
  <2>4. Len(remainder') = Len(remainder) + Len(Chunk) - Complete(buffer)
    BY <1>5, <1>6, <1>9, <2>1
  <2>5. nextOffset \in Nat /\ pos \in Nat
    BY <1>4
  <2>. QED
    BY <1>6, <2>1, <2>2, <2>3, <2>4, <2>5
<1>11. Parsed(buffer) \subseteq Line
  BY TailAssumption DEF Parsed
<1>12. TypeOK'
  <2>1. pages' \in Nat
    BY <1>1, <1>2 DEF TypeOK
  <2>2. batch' \subseteq Line
    BY <1>1, <1>2, <1>11 DEF TypeOK
  <2>. QED
    BY <1>1, <1>2, <1>3, <1>9, <1>10, <2>1, <2>2 DEF TypeOK, file, checkpoint
<1>13. FilesLined' /\ CheckpointCounts' /\ WriteCounts'
  BY <1>1 DEF IInv, FilesLined, CheckpointCounts, WriteCounts, file, checkpoint
<1>14. ReadingCounts'
  <2> SUFFICES ASSUME ~ nextTorn
               PROVE  /\ Consumed(content, next, queries \cup batch', topFloor)
                      /\ remainder' = SubSeq(content, next + 1, pos')
    BY <1>1, <1>3, <1>4, <1>10 DEF ReadingCounts, file
  <2>1. /\ Consumed(content, nextOffset, queries \cup batch, topFloor)
        /\ pos <= Len(content)
        /\ remainder = SubSeq(content, nextOffset + 1, pos)
    BY <1>1 DEF IInv, ReadingCounts
  <2>2. Lined(content, lines)
    BY <1>3 DEF IInv, FilesLined
  <2>3. nextOffset <= pos
    BY <1>4, <1>6
  <2> HIDE DEF content
  <2>4. buffer = SubSeq(content, nextOffset + 1, pos')
    <3>1. /\ nextOffset + 1 \in 1..(Len(content) + 1)
          /\ pos \in ((nextOffset + 1) - 1)..Len(content)
          /\ pos' \in pos..Len(content)
      BY <1>3, <1>4, <2>1, <2>3
    <3>. QED
      BY <1>3, <2>1, <3>1, ConcatAdjacentSubSeq DEF buffer
  <2>5. Consumed(content, next, (queries \cup batch) \cup Parsed(buffer), topFloor)
    <3>1. nextOffset <= pos'
      BY <1>3, <1>4, <2>3
    <3>. QED
      BY <1>3, <1>4, <2>1, <2>2, <2>4, <3>1, MoreConsumed
  <2>6. remainder' = SubSeq(content, next + 1, pos')
    <3>1. Len(buffer) = pos' - nextOffset
      <4>1. pos' = pos + Len(Chunk)
        BY <1>1
      <4>. QED
        BY <1>4, <1>5, <1>6, <4>1
    <3>2. /\ remainder' = SubSeq(buffer, Complete(buffer) + 1, pos' - nextOffset)
          /\ Complete(buffer) \in 0..(pos' - nextOffset)
      BY <1>1, <1>7, <3>1
    <3>3. nextOffset <= pos' /\ pos' \in Nat /\ nextOffset \in Nat
      BY <1>3, <1>4, <2>3
    <3>. QED
      BY <1>3, <2>4, <3>2, <3>3, RestOfPart
  <2>7. (queries \cup batch) \cup Parsed(buffer) = queries \cup batch'
    BY <1>1
  <2>. QED
    BY <2>5, <2>6, <2>7
<1>15. GrownIsTheSame'
  BY <1>1, <1>3 DEF IInv, GrownIsTheSame, file, checkpoint
<1>. QED
  BY <1>12, <1>13, <1>14, <1>15 DEF IInv

LEMMA CloseFileKeepsIInv ==
  ASSUME IInv, CloseFile
  PROVE  IInv'
<1> DEFINE content == files[handle]
<1>1. /\ phase = "reading" /\ phase' = "write"
      /\ nextHead' = Prefix(content, HeadLen(nextOffset))
      /\ UNCHANGED <<file, checkpoint, queries, handle, pos, nextOffset, remainder, batch,
                     pages, floor, topFloor, nextTorn, nextGrown, replacements, failures>>
  BY DEF CloseFile
<1>2. /\ TypeOK /\ handle \in Inode /\ content \in Seq(Byte) /\ Len(content) \in Nat
      /\ nextOffset \in Nat /\ pos \in Nat
  BY <1>1 DEF IInv, TypeOK
<1>3. HeadLen(nextOffset) \in Nat
  BY <1>2, TailAssumption DEF HeadLen, Least
<1>4. nextHead' \in Seq(Byte)
  BY <1>1, <1>2, <1>3, Prefixes
<1>5. TypeOK'
  BY <1>1, <1>2, <1>4 DEF TypeOK, file, checkpoint
<1>6. FilesLined' /\ CheckpointCounts' /\ ReadingCounts'
  BY <1>1 DEF IInv, FilesLined, CheckpointCounts, ReadingCounts, file, checkpoint
<1>7. WriteCounts'
  <2> SUFFICES ASSUME ~ nextTorn
               PROVE  Fingerprinted(content, nextOffset, Prefix(content, HeadLen(nextOffset)),
                                    queries \cup batch, topFloor, lines)
    BY <1>1 DEF WriteCounts, file
  <2>1. Consumed(content, nextOffset, queries \cup batch, topFloor)
    BY <1>1 DEF IInv, ReadingCounts
  <2>2. Lined(content, lines)
    BY <1>2 DEF IInv, FilesLined
  <2> HIDE DEF content
  <2>. QED
    BY <1>2, <2>1, <2>2, FingerprintTaken
<1>8. GrownIsTheSame'
  <2>1. nextGrown => handle = path /\ PrintOf(content, nextOffset, nextHead')
    <3>1. remainder \in Seq(Byte) /\ Len(remainder) \in Nat
      BY <1>2 DEF TypeOK
    <3>2. nextOffset <= pos
      BY <1>1, <1>2, <3>1 DEF IInv, ReadingCounts
    <3>3. nextGrown => handle = path /\ pos <= Len(content)
      BY <1>1 DEF IInv, GrownIsTheSame
    <3>. QED
      BY <1>1, <1>2, <3>2, <3>3 DEF PrintOf
  <2>. QED
    BY <1>1, <2>1 DEF IInv, GrownIsTheSame, file, checkpoint
<1>. QED
  BY <1>5, <1>6, <1>7, <1>8 DEF IInv

LEMMA WriteKeepsIInv ==
  ASSUME IInv, Write
  PROVE  IInv'
<1>1. /\ phase = "write" /\ PollOver
      /\ queries' = queries \cup batch
      /\ key' = handle /\ offset' = nextOffset /\ head' = nextHead
      /\ torn' = nextTorn /\ grown' = nextGrown
      /\ UNCHANGED <<file, topFloor, replacements, failures>>
  BY DEF Write
<1>2. TypeOK /\ handle \in Inode /\ handle # None
  BY <1>1 DEF IInv, TypeOK
<1>3. /\ phase' = "idle" /\ handle' = None /\ ~ nextTorn' /\ ~ nextGrown'
      /\ pos' \in Nat /\ nextOffset' \in Nat /\ pages' \in Nat /\ floor' \in Nat
      /\ remainder' \in Seq(Byte) /\ nextHead' \in Seq(Byte) /\ batch' \subseteq Line
      /\ nextTorn' \in BOOLEAN /\ nextGrown' \in BOOLEAN
  BY <1>1, OverIsTyped
<1>4. TypeOK'
  BY <1>1, <1>2, <1>3 DEF TypeOK, file
<1>5. FilesLined'
  BY <1>1 DEF IInv, FilesLined, file
<1>6. CheckpointCounts'
  BY <1>1, <1>2 DEF IInv, CheckpointCounts, WriteCounts, file
<1>7. ReadingCounts' /\ WriteCounts'
  BY <1>3 DEF ReadingCounts, WriteCounts
<1>8. GrownIsTheSame'
  BY <1>1, <1>2, <1>3 DEF IInv, GrownIsTheSame, file
<1>. QED
  BY <1>4, <1>5, <1>6, <1>7, <1>8 DEF IInv

LEMMA FailKeepsIInv ==
  ASSUME IInv, Fail
  PROVE  IInv'
<1>1. /\ PollOver /\ failures' = failures + 1
      /\ UNCHANGED <<file, checkpoint, queries, topFloor, replacements>>
  BY DEF Fail
<1>2. /\ phase' = "idle" /\ handle' = None /\ ~ nextTorn' /\ ~ nextGrown'
      /\ pos' \in Nat /\ nextOffset' \in Nat /\ pages' \in Nat /\ floor' \in Nat
      /\ remainder' \in Seq(Byte) /\ nextHead' \in Seq(Byte) /\ batch' \subseteq Line
      /\ nextTorn' \in BOOLEAN /\ nextGrown' \in BOOLEAN
  BY <1>1, OverIsTyped
<1>3. TypeOK'
  <2>1. failures' \in Nat
    BY <1>1 DEF IInv, TypeOK
  <2>. QED
    BY <1>1, <1>2, <2>1 DEF IInv, TypeOK, file, checkpoint
<1>4. FilesLined' /\ CheckpointCounts'
  BY <1>1 DEF IInv, FilesLined, CheckpointCounts, file, checkpoint
<1>5. ReadingCounts' /\ WriteCounts'
  BY <1>2 DEF ReadingCounts, WriteCounts
<1>6. GrownIsTheSame'
  BY <1>1, <1>2 DEF IInv, GrownIsTheSame, file, checkpoint
<1>. QED
  BY <1>3, <1>4, <1>5, <1>6 DEF IInv

-----------------------------------------------------------------------------
(* The theorems.                                                           *)

LEMMA InitIInv == Init => IInv
<1> SUFFICES ASSUME Init PROVE IInv
  OBVIOUS
<1>1. <<>> \in Seq(Byte) /\ DOMAIN <<>> = {} /\ 0 \in 0..MaxLines
  BY TailAssumption
<1>2. TypeOK
  BY <1>1 DEF Init, TypeOK
<1>3. FilesLined
  BY <1>1 DEF Init, FilesLined, Lined
<1>4. CheckpointCounts /\ ReadingCounts /\ WriteCounts /\ GrownIsTheSame
  BY DEF Init, CheckpointCounts, ReadingCounts, WriteCounts, GrownIsTheSame
<1>. QED
  BY <1>2, <1>3, <1>4 DEF IInv

LEMMA NextIInv == IInv /\ [Next]_vars => IInv'
<1> SUFFICES ASSUME IInv, [Next]_vars PROVE IInv'
  OBVIOUS
<1>1. ASSUME NEW f \in Floor, StartPoll(f) PROVE IInv'
  BY <1>1, StartPollKeepsIInv
<1>2. ASSUME ReadChunk \/ CloseFile \/ Write \/ Fail PROVE IInv'
  BY <1>2, ReadChunkKeepsIInv, CloseFileKeepsIInv, WriteKeepsIInv, FailKeepsIInv
<1>3. ASSUME Grow \/ Remove \/ Truncate PROVE IInv'
  BY <1>3, GrowKeepsIInv, RemoveKeepsIInv, TruncateKeepsIInv
<1>4. ASSUME NEW i \in Inode, Create(i) PROVE IInv'
  BY <1>4, CreateKeepsIInv
<1>5. CASE UNCHANGED vars
  BY <1>5 DEF vars, file, checkpoint, poll, IInv, TypeOK, FilesLined, CheckpointCounts,
     ReadingCounts, WriteCounts, GrownIsTheSame
<1>. QED
  BY <1>1, <1>2, <1>3, <1>4, <1>5 DEF Next, Poll

LEMMA AlwaysIInv == TailSpec => []IInv
BY InitIInv, NextIInv, PTL DEF TailSpec

\* Whatever the next poll would pass over as consumed has been stored, be the
\* file rotated, replaced under the same inode, emptied, or half written when it
\* was read, and whichever poll failed (ingest/file_provider.py).
THEOREM NothingIsPassedOver == TailSpec => []NothingPassedOver
<1>1. IInv => NothingPassedOver
  <2> SUFFICES ASSUME IInv, path # None, ~ torn, ~ Replaced,
                      NEW l \in Line, NEW i \in 1..offset, Owed(l), EndsAt(l, i)
               PROVE  l \in queries
    BY DEF NothingPassedOver
  <2>1. path \in Inode
    BY DEF IInv, TypeOK
  <2>2. Consumed(files[path], offset, queries, topFloor)
    BY <2>1, NotReplacedIsConsumed
  <2>. QED
    BY <2>2 DEF Consumed, Owed, EndsAt
<1>. QED
  BY <1>1, AlwaysIInv, PTL

\* A file that was only appended to is read on where it was left: the inode, the
\* length and the fingerprint of what was consumed do not change under appends.
THEOREM AppendingNeverRotates == TailSpec => AppendingIsNoRotation
<1>1. IInv /\ [Next]_vars =>
        [phase = "idle" /\ phase' = "reading" /\ grown => nextOffset' = offset]_vars
  <2> SUFFICES ASSUME IInv, Next, phase = "idle", phase' = "reading", grown
               PROVE  nextOffset' = offset
    OBVIOUS
  <2>1. PICK f \in Floor : StartPoll(f)
    BY DEF Next, Poll, ReadChunk, CloseFile, Write, Fail, PollOver, Grow, Remove, Truncate,
       Create, poll
  <2>2. ~ Replaced
    BY GrownIsNotReplaced
  <2>. QED
    BY <2>1, <2>2 DEF StartPoll
<1>. QED
  BY <1>1, AlwaysIInv, PTL DEF TailSpec, AppendingIsNoRotation
=============================================================================
