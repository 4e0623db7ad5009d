----------------------------- MODULE Logs_proofs -----------------------------
(***************************************************************************)
(* Proofs about the logs.  Of the lines of MCLogs: what the agent's        *)
(* watcher reads of a file (LogTail), what the viewer shows of a buffer    *)
(* (LogView).  Of LogRecords: the statistics of a log (MonitorState) and   *)
(* the transfer of a day's files (LogHistory).                             *)
(***************************************************************************)
EXTENDS MCLogs, LogRecords, SequenceTheorems, FiniteSetTheorems, WellFoundedInduction,
        TLAPS

-----------------------------------------------------------------------------
(* The watcher.                                                            *)

Half == Nat \X Nat
Reading == [at : {"reading"}, file : Followed, from : Nat]
Delivering == [at : {"delivering"}, file : Followed, halves : Seq(Half)]

TailType ==
  /\ size \in [Followed -> Nat]
  /\ gen \in [Followed -> Nat]
  /\ watched \subseteq Followed
  /\ DOMAIN positions \subseteq Followed
  /\ positions \in [DOMAIN positions -> Nat]
  /\ queue \in Seq(Followed)
  /\ consumer \in {T!Idle, T!Dead} \cup Reading \cup Delivering
  /\ orphans \subseteq Reading
  /\ reloads \in Nat /\ faults \in Nat
  /\ seen \in [Followed -> Seq(Half)]
  /\ start \in [Followed -> Nat]

\* What the callback was given and is still to be given of a file.
Text(f) == seen[f] \o T!Undelivered(f)

\* A file that was not rotated is no shorter than any place the watcher knows in it.
NotBeyond(f) ==
  gen[f] = 0 =>
    /\ f \in DOMAIN positions
    /\ start[f] <= positions[f] /\ positions[f] <= size[f]
    /\ consumer.at = "reading" /\ consumer.file = f => consumer.from <= size[f]
    /\ \A r \in orphans : r.file = f => r.from <= size[f]

Ordered(text) == \A i \in 1 .. Len(text) - 1 : T!Before(text[i], text[i + 1])

\* What the text has of a generation lies before a place that is not past the top.
UpTo(text, generation, place, top) ==
  \A i \in 1 .. Len(text) :
    \/ text[i][1] < generation
    \/ /\ text[i][1] = generation
       /\ 0 < text[i][2] /\ text[i][2] <= place /\ place <= top

\* What was read is in order, and all of it that is of the file's present generation
\* lies before every place a later read can begin at.
ReadBefore(f) ==
  gen[f] = 0 \/ reloads = 0 =>
    /\ Ordered(Text(f))
    /\ UpTo(Text(f), gen[f], T!Position(f), size[f])
    /\ consumer.at = "reading" /\ consumer.file = f =>
         UpTo(Text(f), gen[f], consumer.from, size[f])

\* Nothing is left out before the place of the next read.
ReadFrom(f) ==
  gen[f] = 0 /\ reloads = 0 /\ faults = 0 =>
    /\ Text(f) = [i \in 1 .. T!Position(f) - start[f] |-> <<0, start[f] + i>>]
    /\ consumer.at = "reading" /\ consumer.file = f => consumer.from = T!Position(f)

TailInv ==
  /\ TailType
  /\ reloads = 0 => orphans = {}
  /\ \A f \in Followed : NotBeyond(f) /\ ReadBefore(f) /\ ReadFrom(f)

-----------------------------------------------------------------------------

LEMMA FunctionIsSeq ==
  ASSUME NEW S, NEW n \in Nat, NEW g \in [1 .. n -> S]
  PROVE  g \in Seq(S)
BY SeqDef

LEMMA SameInterval ==
  ASSUME NEW j \in Nat, NEW k \in Nat, 1 .. j = 1 .. k
  PROVE  j = k
<1>1. j > 0 => j \in 1 .. k
  OBVIOUS
<1>2. k > 0 => k \in 1 .. j
  OBVIOUS
<1>3. QED
  BY <1>1, <1>2

LEMMA PlacesOfConcat ==
  ASSUME NEW S, NEW a \in Seq(S), NEW b \in Seq(S)
  PROVE  /\ a \o b \in Seq(S) /\ Len(a \o b) = Len(a) + Len(b)
         /\ Len(a) \in Nat /\ Len(b) \in Nat
         /\ \A i \in 1 .. Len(a) : (a \o b)[i] = a[i]
         /\ \A i \in 1 .. Len(b) : (a \o b)[Len(a) + i] = b[i]
<1>1. Len(a) \in Nat /\ Len(b) \in Nat
  BY LenProperties
<1>2. /\ a \o b \in Seq(S) /\ Len(a \o b) = Len(a) + Len(b)
      /\ \A i \in 1 .. Len(a) + Len(b) :
           (a \o b)[i] = IF i <= Len(a) THEN a[i] ELSE b[i - Len(a)]
  BY ConcatProperties
<1>3. ASSUME NEW i \in 1 .. Len(b)
      PROVE  (a \o b)[Len(a) + i] = b[i]
  <2>1. Len(a) + i \in 1 .. Len(a) + Len(b) /\ ~(Len(a) + i <= Len(a)) /\ Len(a) + i - Len(a) = i
    BY <1>1
  <2>2. QED
    BY <1>2, <2>1
<1>4. \A i \in 1 .. Len(a) : i \in 1 .. Len(a) + Len(b) /\ i <= Len(a)
  BY <1>1
<1>5. QED
  BY <1>1, <1>2, <1>3, <1>4

LEMMA EventsAreOfFiles ==
  ASSUME queue \in Seq(Followed), NEW f \in Followed, T!Event(f)
  PROVE  queue' \in Seq(Followed)
<1>1. CASE queue' = queue
  BY <1>1
<1>2. CASE queue' = Append(queue, f)
  BY <1>2, AppendProperties
<1>3. QED
  BY <1>1, <1>2 DEF T!Event

\* A set of files in any order is a sequence of files.
LEMMA OrdersAreSequences ==
  ASSUME NEW S \in SUBSET Followed, NEW s \in T!SetToSeqs(S)
  PROVE  s \in Seq(Followed)
<1>1. IsFiniteSet(S)
  BY FiniteFollowed, FS_Subset
<1>2. Cardinality(S) \in Nat
  BY <1>1, FS_CardinalityType
<1>3. s \in [1 .. Cardinality(S) -> S]
  BY DEF T!SetToSeqs, T!Cardinality, Cardinality
<1>4. QED
  BY <1>2, <1>3, SeqDef

LEMMA TailStarts ==
  ASSUME T!Init
  PROVE  TailInv
<1>1. TailType
  BY DEF T!Init, TailType, T!Idle
<1>2. ASSUME NEW f \in Followed
      PROVE  Text(f) = <<>> /\ T!Position(f) = size[f]
  BY DEF T!Init, Text, T!Undelivered, T!Idle, T!Position
<1>3. ASSUME NEW f \in Followed
      PROVE  NotBeyond(f) /\ ReadBefore(f) /\ ReadFrom(f)
  <2>1. NotBeyond(f)
    BY <1>1 DEF T!Init, TailType, NotBeyond, T!Idle
  <2>2. ReadBefore(f)
    BY <1>2 DEF ReadBefore, Ordered, UpTo
  <2>3. ReadFrom(f)
    <3>1. T!Position(f) - start[f] = 0 /\ consumer.at # "reading"
      BY <1>1, <1>2 DEF T!Init, TailType, T!Idle
    <3>2. [i \in 1 .. T!Position(f) - start[f] |-> <<0, start[f] + i>>] = <<>>
      BY <3>1
    <3>3. QED
      BY <1>2, <3>1, <3>2 DEF ReadFrom
  <2>4. QED
    BY <2>1, <2>2, <2>3
<1>4. QED
  BY <1>1, <1>3 DEF TailInv, T!Init

\* Every step keeps the types; that of Deliver is in DeliverKeeps.
LEMMA TailKeepsType ==
  ASSUME TailType, T!Next, ~T!Deliver
  PROVE  TailType'
<1> USE DEF TailType
<1>1. ASSUME NEW f \in Followed, T!Write(f)
      PROVE  TailType'
  <2>1. size' \in [Followed -> Nat]
    BY <1>1 DEF T!Write
  <2>2. queue' \in Seq(Followed)
    BY <1>1, EventsAreOfFiles DEF T!Write
  <2>3. QED
    BY <1>1, <2>1, <2>2 DEF T!Write
<1>2. ASSUME NEW f \in Followed, T!Rotate(f)
      PROVE  TailType'
  <2>1. queue' \in Seq(Followed)
    BY <1>2, EventsAreOfFiles DEF T!Rotate
  <2>2. QED
    BY <1>2, <2>1 DEF T!Rotate
<1>3. ASSUME T!Poll
      PROVE  TailType'
  <2> DEFINE longer == {f \in watched : size[f] > T!Position(f)}
  <2>1. \A s \in T!SetToSeqs(longer) : s \in Seq(Followed)
    BY OrdersAreSequences
  <2>2. queue' \in Seq(Followed)
    <3>1. PICK s \in T!SetToSeqs(longer) : queue' = queue \o s
      BY <1>3 DEF T!Poll
    <3>2. QED
      BY <2>1, <3>1, ConcatProperties
  <2>3. QED
    BY <1>3, <2>2 DEF T!Poll
<1>4. ASSUME T!Take
      PROVE  TailType'
  <2>1. Head(queue) \in Followed /\ queue' \in Seq(Followed)
    BY <1>4 DEF T!Take
  <2>2. consumer' \in Reading
    BY <1>4, <2>1 DEF T!Take, Reading, T!Position
  <2>3. QED
    BY <1>4, <2>1, <2>2 DEF T!Take
<1>5. ASSUME T!TakeMissing
      PROVE  TailType'
  BY <1>5 DEF T!TakeMissing
<1>6. ASSUME T!Read
      PROVE  TailType'
  <2>1. consumer \in Reading
    BY <1>6 DEF T!Read, T!Idle, T!Dead, Delivering
  <2> DEFINE f == consumer.file
             n == consumer.from
  <2>2. f \in Followed /\ n \in Nat
    BY <2>1 DEF Reading
  <2>3. T!Halves(f, n) \in Seq(Half)
    <3>1. CASE size[f] - n \in Nat
      <4>1. \A i \in 1 .. size[f] - n : <<gen[f], n + i>> \in Half
        BY <2>2 DEF Half
      <4>2. T!Halves(f, n) \in [1 .. size[f] - n -> Half]
        BY <4>1 DEF T!Halves
      <4>3. QED
        BY <3>1, <4>2, FunctionIsSeq
    <3>2. CASE size[f] - n \notin Nat
      BY <2>2, <3>2 DEF T!Halves
    <3>3. QED
      BY <3>1, <3>2
  <2>4. consumer' \in Delivering
    BY <1>6, <2>2, <2>3 DEF T!Read, Delivering
  <2>5. DOMAIN positions' \subseteq Followed /\ positions' \in [DOMAIN positions' -> Nat]
    BY <1>6, <2>2 DEF T!Read, T!Noted, T!EndOf
  <2>6. QED
    BY <1>6, <2>4, <2>5 DEF T!Read
<1>7. ASSUME T!ReadRaises
      PROVE  TailType'
  BY <1>7 DEF T!ReadRaises
<1>8. ASSUME T!Stop
      PROVE  TailType'
  BY <1>8 DEF T!Stop
<1>9. ASSUME NEW files \in SUBSET Followed \ {{}}, T!Restart(files)
       PROVE  TailType'
  <2>1. orphans' \subseteq Reading
    BY <1>9 DEF T!Restart, T!Idle, T!Dead, Delivering
  <2>2. DOMAIN positions' \subseteq Followed /\ positions' \in [DOMAIN positions' -> Nat]
    BY <1>9 DEF T!Restart, T!Seeded
  <2>3. QED
    BY <1>9, <2>1, <2>2 DEF T!Restart
<1>10. ASSUME NEW r \in orphans, T!OrphanRead(r)
       PROVE  TailType'
  BY <1>10 DEF T!OrphanRead, T!Noted, T!EndOf, Reading
<1>11. QED
  BY <1>1, <1>2, <1>3, <1>4, <1>5, <1>6, <1>7, <1>8, <1>9, <1>10 DEF T!Next

-----------------------------------------------------------------------------

LEMMA TextType ==
  ASSUME TailType, NEW f \in Followed
  PROVE  /\ seen[f] \in Seq(Half) /\ T!Undelivered(f) \in Seq(Half) /\ Text(f) \in Seq(Half)
         /\ \A i \in 1 .. Len(Text(f)) : Text(f)[i][1] \in Nat /\ Text(f)[i][2] \in Nat
<1>1. seen[f] \in Seq(Half)
  BY DEF TailType
<1>2. T!Undelivered(f) \in Seq(Half)
  BY DEF TailType, T!Undelivered, Delivering, Reading, T!Idle, T!Dead
<1>3. Text(f) \in Seq(Half)
  BY <1>1, <1>2, ConcatProperties DEF Text
<1>4. \A i \in 1 .. Len(Text(f)) : Text(f)[i] \in Half
  BY <1>3, ElementOfSeq
<1>5. QED
  BY <1>1, <1>2, <1>3, <1>4 DEF Half

LEMMA ReaderType ==
  ASSUME TailType, consumer.at = "reading"
  PROVE  consumer.file \in Followed /\ consumer.from \in Nat
<1>1. consumer \in Reading
  BY DEF TailType, T!Idle, T!Dead, Delivering
<1>2. QED
  BY <1>1 DEF Reading

LEMMA SameText ==
  ASSUME consumer' = consumer, seen' = seen, NEW f
  PROVE  Text(f)' = Text(f)
BY DEF Text, T!Undelivered

LEMMA PositionType ==
  ASSUME TailType, NEW f \in Followed
  PROVE  T!Position(f) \in Nat
BY DEF TailType, T!Position

\* The file grows.
LEMMA WriteKeeps ==
  ASSUME TailInv, TailType', NEW g \in Followed, T!Write(g)
  PROVE  TailInv'
<1>1. size' \in [Followed -> Nat] /\ \A f \in Followed : size[f] <= size'[f]
  BY DEF TailInv, TailType, T!Write
<1> USE <1>1
<1>2. SUFFICES ASSUME NEW f \in Followed
               PROVE  (NotBeyond(f) /\ ReadBefore(f) /\ ReadFrom(f))'
  BY DEF TailInv, T!Write
<1>3. Text(f)' = Text(f) /\ T!Position(f)' = T!Position(f) /\ T!Position(f) \in Nat
  BY SameText, PositionType DEF T!Write, T!Position, TailInv
<1>4. /\ gen' = gen /\ consumer' = consumer /\ reloads' = reloads /\ faults' = faults
      /\ start' = start /\ orphans' = orphans /\ positions' = positions
  BY DEF T!Write
<1>5. NotBeyond(f)'
  <2>1. NotBeyond(f)
    BY DEF TailInv
  <2>2. \A r \in orphans : r.from \in Nat
    BY DEF TailInv, TailType, Reading
  <2>3. consumer.at = "reading" => consumer.from \in Nat
    BY ReaderType DEF TailInv
  <2>4. /\ size[f] \in Nat /\ size'[f] \in Nat /\ start[f] \in Nat
        /\ f \in DOMAIN positions => positions[f] \in Nat
    BY DEF TailInv, TailType
  <2>5. QED
    BY <1>4, <2>1, <2>2, <2>3, <2>4 DEF NotBeyond
<1>6. ReadBefore(f)'
  <2>1. ReadBefore(f)
    BY DEF TailInv
  <2>2. consumer.at = "reading" => consumer.from \in Nat
    BY ReaderType DEF TailInv
  <2>3. size[f] \in Nat /\ size'[f] \in Nat
    BY DEF TailInv, TailType
  <2>4. \A i \in 1 .. Len(Text(f)) : Text(f)[i][2] \in Nat
    BY TextType DEF TailInv
  <2>5. size[f] <= size'[f]
    BY <1>1
  <2>6. QED
    BY ONLY <1>3, <1>4, <2>1, <2>2, <2>3, <2>4, <2>5 DEF ReadBefore, UpTo
<1>7. ReadFrom(f)'
  BY <1>3, <1>4 DEF ReadFrom, TailInv
<1>8. QED
  BY <1>5, <1>6, <1>7

\* What was read of the file is of an earlier generation now.
LEMMA RotateKeeps ==
  ASSUME TailInv, TailType', NEW g \in Followed, T!Rotate(g)
  PROVE  TailInv'
<1>1. SUFFICES ASSUME NEW f \in Followed
               PROVE  (NotBeyond(f) /\ ReadBefore(f) /\ ReadFrom(f))'
  BY DEF TailInv, T!Rotate
<1>2. Text(f)' = Text(f) /\ T!Position(f)' = T!Position(f)
  BY SameText DEF T!Rotate, T!Position
<1>3. /\ consumer' = consumer /\ reloads' = reloads /\ faults' = faults
      /\ start' = start /\ orphans' = orphans /\ positions' = positions
  BY DEF T!Rotate
<1>4. CASE f # g
  <2>1. gen'[f] = gen[f] /\ size'[f] = size[f]
    BY <1>4 DEF T!Rotate, TailInv, TailType
  <2>2. QED
    BY <1>2, <1>3, <2>1 DEF NotBeyond, ReadBefore, ReadFrom, TailInv
<1>5. CASE f = g
  <2>1. gen'[f] = gen[f] + 1 /\ gen[f] \in Nat
    BY <1>5 DEF T!Rotate, TailInv, TailType
  <2>2. NotBeyond(f)' /\ ReadFrom(f)'
    BY <2>1 DEF NotBeyond, ReadFrom
  <2>3. ReadBefore(f)
    BY DEF TailInv
  <2>4. ReadBefore(f)'
    BY <1>2, <1>3, <2>1, <2>3, TextType DEF ReadBefore, UpTo, TailInv
  <2>5. QED
    BY <2>2, <2>4
<1>6. QED
  BY <1>4, <1>5

\* Neither the poll nor the end of the observer is of any matter to what was read.
LEMMA PollAndStopKeep ==
  ASSUME TailInv, TailType', T!Poll \/ T!Stop
  PROVE  TailInv'
<1>1. /\ consumer' = consumer /\ reloads' = reloads /\ faults' = faults /\ size' = size
      /\ start' = start /\ orphans' = orphans /\ positions' = positions /\ gen' = gen
      /\ seen' = seen
  BY DEF T!Poll, T!Stop
<1>2. ASSUME NEW f \in Followed
      PROVE  Text(f)' = Text(f) /\ T!Position(f)' = T!Position(f)
  BY <1>1, SameText DEF T!Position
<1>3. QED
  BY <1>1, <1>2 DEF TailInv, NotBeyond, ReadBefore, ReadFrom

\* A read begins where the last one ended, or at the start of a file that is shorter
\* than that, which was rotated.
LEMMA TakeKeeps ==
  ASSUME TailInv, TailType', T!Take
  PROVE  TailInv'
<1>1. /\ reloads' = reloads /\ faults' = faults /\ size' = size /\ seen' = seen
      /\ start' = start /\ orphans' = orphans /\ positions' = positions /\ gen' = gen
  BY DEF T!Take
<1> DEFINE g == Head(queue)
<1>2. /\ consumer'.at = "reading" /\ consumer'.file = g
      /\ consumer'.from = IF size[g] < T!Position(g) THEN 0 ELSE T!Position(g)
  BY DEF T!Take
<1>3. SUFFICES ASSUME NEW f \in Followed
               PROVE  (NotBeyond(f) /\ ReadBefore(f) /\ ReadFrom(f))'
  BY <1>1 DEF TailInv
<1>4. Text(f)' = Text(f) /\ T!Position(f)' = T!Position(f)
  BY <1>1, <1>2 DEF Text, T!Undelivered, T!Take, T!Idle, T!Position
<1>5. T!Position(f) \in Nat /\ size[f] \in Nat /\ gen[f] \in Nat
  BY PositionType DEF TailInv, TailType
<1>6. NotBeyond(f) /\ ReadBefore(f) /\ ReadFrom(f)
  BY DEF TailInv
<1>7. NotBeyond(f)'
  BY <1>1, <1>2, <1>5, <1>6 DEF NotBeyond, T!Position
<1>8. ReadBefore(f)'
  BY <1>1, <1>2, <1>4, <1>5, <1>6, TextType DEF ReadBefore, UpTo, TailInv
<1>9. ReadFrom(f)'
  <2>1. gen[f] = 0 => ~(size[f] < T!Position(f))
    BY <1>5, <1>6 DEF NotBeyond, T!Position
  <2>2. QED
    BY <1>1, <1>2, <1>4, <1>6, <2>1 DEF ReadFrom
<1>10. QED
  BY <1>7, <1>8, <1>9

\* Only a file that was rotated, and is empty, loses its position.
LEMMA TakeMissingKeeps ==
  ASSUME TailInv, TailType', T!TakeMissing
  PROVE  TailInv'
<1>1. /\ reloads' = reloads /\ faults' = faults /\ size' = size /\ seen' = seen
      /\ start' = start /\ orphans' = orphans /\ consumer' = consumer /\ gen' = gen
      /\ consumer.at = "idle"
  BY DEF T!TakeMissing, T!Idle
<1> DEFINE g == Head(queue)
<1>2. SUFFICES ASSUME NEW f \in Followed
               PROVE  (NotBeyond(f) /\ ReadBefore(f) /\ ReadFrom(f))'
  BY <1>1 DEF TailInv
<1>3. Text(f)' = Text(f)
  BY <1>1, SameText
<1>4. NotBeyond(f) /\ ReadBefore(f) /\ ReadFrom(f)
  BY DEF TailInv
<1>5. CASE f # g
  <2>1. T!Position(f)' = T!Position(f)
        /\ (f \in DOMAIN positions' <=> f \in DOMAIN positions)
        /\ (f \in DOMAIN positions => positions'[f] = positions[f])
    BY <1>5 DEF T!TakeMissing, T!Position
  <2>2. QED
    BY <1>1, <1>3, <1>4, <2>1 DEF NotBeyond, ReadBefore, ReadFrom
<1>6. CASE f = g
  <2>1. T!Position(f)' = 0 /\ gen[f] > 0 /\ size[f] = 0
    BY <1>6 DEF T!TakeMissing, T!Position
  <2>2. T!Position(f) \in Nat /\ gen[f] \in Nat
    BY PositionType DEF TailInv, TailType
  <2>3. NotBeyond(f)' /\ ReadFrom(f)'
    BY <1>1, <2>1, <2>2 DEF NotBeyond, ReadFrom
  <2>4. ReadBefore(f)'
    BY <1>1, <1>3, <1>4, <2>1, <2>2, TextType DEF ReadBefore, UpTo, TailInv
  <2>5. QED
    BY <2>3, <2>4
<1>7. QED
  BY <1>5, <1>6

\* The failure of a read, and the end of a thread nobody waits for.
LEMMA ReadRaisesKeeps ==
  ASSUME TailInv, TailType', T!ReadRaises
  PROVE  TailInv'
<1>1. /\ reloads' = reloads /\ size' = size /\ seen' = seen /\ positions' = positions
      /\ start' = start /\ orphans' = orphans /\ gen' = gen
      /\ consumer.at = "reading" /\ consumer'.at = "dead"
      /\ faults' = faults + 1 /\ faults \in Nat
  BY DEF T!ReadRaises, T!Dead, TailInv, TailType
<1>2. ASSUME NEW f \in Followed
      PROVE  (NotBeyond(f) /\ ReadBefore(f) /\ ReadFrom(f))'
  <2>1. Text(f)' = Text(f) /\ T!Position(f)' = T!Position(f)
    BY <1>1 DEF Text, T!Undelivered, T!Position
  <2>2. NotBeyond(f) /\ ReadBefore(f)
    BY DEF TailInv
  <2>3. QED
    BY <1>1, <2>1, <2>2 DEF NotBeyond, ReadBefore, ReadFrom
<1>3. QED
  BY <1>1, <1>2 DEF TailInv

LEMMA OrphanReadKeeps ==
  ASSUME TailInv, TailType', NEW r \in orphans, T!OrphanRead(r)
  PROVE  TailInv'
<1>1. /\ reloads' = reloads /\ size' = size /\ seen' = seen /\ consumer' = consumer
      /\ start' = start /\ orphans' \subseteq orphans /\ gen' = gen /\ faults' = faults
      /\ reloads # 0
  BY DEF T!OrphanRead, TailInv
<1>2. r.file \in Followed /\ r.from \in Nat
  BY DEF TailInv, TailType, Reading
<1>3. ASSUME NEW f \in Followed
      PROVE  (NotBeyond(f) /\ ReadBefore(f) /\ ReadFrom(f))'
  <2>1. Text(f)' = Text(f)
    BY <1>1, SameText
  <2>2. NotBeyond(f) /\ ReadBefore(f)
    BY DEF TailInv
  <2>3. CASE gen[f] # 0
    BY <1>1, <2>3 DEF NotBeyond, ReadBefore, ReadFrom
  <2>4. CASE gen[f] = 0
    <3>0. f \in DOMAIN positions /\ size[f] \in Nat /\ (r.file = f => ~(size[f] < r.from))
      BY <1>2, <2>2, <2>4 DEF NotBeyond, TailInv, TailType
    <3>1. /\ positions'[f] \in {positions[f], size[f]}
          /\ f \in DOMAIN positions /\ f \in DOMAIN positions'
          /\ T!Position(f) = positions[f] /\ T!Position(f)' = positions'[f]
      BY <3>0 DEF T!OrphanRead, T!Noted, T!EndOf, T!Position
    <3>2. /\ size[f] \in Nat /\ start[f] \in Nat /\ positions[f] \in Nat
      BY <3>1 DEF TailInv, TailType
    <3>3. NotBeyond(f)'
      BY <1>1, <2>2, <2>4, <3>1, <3>2 DEF NotBeyond
    <3>4. ReadBefore(f)'
      BY <1>1, <2>1, <2>2, <2>4, <3>1, <3>2, TextType DEF ReadBefore, UpTo, TailInv, NotBeyond
    <3>5. ReadFrom(f)'
      BY <1>1 DEF ReadFrom
    <3>6. QED
      BY <3>3, <3>4, <3>5
  <2>5. QED
    BY <2>3, <2>4
<1>4. QED
  BY <1>1, <1>3 DEF TailInv

\* The line that is delivered is the start of what is still to be given.
LEMMA DeliverKeeps ==
  ASSUME TailInv, T!Deliver
  PROVE  TailInv'
<1>1. /\ reloads' = reloads /\ size' = size /\ positions' = positions /\ start' = start
      /\ orphans' = orphans /\ gen' = gen /\ faults' = faults /\ watched' = watched
      /\ queue' = queue
  BY DEF T!Deliver
<1> DEFINE g == consumer.file
           rest == consumer.halves
<1>2. consumer \in Delivering /\ g \in Followed /\ rest \in Seq(Half)
  <2>1. consumer \in Delivering
    BY DEF T!Deliver, TailInv, TailType, T!Idle, T!Dead, Reading
  <2>2. QED
    BY <2>1 DEF Delivering
<1>3. /\ consumer' \in {T!Idle} \cup Delivering /\ consumer'.at # "reading"
      /\ seen' \in [Followed -> Seq(Half)]
      /\ \A f \in Followed : Text(f)' = Text(f)
  <2>1. CASE rest = <<>>
    <3>1. consumer' = T!Idle /\ seen' = seen
      BY <2>1 DEF T!Deliver
    <3>2. consumer'.at = "idle"
      BY <3>1 DEF T!Idle
    <3>3. QED
      BY <2>1, <3>1, <3>2 DEF TailInv, TailType, Text, T!Undelivered, T!Deliver
  <2>2. CASE rest # <<>>
    <3> DEFINE line == T!FirstLine(rest)
    <3>1. PICK k \in 1 .. Len(rest) : line = SubSeq(rest, 1, k)
      <4>1. Len(rest) \in Nat \ {0}
        BY <1>2, <2>2, EmptySeq, LenProperties
      <4>2. line = SubSeq(rest, 1, 1) \/ (Len(rest) # 1 /\ line = SubSeq(rest, 1, 2))
        BY DEF T!FirstLine
      <4>3. 1 \in 1 .. Len(rest) /\ (Len(rest) # 1 => 2 \in 1 .. Len(rest))
        <5>1. \A n \in Nat \ {0} : 1 \in 1 .. n /\ (n # 1 => 2 \in 1 .. n)
          OBVIOUS
        <5>2. QED
          BY <4>1, <5>1
      <4>4. QED
        BY <4>2, <4>3
    <3>2. line \in Seq(Half) /\ Len(line) = k
      BY <1>2, <3>1, SubSeqProperties
    <3> DEFINE left == SubSeq(rest, k + 1, Len(rest))
    <3>3. left \in Seq(Half) /\ line \o left = rest
      BY <1>2, <3>1, <3>2, SubSeqProperties, ConcatAdjacentSubSeq, SubSeqFull
    <3>4. consumer' = [consumer EXCEPT !.halves = left]
      BY <2>2, <3>2 DEF T!Deliver
    <3>5. consumer' \in Delivering /\ consumer'.file = g /\ consumer'.halves = left
          /\ consumer'.at = "delivering"
      BY <1>2, <3>3, <3>4 DEF Delivering
    <3>6. seen' = [seen EXCEPT ![g] = @ \o line]
      BY <2>2 DEF T!Deliver
    <3>7. seen' \in [Followed -> Seq(Half)]
      BY <1>2, <3>2, <3>6, ConcatProperties DEF TailInv, TailType
    <3>8. ASSUME NEW f \in Followed
          PROVE  Text(f)' = Text(f)
      <4>1. CASE f # g
        <5>1. seen'[f] = seen[f]
          BY <3>6, <4>1 DEF TailInv, TailType
        <5>2. QED
          BY <3>5, <4>1, <5>1 DEF Text, T!Undelivered
      <4>2. CASE f = g
        <5>1. seen'[g] = seen[g] \o line /\ seen[g] \in Seq(Half)
          BY <1>2, <3>6 DEF TailInv, TailType
        <5>2. (seen[g] \o line) \o left = seen[g] \o (line \o left)
          <6>1. \A a, b, c \in Seq(Half) : (a \o b) \o c = a \o (b \o c)
            BY ConcatAssociative
          <6>2. QED
            BY <3>2, <3>3, <5>1, <6>1
        <5>3. consumer.at = "delivering"
          BY DEF T!Deliver
        <5>4. QED
          BY <3>3, <3>5, <4>2, <5>1, <5>2, <5>3 DEF Text, T!Undelivered
      <4>3. QED
        BY <4>1, <4>2
    <3>9. QED
      BY <3>5, <3>7, <3>8
  <2>3. QED
    BY <2>1, <2>2
<1>4. TailType'
  BY <1>1, <1>3 DEF TailInv, TailType, T!Idle, T!Dead
<1>5. ASSUME NEW f \in Followed
      PROVE  (NotBeyond(f) /\ ReadBefore(f) /\ ReadFrom(f))'
  <2>1. T!Position(f)' = T!Position(f) /\ Text(f)' = Text(f)
    BY <1>1, <1>3 DEF T!Position
  <2>2. NotBeyond(f) /\ ReadBefore(f) /\ ReadFrom(f)
    BY DEF TailInv
  <2>3. QED
    BY <1>1, <1>3, <2>1, <2>2 DEF NotBeyond, ReadBefore, ReadFrom
<1>6. QED
  BY <1>1, <1>4, <1>5 DEF TailInv

\* What is read is the file from the place where the read begins.
LEMMA HalvesOfFile ==
  ASSUME TailType, NEW f \in Followed, NEW n \in Nat
  PROVE  /\ T!Halves(f, n) \in Seq(Half)
         /\ Len(T!Halves(f, n)) = IF size[f] < n THEN 0 ELSE size[f] - n
         /\ \A i \in 1 .. Len(T!Halves(f, n)) : T!Halves(f, n)[i] = <<gen[f], n + i>>
         /\ size[f] <= n => T!Halves(f, n) = <<>>
<1>1. size[f] \in Nat /\ gen[f] \in Nat
  BY DEF TailType
<1> DEFINE m == size[f] - n
<1>2. \A i \in 1 .. m : <<gen[f], n + i>> \in Half
  BY <1>1 DEF Half
<1>3. CASE size[f] <= n
  <2>1. T!Halves(f, n) = <<>>
    BY <1>1, <1>3 DEF T!Halves
  <2>2. QED
    BY <1>1, <1>3, <2>1
<1>4. CASE ~(size[f] <= n)
  <2>1. m \in Nat
    BY <1>1, <1>4
  <2>2. T!Halves(f, n) \in [1 .. m -> Half]
    BY <1>2 DEF T!Halves
  <2>3. T!Halves(f, n) \in Seq(Half)
    BY <2>1, <2>2, FunctionIsSeq
  <2>4. Len(T!Halves(f, n)) = m
    BY <2>1, <2>2, <2>3, LenProperties
  <2>5. \A i \in 1 .. m : T!Halves(f, n)[i] = <<gen[f], n + i>>
    BY DEF T!Halves
  <2>6. QED
    BY <1>1, <1>4, <2>3, <2>4, <2>5
<1>5. QED
  BY <1>3, <1>4

\* A place behind the first of two texts is one of the second.
LEMMA PlaceOfSecond ==
  ASSUME NEW la \in Nat, NEW lb \in Nat, NEW i \in 1 .. la + lb, i > la
  PROVE  \E k \in 1 .. lb : i = la + k
<1>1. i - la \in 1 .. lb /\ i = la + (i - la)
  OBVIOUS
<1>2. QED
  BY <1>1

\* A text that goes on where another one ends.
LEMMA TextGoesOn ==
  ASSUME NEW a \in Seq(Half), NEW b \in Seq(Half), NEW g \in Nat, NEW n \in Nat, NEW top \in Nat,
         Ordered(a), UpTo(a, g, n, top), n <= top, Len(b) = top - n,
         \A i \in 1 .. Len(b) : b[i] = <<g, n + i>>
  PROVE  Ordered(a \o b) /\ UpTo(a \o b, g, top, top)
<1> DEFINE ab == a \o b
           la == Len(a)
           lb == Len(b)
<1>1. /\ \A i \in 1 .. la : ab[i] = a[i]
      /\ \A i \in 1 .. lb : ab[la + i] = <<g, n + i>>
  BY PlacesOfConcat
<1>2. la \in Nat /\ lb \in Nat /\ Len(ab) = la + lb /\ lb = top - n
  BY PlacesOfConcat
<1>3. ASSUME NEW i \in 1 .. la
      PROVE  /\ a[i][1] \in Nat /\ a[i][2] \in Nat
             /\ a[i][1] < g \/ (a[i][1] = g /\ 0 < a[i][2] /\ a[i][2] <= n)
  <2>1. a[i] \in Half
    BY ElementOfSeq
  <2>2. QED
    BY <2>1 DEF UpTo, Half
<1>4. \A i \in 1 .. la - 1 : T!Before(a[i], a[i + 1])
  BY DEF Ordered
<1> HIDE DEF ab, la, lb
<1>5. ASSUME NEW i \in 1 .. Len(ab)
      PROVE  ab[i][1] < g \/ (ab[i][1] = g /\ 0 < ab[i][2] /\ ab[i][2] <= top)
  <2>1. CASE i <= la
    <3>1. i \in 1 .. la
      BY <1>2, <2>1
    <3>2. QED
      BY <1>1, <1>3, <3>1
  <2>2. CASE ~(i <= la)
    <3>1. la \in Nat /\ lb \in Nat /\ i \in 1 .. la + lb /\ i > la
      BY ONLY <1>2, <2>2, i \in 1 .. Len(ab)
    <3>2. PICK k \in 1 .. lb : i = la + k
      BY ONLY <3>1, PlaceOfSecond
    <3>3. ab[i] = <<g, n + k>>
      BY ONLY <1>1, <3>2
    <3>4. 0 < n + k /\ n + k <= top
      BY ONLY <1>2, <3>1, k \in 1 .. lb, n \in Nat, top \in Nat
    <3>5. QED
      BY ONLY <3>3, <3>4
  <2>3. QED
    BY <2>1, <2>2
<1>6. ASSUME NEW i \in 1 .. Len(ab) - 1
      PROVE  T!Before(ab[i], ab[i + 1])
  <2>1. CASE i + 1 <= la
    <3>1. i \in 1 .. la - 1 /\ i \in 1 .. la /\ i + 1 \in 1 .. la
      BY <1>2, <2>1
    <3>2. QED
      BY <1>1, <1>4, <3>1
  <2>2. CASE i = la
    <3>1. i \in 1 .. la /\ 1 \in 1 .. lb
      BY <1>2, <2>2
    <3>2. ab[i] = a[i] /\ ab[la + 1] = <<g, n + 1>>
      BY <1>1, <3>1
    <3>3. QED
      BY <1>3, <2>2, <3>1, <3>2 DEF T!Before
  <2>3. CASE i > la
    <3>1. la \in Nat /\ lb \in Nat /\ i \in 1 .. la + lb /\ i > la /\ i <= la + lb - 1
      BY ONLY <1>2, <2>3, i \in 1 .. Len(ab) - 1
    <3>2. PICK k \in 1 .. lb : i = la + k
      BY ONLY <3>1, PlaceOfSecond
    <3>3. k + 1 \in 1 .. lb /\ i + 1 = la + (k + 1)
      BY ONLY <3>1, <3>2, k \in 1 .. lb
    <3>4. ab[i] = <<g, n + k>> /\ ab[i + 1] = <<g, n + (k + 1)>>
      BY ONLY <1>1, <3>2, <3>3
    <3>5. n + k < n + (k + 1)
      BY ONLY <3>2, k \in 1 .. lb, <3>1, n \in Nat
    <3>6. QED
      BY ONLY <3>4, <3>5 DEF T!Before
  <2>4. QED
    BY <1>2, <2>1, <2>2, <2>3
<1>7. Ordered(ab) /\ UpTo(ab, g, top, top)
  BY <1>5, <1>6 DEF Ordered, UpTo
<1>8. QED
  BY <1>7 DEF ab

\* The text of a file that was not rotated, between two places.
Stretch(m, n) == [i \in 1 .. n - m |-> <<0, m + i>>]

LEMMA TextInTwo ==
  ASSUME NEW m \in Nat, NEW n \in Nat, NEW top \in Nat, m <= n, n <= top,
         Stretch(m, n) \in Seq(Half),
         NEW b \in Seq(Half), Len(b) = top - n, \A i \in 1 .. Len(b) : b[i] = <<0, n + i>>
  PROVE  Stretch(m, n) \o b = Stretch(m, top)
<1> DEFINE a == Stretch(m, n)
           ab == a \o b
           la == n - m
           lb == top - n
           whole == [i \in 1 .. top - m |-> <<0, m + i>>]
<1>1. la \in Nat /\ lb \in Nat /\ la + lb = top - m /\ top - m \in Nat
  OBVIOUS
<1>2. Len(a) = la /\ Len(b) = lb /\ \A i \in 1 .. la : a[i] = <<0, m + i>>
  BY <1>1, LenProperties DEF Stretch
<1>3. /\ ab \in Seq(Half) /\ Len(ab) = la + lb
      /\ \A i \in 1 .. la : ab[i] = <<0, m + i>>
      /\ \A i \in 1 .. lb : ab[la + i] = <<0, n + i>>
  <2>1. /\ ab \in Seq(Half) /\ Len(ab) = Len(a) + Len(b)
        /\ \A i \in 1 .. Len(a) : ab[i] = a[i]
        /\ \A i \in 1 .. Len(b) : ab[Len(a) + i] = b[i]
    <3>1. a \in Seq(Half) /\ b \in Seq(Half)
      OBVIOUS
    <3>2. QED
      BY ONLY <3>1, PlacesOfConcat
  <2>2. QED
    BY <1>2, <2>1
<1>4. whole \in Seq(Half) /\ Len(whole) = top - m
  <2>1. \A i \in 1 .. top - m : <<0, m + i>> \in Half
    BY DEF Half
  <2>2. whole \in [1 .. top - m -> Half]
    BY <2>1
  <2>3. whole \in Seq(Half)
    BY <1>1, <2>2, FunctionIsSeq
  <2>4. Len(whole) \in Nat /\ DOMAIN whole = 1 .. Len(whole) /\ DOMAIN whole = 1 .. top - m
    BY <2>2, <2>3, LenProperties
  <2>5. QED
    BY <1>1, <2>3, <2>4, SameInterval
<1>5. \A i \in 1 .. top - m : whole[i] = <<0, m + i>>
  OBVIOUS
<1> HIDE DEF ab, whole
<1>6. ASSUME NEW i \in 1 .. top - m
      PROVE  ab[i] = whole[i]
  <2>1. CASE i <= la
    <3>1. i \in 1 .. la
      BY <1>1, <2>1
    <3>2. QED
      BY <1>3, <1>5, <3>1
  <2>2. CASE ~(i <= la)
    <3>1. i - la \in 1 .. lb /\ la + (i - la) = i /\ n + (i - la) = m + i
      BY <1>1, <2>2
    <3>2. ab[la + (i - la)] = <<0, n + (i - la)>>
      BY <1>3, <3>1
    <3>3. QED
      BY <1>5, <3>1, <3>2
  <2>3. QED
    BY <2>1, <2>2
<1>7. ab = whole
  BY <1>1, <1>3, <1>4, <1>6, SeqEqual
<1>8. QED
  BY <1>7 DEF ab, whole, Stretch

\* The text from a place that follows all that was read of the file's generation.
LEMMA ReadKeeps ==
  ASSUME TailInv, TailType', T!Read
  PROVE  TailInv'
<1> DEFINE g == consumer.file
           n == consumer.from
           read == T!Halves(g, n)
<1>1. /\ reloads' = reloads /\ size' = size /\ seen' = seen /\ start' = start
      /\ orphans' = orphans /\ gen' = gen /\ faults' = faults
      /\ consumer.at = "reading"
      /\ consumer'.at = "delivering" /\ consumer'.file = g /\ consumer'.halves = read
  BY DEF T!Read
<1>2. g \in Followed /\ n \in Nat
  BY <1>1, ReaderType DEF TailInv
<1>3. /\ read \in Seq(Half) /\ Len(read) = IF size[g] < n THEN 0 ELSE size[g] - n
      /\ \A i \in 1 .. Len(read) : read[i] = <<gen[g], n + i>>
      /\ size[g] <= n => read = <<>>
  BY <1>2, HalvesOfFile DEF TailInv
<1>4. SUFFICES ASSUME NEW f \in Followed
               PROVE  (NotBeyond(f) /\ ReadBefore(f) /\ ReadFrom(f))'
  BY <1>1 DEF TailInv
<1>5. NotBeyond(f) /\ ReadBefore(f) /\ ReadFrom(f)
  BY DEF TailInv
<1>6. size[f] \in Nat /\ gen[f] \in Nat /\ start[f] \in Nat /\ T!Position(f) \in Nat
  BY PositionType DEF TailInv, TailType
<1>7. CASE f # g
  <2>1. T!Position(f)' = T!Position(f)
        /\ (f \in DOMAIN positions' <=> f \in DOMAIN positions)
        /\ (f \in DOMAIN positions => positions'[f] = positions[f])
    BY <1>7 DEF T!Read, T!Noted, T!Position
  <2>2. Text(f)' = Text(f)
    BY <1>1, <1>7 DEF Text, T!Undelivered
  <2>3. QED
    BY <1>1, <1>5, <1>7, <2>1, <2>2 DEF NotBeyond, ReadBefore, ReadFrom
<1>8. CASE f = g
  <2>1. /\ f \in DOMAIN positions' /\ T!Position(f)' = positions'[f]
        /\ positions'[f] = IF size[f] < n THEN n ELSE size[f]
    BY <1>8 DEF T!Read, T!Noted, T!EndOf, T!Position
  <2>2. seen[f] \in Seq(Half) /\ Text(f) = seen[f] /\ Text(f)' = seen[f] \o read
    <3>1. seen[f] \in Seq(Half)
      BY DEF TailInv, TailType
    <3>2. T!Undelivered(f) = <<>> /\ T!Undelivered(f)' = read
      BY <1>1, <1>8 DEF T!Undelivered
    <3>3. QED
      BY <1>1, <3>1, <3>2, ConcatEmptySeq DEF Text
  <2>4. NotBeyond(f)'
    BY <1>1, <1>2, <1>5, <1>6, <1>8, <2>1 DEF NotBeyond, T!Position
  <2>5. ReadBefore(f)'
    <3> SUFFICES ASSUME gen[f] = 0 \/ reloads = 0
                 PROVE  Ordered(Text(f)') /\ UpTo(Text(f)', gen[f], positions'[f], size[f])
      BY <1>1, <2>1 DEF ReadBefore
    <3>1. Ordered(seen[f]) /\ UpTo(seen[f], gen[f], n, size[f])
      BY <1>1, <1>5, <1>8, <2>2 DEF ReadBefore
    <3>2. CASE size[f] < n
      <4>1. positions'[f] = n /\ read = <<>>
        BY <1>2, <1>3, <1>6, <1>8, <2>1, <3>2
      <4>2. Text(f)' = seen[f]
        BY <2>2, <4>1, ConcatEmptySeq
      <4>3. QED
        BY <3>1, <4>1, <4>2
    <3>3. CASE ~(size[f] < n)
      <4>1. positions'[f] = size[f] /\ n <= size[f] /\ Len(read) = size[f] - n
        BY <1>2, <1>3, <1>6, <1>8, <2>1, <3>3
      <4>2. \A i \in 1 .. Len(read) : read[i] = <<gen[f], n + i>>
        BY <1>3, <1>8
      <4>3. Ordered(seen[f] \o read) /\ UpTo(seen[f] \o read, gen[f], size[f], size[f])
        <5>1. n \in Nat /\ read \in Seq(Half)
          BY <1>2, <1>3
        <5> HIDE DEF n, read
        <5>2. QED
          BY <1>6, <2>2, <3>1, <4>1, <4>2, <5>1, TextGoesOn
      <4>4. QED
        BY <2>2, <4>1, <4>3
    <3>4. QED
      BY <3>2, <3>3
  <2>6. ReadFrom(f)'
    <3> SUFFICES ASSUME gen[f] = 0, reloads = 0, faults = 0
                 PROVE  Text(f)' = Stretch(start[f], positions'[f])
      BY <1>1, <2>1 DEF ReadFrom, Stretch
    <3>1. /\ seen[f] = Stretch(start[f], n)
          /\ start[f] <= n /\ n <= size[f]
      BY <1>1, <1>5, <1>8, <2>2 DEF ReadFrom, NotBeyond, T!Position, Stretch
    <3>2. Len(read) = size[f] - n /\ positions'[f] = size[f]
      BY <1>2, <1>3, <1>6, <1>8, <2>1, <3>1
    <3>3. \A i \in 1 .. Len(read) : read[i] = <<0, n + i>>
      BY <1>3, <1>8
    <3>4. seen[f] \o read = Stretch(start[f], size[f])
      <4>1. n \in Nat /\ read \in Seq(Half)
        BY <1>2, <1>3
      <4> HIDE DEF n, read
      <4>2. QED
        <5>1. start[f] \in Nat /\ size[f] \in Nat /\ start[f] <= n /\ n <= size[f]
              /\ seen[f] \in Seq(Half) /\ Len(read) = size[f] - n
          BY <1>6, <2>2, <3>1, <3>2
        <5>2. Stretch(start[f], n) \o read = Stretch(start[f], size[f])
          BY ONLY <3>1, <3>3, <4>1, <5>1, TextInTwo
        <5>3. QED
          BY <3>1, <5>2
    <3>5. QED
      BY <2>2, <3>2, <3>4
  <2>7. QED
    BY <2>4, <2>5, <2>6
<1>9. QED
  BY <1>7, <1>8

\* What is said of a text is true of its beginning.
LEMMA OfBeginning ==
  ASSUME NEW a \in Seq(Half), NEW b \in Seq(Half), NEW g, NEW n, NEW top
  PROVE  /\ Ordered(a \o b) => Ordered(a)
         /\ UpTo(a \o b, g, n, top) => UpTo(a, g, n, top)
<1> DEFINE ab == a \o b
           la == Len(a)
<1>1. la \in Nat /\ Len(b) \in Nat /\ Len(ab) = la + Len(b) /\ \A i \in 1 .. la : ab[i] = a[i]
  BY PlacesOfConcat
<1> HIDE DEF ab, la
<1>2. /\ \A i \in 1 .. la - 1 : i \in 1 .. Len(ab) - 1 /\ i \in 1 .. la /\ i + 1 \in 1 .. la
      /\ \A i \in 1 .. la : i \in 1 .. Len(ab)
  BY <1>1
<1>3. /\ Ordered(ab) => Ordered(a)
      /\ UpTo(ab, g, n, top) => UpTo(a, g, n, top)
  BY <1>1, <1>2 DEF Ordered, UpTo, la
<1>4. QED
  BY <1>3 DEF ab

\* The rest of the lines go with the consumer; what a thread reads on of a file that was
\* not rotated is no news to the position.
LEMMA RestartKeeps ==
  ASSUME TailInv, TailType', NEW files \in SUBSET Followed \ {{}}, T!Restart(files)
  PROVE  TailInv'
<1>1. /\ size' = size /\ seen' = seen /\ gen' = gen /\ faults' = faults
      /\ reloads' # 0 /\ consumer' = T!Idle /\ consumer'.at = "idle"
  BY DEF T!Restart, TailInv, TailType, T!Idle
<1>2. SUFFICES ASSUME NEW f \in Followed
               PROVE  (NotBeyond(f) /\ ReadBefore(f) /\ ReadFrom(f))'
  BY <1>1 DEF TailInv
<1>3. NotBeyond(f) /\ ReadBefore(f)
  BY DEF TailInv
<1>4. CASE gen[f] # 0
  BY <1>1, <1>4 DEF NotBeyond, ReadBefore, ReadFrom
<1>5. CASE gen[f] = 0
  <2>1. /\ f \in DOMAIN positions' /\ T!Position(f)' = positions'[f]
        /\ f \in DOMAIN positions /\ T!Position(f) = positions[f]
        /\ positions'[f] = IF f \in files THEN size[f] ELSE positions[f]
        /\ start'[f] = IF f \in files THEN size[f] ELSE start[f]
    BY <1>3, <1>5 DEF T!Restart, T!Seeded, T!Position, NotBeyond
  <2>2. size[f] \in Nat /\ positions[f] \in Nat /\ start[f] \in Nat
    BY <2>1 DEF TailInv, TailType
  <2>3. \A r \in orphans' : r.file = f => r.from <= size[f]
    BY <1>3, <1>5 DEF T!Restart, NotBeyond
  <2>4. NotBeyond(f)'
    BY <1>1, <1>3, <1>5, <2>1, <2>2, <2>3 DEF NotBeyond
  <2>5. Text(f)' = seen[f]
    <3>1. T!Undelivered(f)' = <<>>
      BY <1>1 DEF T!Undelivered
    <3>2. seen[f] \in Seq(Half)
      BY TextType DEF TailInv
    <3>3. QED
      BY <1>1, <3>1, <3>2, ConcatEmptySeq DEF Text
  <2>6. Ordered(seen[f]) /\ UpTo(seen[f], gen[f], positions[f], size[f])
    <3>1. Ordered(Text(f)) /\ UpTo(Text(f), gen[f], positions[f], size[f])
      BY <1>3, <1>5, <2>1 DEF ReadBefore
    <3>2. QED
      BY <3>1, TextType, OfBeginning DEF Text, TailInv
  <2>7. UpTo(seen[f], gen[f], positions'[f], size[f])
    <3>1. ASSUME NEW i \in 1 .. Len(seen[f])
          PROVE  seen[f][i][2] \in Nat
      <4>1. seen[f] \in Seq(Half)
        BY DEF TailInv, TailType
      <4>2. seen[f][i] \in Half
        BY <4>1, ElementOfSeq
      <4>3. QED
        BY <4>2 DEF Half
    <3>2. QED
      BY <1>3, <1>5, <2>1, <2>2, <2>6, <3>1 DEF UpTo, NotBeyond
  <2>8. QED
    BY <1>1, <2>4, <2>5, <2>6, <2>7, <2>1 DEF ReadBefore, ReadFrom
<1>6. QED
  BY <1>4, <1>5

\* The watcher's invariant, whatever is written, rotated and reloaded.
LEMMA TailStep ==
  ASSUME TailInv, T!Next
  PROVE  TailInv'
<1>1. CASE T!Deliver
  BY <1>1, DeliverKeeps
<1>2. CASE ~T!Deliver
  <2>1. TailType'
    BY <1>2, TailKeepsType DEF TailInv
  <2>2. QED
    BY <1>2, <2>1, WriteKeeps, RotateKeeps, PollAndStopKeep, TakeKeeps, TakeMissingKeeps,
       ReadKeeps, ReadRaisesKeeps, RestartKeeps, OrphanReadKeeps DEF T!Next
<1>3. QED
  BY <1>1, <1>2

LEMMA TailStutters ==
  ASSUME TailInv, UNCHANGED tailVars
  PROVE  TailInv'
<1>1. \A f \in Followed : Text(f)' = Text(f) /\ T!Position(f)' = T!Position(f)
  BY DEF tailVars, Text, T!Undelivered, T!Position
<1>2. TailType'
  BY DEF tailVars, TailInv, TailType
<1>3. QED
  BY <1>1, <1>2 DEF tailVars, TailInv, NotBeyond, ReadBefore, ReadFrom

LEMMA TailInvImplies ==
  ASSUME TailInv
  PROVE  T!NeverTwice /\ T!NothingSkipped
<1>1. T!NeverTwice
  BY DEF TailInv, ReadBefore, Ordered, Text, T!NeverTwice
<1>2. T!NothingSkipped
  BY DEF TailInv, ReadFrom, Text, T!NothingSkipped
<1>3. QED
  BY <1>1, <1>2

-----------------------------------------------------------------------------
(* The viewer.                                                             *)

\* The place in the buffer from which the viewer has not looked yet.
NextToLook == IF viewer.at = "sending" THEN viewer.upTo ELSE viewer.lastIndex

Sent == shown \o viewer.lines

ViewType ==
  /\ received \in Nat
  /\ buffer \in Seq(Nat)
  /\ viewer \in [at : {"waiting", "sending"}, lastIndex : Nat, lines : Seq(Nat), upTo : Nat,
                 resets : BOOLEAN]
  /\ shown \in Seq(Nat)

\* What the viewer has not looked at follows what it has taken, and nothing is newer than
\* the last line that was received.
ViewInv ==
  /\ ViewType
  /\ viewer.at = "waiting" => viewer.lines = <<>>
  /\ V!Increasing(Sent)
  /\ V!Increasing(buffer)
  /\ \A i \in DOMAIN Sent : Sent[i] <= received
  /\ \A i \in DOMAIN buffer :
       /\ buffer[i] <= received
       /\ i > NextToLook => \A j \in DOMAIN Sent : Sent[j] < buffer[i]

-----------------------------------------------------------------------------

LEMMA SentType ==
  ASSUME ViewType
  PROVE  Sent \in Seq(Nat) /\ DOMAIN Sent = 1 .. Len(Sent) /\ \A i \in DOMAIN Sent : Sent[i] \in Nat
<1>1. Sent \in Seq(Nat)
  BY ConcatProperties DEF ViewType, Sent
<1>2. QED
  BY <1>1, LenProperties, ElementOfSeq

\* A cut keeps the newest lines in their order.
LEMMA CutKeepsNewest ==
  ASSUME NEW b \in Seq(Nat)
  PROVE  /\ V!Cut(b) \in Seq(Nat)
         /\ \E d \in Nat : /\ Len(V!Cut(b)) + d = Len(b)
                           /\ \A i \in 1 .. Len(V!Cut(b)) : V!Cut(b)[i] = b[i + d]
<1>1. Len(b) \in Nat
  BY LenProperties
<1>2. CASE Len(b) > Full
  <2> DEFINE d == Len(b) - Kept
             cut == SubSeq(b, d + 1, Len(b))
  <2>1. d \in Nat /\ d + 1 \in 1 .. Len(b) + 1 /\ Len(b) - (d + 1) + 1 = Kept /\ Kept + d = Len(b)
    BY <1>1, <1>2, KeptAssumption
  <2>2. V!Cut(b) = cut
    BY <1>2 DEF V!Cut, V!Newest
  <2>3. /\ cut \in Seq(Nat) /\ Len(cut) = Kept
        /\ \A i \in 1 .. Kept : cut[i] = b[i + d]
    <3>1. /\ cut \in Seq(Nat) /\ Len(cut) = Len(b) - (d + 1) + 1
          /\ \A i \in 1 .. Len(b) - (d + 1) + 1 : cut[i] = b[d + 1 + i - 1]
      <4>1. d + 1 \in 1 .. Len(b) + 1 /\ Len(b) \in (d + 1) - 1 .. Len(b)
        BY <1>1, <2>1
      <4> HIDE DEF d
      <4>2. QED
        BY <4>1, SubSeqProperties
    <3>2. \A i \in 1 .. Kept : d + 1 + i - 1 = i + d
      BY <2>1
    <3> HIDE DEF d, cut
    <3>3. QED
      BY <2>1, <3>1, <3>2
  <2>4. QED
    BY <2>1, <2>2, <2>3
<1>3. CASE ~(Len(b) > Full)
  <2>1. V!Cut(b) = b
    BY <1>3 DEF V!Cut
  <2>2. \A i \in 1 .. Len(b) : b[i] = b[i + 0]
    BY <1>1
  <2>3. QED
    BY <1>1, <2>1, <2>2
<1>4. QED
  BY <1>2, <1>3

LEMMA ViewStarts ==
  ASSUME V!Init
  PROVE  ViewInv
<1>1. received = 0 /\ buffer = <<>> /\ shown = <<>> /\ viewer.lines = <<>> /\ ViewType
  <2>1. received = 0 /\ buffer = <<>> /\ shown = <<>> /\ viewer.lines = <<>>
    BY DEF V!Init
  <2>2. viewer \in [at : {"waiting", "sending"}, lastIndex : Nat, lines : Seq(Nat), upTo : Nat,
                   resets : BOOLEAN]
    <3>1. <<>> \in Seq(Nat) /\ 0 \in Nat
      OBVIOUS
    <3>2. QED
      BY <3>1 DEF V!Init
  <2>3. QED
    BY <2>1, <2>2 DEF ViewType
<1>2. Sent = <<>>
  BY <1>1 DEF Sent
<1>3. QED
  BY <1>1, <1>2 DEF ViewInv, V!Increasing

LEMMA ReceiveKeeps ==
  ASSUME ViewInv, V!Receive
  PROVE  ViewInv'
<1>1. received' = received + 1 /\ received \in Nat /\ viewer' = viewer /\ shown' = shown
      /\ NextToLook' = NextToLook /\ Sent' = Sent
  BY DEF V!Receive, ViewInv, ViewType, Sent, NextToLook
<1>2. DOMAIN Sent = 1 .. Len(Sent) /\ \A j \in DOMAIN Sent : Sent[j] \in Nat /\ Sent[j] <= received
  BY SentType DEF ViewInv
<1>3. CASE ~session
  <2>1. buffer' = buffer
    BY <1>3 DEF V!Receive
  <2>2. \A i \in DOMAIN buffer : buffer[i] \in Nat
    BY ElementOfSeq, LenProperties DEF ViewInv, ViewType
  <2>3. QED
    BY <1>1, <1>2, <2>1, <2>2 DEF ViewInv, ViewType, V!Increasing
<1>4. CASE session
  <2> DEFINE longer == Append(buffer, received + 1)
             len == Len(buffer)
  <2>1. /\ longer \in Seq(Nat) /\ Len(longer) = len + 1 /\ len \in Nat
        /\ \A i \in 1 .. len : longer[i] = buffer[i]
        /\ longer[len + 1] = received + 1
        /\ DOMAIN buffer = 1 .. len
    BY <1>1, AppendProperties, LenProperties DEF ViewInv, ViewType
  <2>2. buffer' = V!Cut(longer)
    BY <1>1, <1>4 DEF V!Receive
  <2>3. PICK d \in Nat :
          /\ Len(buffer') + d = len + 1
          /\ \A i \in 1 .. Len(buffer') : buffer'[i] = longer[i + d]
    <3>1. \E d \in Nat : /\ Len(V!Cut(longer)) + d = Len(longer)
                        /\ \A i \in 1 .. Len(V!Cut(longer)) : V!Cut(longer)[i] = longer[i + d]
      BY <2>1, CutKeepsNewest
    <3> HIDE DEF longer
    <3>2. QED
      BY <2>1, <2>2, <3>1
  <2>4. buffer' \in Seq(Nat) /\ Len(buffer') \in Nat /\ DOMAIN buffer' = 1 .. Len(buffer')
    BY <2>1, <2>2, CutKeepsNewest, LenProperties
  <2>5. ASSUME NEW i \in 1 .. Len(buffer')
        PROVE  \/ i + d \in DOMAIN buffer /\ buffer'[i] = buffer[i + d]
               \/ i + d = len + 1 /\ buffer'[i] = received + 1
    <3>1. i + d \in 1 .. len \/ i + d = len + 1
      BY <2>1, <2>3, <2>4
    <3>2. QED
      BY <2>1, <2>3, <3>1
  <2>6. \A i \in DOMAIN buffer : buffer[i] \in Nat /\ buffer[i] <= received
    BY ElementOfSeq, LenProperties DEF ViewInv, ViewType
  <2>7. V!Increasing(buffer')
    <3> SUFFICES ASSUME NEW i \in DOMAIN buffer', NEW j \in DOMAIN buffer', i < j
                 PROVE  buffer'[i] < buffer'[j]
      BY DEF V!Increasing
    <3>1. i \in 1 .. Len(buffer') /\ j \in 1 .. Len(buffer')
      BY <2>4
    <3>2. i + d < j + d /\ j + d <= len + 1 /\ i + d \in DOMAIN buffer /\ buffer'[i] = buffer[i + d]
      BY <2>1, <2>3, <2>4, <2>5, <3>1
    <3>3. CASE j + d \in DOMAIN buffer /\ buffer'[j] = buffer[j + d]
      BY <3>2, <3>3 DEF ViewInv, V!Increasing
    <3>4. CASE buffer'[j] = received + 1
      BY <1>1, <2>6, <3>2, <3>4
    <3>5. QED
      BY <2>5, <3>1, <3>3, <3>4
  <2>8. ASSUME NEW i \in DOMAIN buffer'
        PROVE  /\ buffer'[i] <= received + 1
               /\ i > NextToLook => \A j \in DOMAIN Sent : Sent[j] < buffer'[i]
    <3>1. CASE buffer'[i] = received + 1
      BY <1>1, <1>2, <3>1
    <3>2. CASE i + d \in DOMAIN buffer /\ buffer'[i] = buffer[i + d]
      <4>1. NextToLook \in Nat
        BY DEF NextToLook, ViewInv, ViewType
      <4>2. i > NextToLook => i + d > NextToLook
        BY <2>4, <4>1
      <4>3. QED
        BY <1>1, <2>6, <3>2, <4>2 DEF ViewInv
    <3>3. QED
      BY <2>4, <2>5, <3>1, <3>2
  <2>9. \A j \in DOMAIN Sent : Sent[j] <= received + 1
    BY <1>1, <1>2
  <2>10. QED
    BY <1>1, <2>4, <2>7, <2>8, <2>9 DEF ViewInv, ViewType
<1>5. QED
  BY <1>3, <1>4

\* The session's end, and the next one: an empty buffer.
LEMMA EmptiedKeeps ==
  ASSUME ViewInv, V!Leave \/ V!Return
  PROVE  ViewInv'
<1>1. received' = received /\ buffer' = <<>> /\ viewer' = viewer /\ shown' = shown /\ Sent' = Sent
  BY DEF V!Leave, V!Return, Sent
<1>2. QED
  BY <1>1 DEF ViewInv, ViewType, V!Increasing

\* The viewer takes what follows its index; it skips no further than to the end.
LEMMA LookKeeps ==
  ASSUME ViewInv, V!Look
  PROVE  ViewInv'
<1> DEFINE len == Len(buffer)
<1>1. received' = received /\ buffer' = buffer /\ shown' = shown /\ viewer.at = "waiting"
      /\ viewer.lines = <<>> /\ shown \in Seq(Nat) /\ buffer \in Seq(Nat)
  BY DEF V!Look, ViewInv, ViewType
<1>2. len \in Nat /\ DOMAIN buffer = 1 .. len /\ \A i \in DOMAIN buffer : buffer[i] \in Nat
  BY <1>1, LenProperties, ElementOfSeq
<1>3. Sent = shown
  BY <1>1, ConcatEmptySeq DEF Sent
<1>4. CASE viewer' = V!Skipped(viewer)
  <2>1. viewer' = [viewer EXCEPT !.lastIndex = len]
    BY <1>4 DEF V!Skipped
  <2>2. viewer'.at = "waiting" /\ viewer'.lines = <<>> /\ viewer'.lastIndex = len /\ ViewType'
    BY <1>1, <1>2, <2>1 DEF ViewInv, ViewType
  <2>3. Sent' = Sent /\ NextToLook' = len
    BY <1>1, <2>2 DEF Sent, NextToLook
  <2>4. QED
    BY <1>1, <1>2, <2>2, <2>3 DEF ViewInv, V!Increasing
<1>5. CASE /\ len > viewer.lastIndex
           /\ viewer' = [viewer EXCEPT !.at = "sending", !.upTo = len,
                            !.lines = SubSeq(buffer, viewer.lastIndex + 1, len)]
  <2> DEFINE m == viewer.lastIndex
             taken == SubSeq(buffer, m + 1, len)
  <2>1. m \in Nat /\ NextToLook = m
    BY <1>1 DEF ViewInv, ViewType, NextToLook
  <2>2. taken \in Seq(Nat) /\ Len(taken) = len - m
        /\ \A i \in 1 .. len - m : taken[i] = buffer[m + i]
    <3>1. m + 1 \in 1 .. len + 1 /\ len \in (m + 1) - 1 .. len /\ len - (m + 1) + 1 = len - m
      BY <1>2, <1>5, <2>1
    <3>2. \A i \in 1 .. len - m : (m + 1) + i - 1 = m + i
      BY <1>2, <2>1
    <3> HIDE DEF m
    <3>3. /\ taken \in Seq(Nat) /\ Len(taken) = len - (m + 1) + 1
          /\ \A i \in 1 .. len - (m + 1) + 1 : taken[i] = buffer[(m + 1) + i - 1]
      <4>1. buffer \in Seq(Nat)
        BY <1>1
      <4>2. QED
        BY ONLY <3>1, <4>1, SubSeqProperties
    <3> HIDE DEF taken
    <3>4. QED
      BY <3>1, <3>2, <3>3
  <2>3. viewer'.at = "sending" /\ viewer'.lines = taken /\ viewer'.upTo = len /\ ViewType'
    BY <1>1, <1>2, <1>5, <2>2 DEF ViewInv, ViewType
  <2>4. NextToLook' = len /\ Sent' = shown \o taken
    BY <1>1, <2>3 DEF NextToLook, Sent
  <2>5. /\ Sent' \in Seq(Nat) /\ Len(Sent') = Len(shown) + (len - m)
        /\ \A i \in 1 .. Len(shown) : Sent'[i] = Sent[i]
        /\ \A i \in 1 .. len - m : Sent'[Len(shown) + i] = buffer[m + i]
    <3>1. shown \in Seq(Nat) /\ taken \in Seq(Nat)
      BY <1>1, <2>2
    <3> HIDE DEF taken
    <3>2. /\ shown \o taken \in Seq(Nat) /\ Len(shown \o taken) = Len(shown) + Len(taken)
          /\ \A i \in 1 .. Len(shown) : (shown \o taken)[i] = shown[i]
          /\ \A i \in 1 .. Len(taken) : (shown \o taken)[Len(shown) + i] = taken[i]
      BY ONLY <3>1, PlacesOfConcat
    <3>3. QED
      BY <1>3, <2>2, <2>4, <3>2
  <2>6. Len(shown) \in Nat /\ len - m \in Nat /\ DOMAIN Sent' = 1 .. Len(shown) + (len - m)
        /\ DOMAIN Sent = 1 .. Len(shown)
    BY <1>1, <1>2, <1>3, <1>5, <2>1, <2>5, LenProperties
  <2>7. ASSUME NEW i \in DOMAIN Sent'
        PROVE  \/ i \in DOMAIN Sent /\ Sent'[i] = Sent[i]
               \/ /\ i - Len(shown) \in 1 .. len - m /\ i > Len(shown)
                  /\ Sent'[i] = buffer[m + (i - Len(shown))]
                  /\ m + (i - Len(shown)) \in DOMAIN buffer
                  /\ m + (i - Len(shown)) > NextToLook
    <3>1. CASE i <= Len(shown)
      BY <2>5, <2>6, <3>1
    <3>2. CASE ~(i <= Len(shown))
      <4>1. /\ i - Len(shown) \in 1 .. len - m /\ Len(shown) + (i - Len(shown)) = i
            /\ m + (i - Len(shown)) \in 1 .. len /\ m + (i - Len(shown)) > m
        BY <1>2, <2>1, <2>6, <3>2
      <4>2. Sent'[Len(shown) + (i - Len(shown))] = buffer[m + (i - Len(shown))]
        BY <2>5, <4>1
      <4>3. QED
        BY <1>2, <2>1, <2>6, <3>2, <4>1, <4>2
    <3>3. QED
      BY <3>1, <3>2
  <2>8. V!Increasing(Sent')
    <3> SUFFICES ASSUME NEW i \in DOMAIN Sent', NEW j \in DOMAIN Sent', i < j
                 PROVE  Sent'[i] < Sent'[j]
      BY DEF V!Increasing
    <3>1. CASE j \in DOMAIN Sent /\ Sent'[j] = Sent[j]
      <4>1. i \in DOMAIN Sent /\ Sent'[i] = Sent[i]
        BY <2>6, <2>7, <3>1
      <4>2. QED
        BY <3>1, <4>1 DEF ViewInv, V!Increasing
    <3>2. CASE /\ j > Len(shown) /\ Sent'[j] = buffer[m + (j - Len(shown))]
               /\ m + (j - Len(shown)) \in DOMAIN buffer /\ m + (j - Len(shown)) > NextToLook
      <4>1. CASE i \in DOMAIN Sent /\ Sent'[i] = Sent[i]
        BY <3>2, <4>1 DEF ViewInv
      <4>2. CASE /\ Sent'[i] = buffer[m + (i - Len(shown))]
                 /\ m + (i - Len(shown)) \in DOMAIN buffer
        <5>1. m + (i - Len(shown)) < m + (j - Len(shown))
          BY <2>1, <2>6
        <5>2. QED
          BY <3>2, <4>2, <5>1 DEF ViewInv, V!Increasing
      <4>3. QED
        BY <2>7, <4>1, <4>2
    <3>3. QED
      BY <2>7, <3>1, <3>2
  <2>9. \A i \in DOMAIN Sent' : Sent'[i] <= received
    BY <2>7 DEF ViewInv
  <2>10. /\ V!Increasing(buffer')
         /\ \A i \in DOMAIN buffer' : buffer'[i] <= received' /\ ~(i > NextToLook')
    BY <1>1, <1>2, <2>4 DEF ViewInv
  <2>11. /\ received' = received /\ ViewType' /\ viewer'.at = "sending"
    BY <1>1, <2>3
  <2>12. QED
    BY ONLY <2>8, <2>9, <2>10, <2>11 DEF ViewInv
<1>6. QED
  BY <1>4, <1>5 DEF V!Look

\* The line that is shown was the first of those to send.
LEMMA ShowKeeps ==
  ASSUME ViewInv, V!Show
  PROVE  ViewInv'
<1>1. received' = received /\ buffer' = buffer /\ viewer.at = "sending"
      /\ shown \in Seq(Nat) /\ viewer.lines \in Seq(Nat)
  BY DEF V!Show, ViewInv, ViewType
<1>2. CASE viewer.lines = <<>>
  <2>1. viewer' = [viewer EXCEPT !.at = "waiting", !.lastIndex = viewer.upTo, !.upTo = 0]
        /\ shown' = shown
    BY <1>2 DEF V!Show, V!NextIndex
  <2>2. /\ viewer'.at = "waiting" /\ viewer'.lines = <<>> /\ viewer'.lastIndex = viewer.upTo
        /\ ViewType'
    BY <1>1, <1>2, <2>1 DEF ViewInv, ViewType
  <2>3. Sent' = Sent /\ NextToLook' = NextToLook
    BY <1>1, <1>2, <2>1, <2>2 DEF Sent, NextToLook
  <2>4. QED
    BY <1>1, <2>2, <2>3 DEF ViewInv
<1>3. CASE viewer.lines # <<>>
  <2> DEFINE first == Head(viewer.lines)
             rest == Tail(viewer.lines)
  <2>1. viewer' = [viewer EXCEPT !.lines = rest] /\ shown' = Append(shown, first)
    BY <1>3 DEF V!Show
  <2>2. first \in Nat /\ rest \in Seq(Nat) /\ viewer.lines = <<first>> \o rest
    <3>1. first \in Nat /\ rest \in Seq(Nat)
      BY <1>1, <1>3, HeadTailProperties
    <3>2. viewer.lines = <<first>> \o rest
      BY <1>1, <1>3
    <3>3. QED
      BY <3>1, <3>2
  <2>3. /\ viewer'.at = "sending" /\ viewer'.lines = rest /\ viewer'.upTo = viewer.upTo
        /\ ViewType'
    BY <1>1, <2>1, <2>2, AppendProperties DEF ViewInv, ViewType
  <2>4. Sent' = Sent
    <3>1. Append(shown, first) = shown \o <<first>> /\ <<first>> \in Seq(Nat)
      BY <1>1, <2>2, AppendIsConcat
    <3>2. \A a, b, c \in Seq(Nat) : (a \o b) \o c = a \o (b \o c)
      BY ConcatAssociative
    <3> HIDE DEF first, rest
    <3>3. QED
      BY <1>1, <2>1, <2>2, <2>3, <3>1, <3>2 DEF Sent
  <2>5. NextToLook' = NextToLook
    BY <1>1, <2>3 DEF NextToLook
  <2>6. QED
    BY <1>1, <2>3, <2>4, <2>5 DEF ViewInv
<1>4. QED
  BY <1>2, <1>3

LEMMA ViewStep ==
  ASSUME ViewInv, V!Next
  PROVE  ViewInv'
BY ReceiveKeeps, EmptiedKeeps, LookKeeps, ShowKeeps DEF V!Next

LEMMA ViewStutters ==
  ASSUME ViewInv, UNCHANGED viewVars
  PROVE  ViewInv'
BY DEF viewVars, ViewInv, ViewType, Sent, NextToLook, V!Increasing

-----------------------------------------------------------------------------

\* No line of a followed file is read twice or, in a file that is left as it is, passed
\* over, and the viewer shows none twice and none before an older one (log_watcher.py:305-324,
\* routes/logs.py:196-218): for any files, bounds, and number of rotations and cuts.
THEOREM LinesOnce == Spec => []EachLineOnce
<1>1. Init => TailInv /\ ViewInv
  BY TailStarts, ViewStarts DEF Init
<1>2. TailInv /\ ViewInv /\ [Next]_vars => (TailInv /\ ViewInv)'
  <2>1. ASSUME TailInv, ViewInv, T!Next, UNCHANGED viewVars
        PROVE  (TailInv /\ ViewInv)'
    BY <2>1, TailStep, ViewStutters
  <2>2. ASSUME TailInv, ViewInv, V!Next, UNCHANGED tailVars
        PROVE  (TailInv /\ ViewInv)'
    BY <2>2, ViewStep, TailStutters
  <2>3. ASSUME TailInv, ViewInv, UNCHANGED vars
        PROVE  (TailInv /\ ViewInv)'
    BY <2>3, ViewStutters, TailStutters DEF vars
  <2>4. QED
    BY <2>1, <2>2, <2>3 DEF Next
<1>3. TailInv /\ ViewInv => EachLineOnce
  BY TailInvImplies DEF ViewInv, EachLineOnce, V!ShownOnce, Sent
<1>4. QED
  BY <1>1, <1>2, <1>3, PTL DEF Spec

-----------------------------------------------------------------------------
(* The statistics.                                                         *)

\* The signals that wait are finitely many, each of a time.
Signals ==
  /\ IsFiniteSet(DOMAIN iaPending)
  /\ \A e \in DOMAIN iaPending : iaPending[e] \in Nat
  /\ ia \in [seen : Nat, repeated : Nat, matched : Nat, expired : Nat]

IaInv == Signals /\ IaAccounted

LEMMA LeastOf ==
  ASSUME NEW I \in SUBSET Nat, I # {}
  PROVE  \E m \in I : \A i \in I : m <= i
<1> DEFINE R == OpToRel(<, Nat)
<1>1. \E m \in I : \A y \in I : <<y, m>> \notin R
  <2>1. IsWellFoundedOn(R, Nat)
    BY NatLessThanWellFounded
  <2> HIDE DEF R
  <2>2. QED
    BY <2>1, WFMin
<1>2. PICK m \in I : \A y \in I : ~(y < m)
  BY <1>1 DEF OpToRel
<1>3. \A y \in I : m <= y
  BY <1>2
<1>4. QED
  BY <1>3

LEMMA SameCount ==
  ASSUME NEW S
  PROVE  M!Cardinality(S) = Cardinality(S)
BY DEF M!Cardinality, Cardinality

LEMMA OldestWaits ==
  ASSUME Signals, DOMAIN iaPending # {}
  PROVE  M!Oldest \in DOMAIN iaPending
<1> DEFINE times == {iaPending[e] : e \in DOMAIN iaPending}
<1>1. times \in SUBSET Nat /\ times # {}
  BY DEF Signals
<1>2. PICK t \in times : \A u \in times : t <= u
  BY ONLY <1>1, LeastOf
<1>3. \E e \in DOMAIN iaPending : \A f \in DOMAIN iaPending : iaPending[e] <= iaPending[f]
  BY <1>2
<1>4. QED
  BY <1>3 DEF M!Oldest

LEMMA IaStarts ==
  ASSUME M!Init
  PROVE  IaInv
<1>1. DOMAIN iaPending = {} /\ ia = [seen |-> 0, repeated |-> 0, matched |-> 0, expired |-> 0]
  BY DEF M!Init
<1>2. IsFiniteSet({}) /\ M!Cardinality({}) = 0
  BY SameCount, FS_EmptySet
<1>3. QED
  BY <1>1, <1>2 DEF IaInv, Signals, IaAccounted, M!IaAccounted

LEMMA IaSame ==
  ASSUME IaInv, UNCHANGED <<iaPending, ia>>
  PROVE  IaInv'
BY DEF IaInv, Signals, IaAccounted, M!IaAccounted

LEMMA IaAnswered ==
  ASSUME IaInv, M!IaMatched
  PROVE  IaInv'
<1>1. CASE DOMAIN iaPending = {}
  BY <1>1, IaSame DEF M!IaMatched
<1>2. CASE DOMAIN iaPending # {}
  <2>1. M!Oldest \in DOMAIN iaPending
    BY <1>2, OldestWaits DEF IaInv
  <2>2. /\ iaPending' = [e \in DOMAIN iaPending \ {M!Oldest} |-> iaPending[e]]
        /\ ia' = [ia EXCEPT !.matched = @ + 1]
    BY <1>2 DEF M!IaMatched
  <2>3. DOMAIN iaPending' = DOMAIN iaPending \ {M!Oldest}
    BY <2>2
  <2>4. /\ IsFiniteSet(DOMAIN iaPending')
        /\ Cardinality(DOMAIN iaPending') = Cardinality(DOMAIN iaPending) - 1
        /\ Cardinality(DOMAIN iaPending) \in Nat
    BY <2>1, <2>3, FS_RemoveElement, FS_CardinalityType DEF IaInv, Signals
  <2>5. Signals'
    BY <2>2, <2>3, <2>4 DEF IaInv, Signals
  <2>6. IaAccounted'
    BY <2>2, <2>4, SameCount DEF IaInv, Signals, IaAccounted, M!IaAccounted
  <2>7. QED
    BY <2>5, <2>6 DEF IaInv
<1>3. QED
  BY <1>1, <1>2

LEMMA IaSeen ==
  ASSUME IaInv, NEW e, NEW time \in Nat, M!IaSignal(e, time)
  PROVE  IaInv'
<1>1. /\ iaPending' = [f \in DOMAIN iaPending \cup {e} |-> IF f = e THEN time ELSE iaPending[f]]
      /\ ia' = [ia EXCEPT !.seen = @ + 1,
                          !.repeated = IF e \in DOMAIN iaPending THEN @ + 1 ELSE @]
  BY DEF M!IaSignal
<1>2. DOMAIN iaPending' = DOMAIN iaPending \cup {e}
  BY <1>1
<1>3. /\ IsFiniteSet(DOMAIN iaPending')
      /\ Cardinality(DOMAIN iaPending') = IF e \in DOMAIN iaPending THEN Cardinality(DOMAIN iaPending)
                                          ELSE Cardinality(DOMAIN iaPending) + 1
      /\ Cardinality(DOMAIN iaPending) \in Nat
  BY <1>2, FS_AddElement, FS_CardinalityType DEF IaInv, Signals
<1>4. Signals'
  <2>1. \A f \in DOMAIN iaPending' : iaPending'[f] \in Nat
    BY <1>1, <1>2 DEF IaInv, Signals
  <2>2. ia' \in [seen : Nat, repeated : Nat, matched : Nat, expired : Nat]
    <3>1. ia \in [seen : Nat, repeated : Nat, matched : Nat, expired : Nat]
      BY DEF IaInv, Signals
    <3>2. ia' = [ia EXCEPT !.seen = ia.seen + 1,
                           !.repeated = IF e \in DOMAIN iaPending THEN ia.repeated + 1 ELSE ia.repeated]
      BY <1>1, <3>1
    <3>3. /\ ia.seen + 1 \in Nat
          /\ (IF e \in DOMAIN iaPending THEN ia.repeated + 1 ELSE ia.repeated) \in Nat
      BY <3>1
    <3>4. QED
      BY ONLY <3>1, <3>2, <3>3
  <2>3. QED
    BY <1>3, <2>1, <2>2 DEF Signals
<1>5. IaAccounted'
  BY <1>1, <1>3, SameCount DEF IaInv, Signals, IaAccounted, M!IaAccounted
<1>6. QED
  BY <1>4, <1>5 DEF IaInv

LEMMA IaPruned ==
  ASSUME IaInv, M!Show
  PROVE  IaInv'
<1>1. /\ iaPending' = [e \in DOMAIN iaPending \ M!Expired |-> iaPending[e]]
      /\ ia' = [ia EXCEPT !.expired = @ + M!Cardinality(M!Expired)]
  BY DEF M!Show, M!StillPending
<1>2. DOMAIN iaPending' = DOMAIN iaPending \ M!Expired
  BY <1>1
<1>3. M!Expired \subseteq DOMAIN iaPending
  BY DEF M!Expired
<1>4. IsFiniteSet(DOMAIN iaPending) /\ IsFiniteSet(M!Expired)
  BY <1>3, FS_Subset DEF IaInv, Signals
<1>5. /\ IsFiniteSet(DOMAIN iaPending')
      /\ Cardinality(DOMAIN iaPending') = Cardinality(DOMAIN iaPending)
                                          - Cardinality(DOMAIN iaPending \cap M!Expired)
  BY <1>2, <1>4, FS_Difference
<1>6. DOMAIN iaPending \cap M!Expired = M!Expired
  BY <1>3
<1>7. Cardinality(DOMAIN iaPending) \in Nat /\ Cardinality(M!Expired) \in Nat
  BY <1>4, FS_CardinalityType
<1>8. Signals'
  BY <1>1, <1>2, <1>5, <1>7, SameCount DEF IaInv, Signals
<1>9. IaAccounted'
  <2>1. /\ ia'.seen = ia.seen /\ ia'.matched = ia.matched /\ ia'.repeated = ia.repeated
        /\ ia'.expired = ia.expired + Cardinality(M!Expired)
    BY <1>1, SameCount DEF IaInv, Signals
  <2>2. ia.seen = Cardinality(DOMAIN iaPending) + ia.matched + ia.expired + ia.repeated
    BY SameCount DEF IaInv, IaAccounted, M!IaAccounted
  <2>3. Cardinality(DOMAIN iaPending') = Cardinality(DOMAIN iaPending) - Cardinality(M!Expired)
    BY <1>5, <1>6
  <2>4. ia.seen \in Nat /\ ia.matched \in Nat /\ ia.expired \in Nat /\ ia.repeated \in Nat
    BY DEF IaInv, Signals
  <2>5. ia'.seen = Cardinality(DOMAIN iaPending') + ia'.matched + ia'.expired + ia'.repeated
    BY <1>7, <2>1, <2>2, <2>3, <2>4
  <2>6. QED
    BY <2>5, SameCount DEF IaAccounted, M!IaAccounted
<1>10. QED
  BY <1>8, <1>9 DEF IaInv

LEMMA IaReset ==
  ASSUME M!Reset
  PROVE  IaInv'
<1>1. DOMAIN iaPending' = {} /\ ia' = [seen |-> 0, repeated |-> 0, matched |-> 0, expired |-> 0]
  BY DEF M!Reset
<1>2. IsFiniteSet({}) /\ M!Cardinality({}) = 0
  BY SameCount, FS_EmptySet
<1>3. QED
  BY <1>1, <1>2 DEF IaInv, Signals, IaAccounted, M!IaAccounted

-----------------------------------------------------------------------------
\* The places of the times that are young enough, and of the lines of a kind
\* that are, since the last reset.
Young(times, cutoff) == {i \in DOMAIN times : times[i] >= cutoff}
Since(text, k, cutoff) ==
  {i \in DOMAIN text :
     /\ text[i].kind = k
     /\ text[i].time >= cutoff
     /\ \A j \in i .. Len(text) : text[j].kind # "reset"}

Line == [kind : EventKind \cup {"thread", "reset"}, time : Nat]

Rising(times) == \A i, j \in 1 .. Len(times) : i <= j => times[i] <= times[j]

\* What was pruned is too old for this reader and for every later one.
CountInv ==
  /\ now \in Nat /\ last \in Nat
  /\ events \in [EventKind -> Seq(Nat)]
  /\ lines \in Seq(Line)
  /\ \A k \in EventKind :
       /\ Rising(events[k])
       /\ \A i \in 1 .. Len(events[k]) : events[k][i] <= last
       /\ \A c \in Int : c >= now - Window[k] =>
            Cardinality(Young(events[k], c)) = Cardinality(Since(lines, k, c))

LEMMA YoungIsFinite ==
  ASSUME NEW s \in Seq(Nat), NEW c \in Int
  PROVE  IsFiniteSet(Young(s, c)) /\ Cardinality(Young(s, c)) \in Nat
<1>1. DOMAIN s = 1 .. Len(s) /\ Len(s) \in Nat
  BY LenProperties
<1>2. IsFiniteSet(1 .. Len(s))
  BY <1>1, FS_Interval
<1>3. Young(s, c) \in SUBSET (1 .. Len(s))
  BY <1>1 DEF Young
<1>4. QED
  BY <1>2, <1>3, FS_Subset, FS_CardinalityType

LEMMA SinceIsFinite ==
  ASSUME NEW S, NEW s \in Seq(S), NEW k, NEW c \in Int
  PROVE  IsFiniteSet(Since(s, k, c)) /\ Cardinality(Since(s, k, c)) \in Nat
<1>1. DOMAIN s = 1 .. Len(s) /\ Len(s) \in Nat
  BY LenProperties
<1>2. IsFiniteSet(1 .. Len(s))
  BY <1>1, FS_Interval
<1>3. Since(s, k, c) \in SUBSET (1 .. Len(s))
  BY <1>1 DEF Since
<1>4. QED
  BY <1>2, <1>3, FS_Subset, FS_CardinalityType

\* One more time.
LEMMA YoungAppended ==
  ASSUME NEW s \in Seq(Nat), NEW t \in Nat, NEW c \in Int
  PROVE  Cardinality(Young(Append(s, t), c)) =
           IF t >= c THEN Cardinality(Young(s, c)) + 1 ELSE Cardinality(Young(s, c))
<1>1. /\ DOMAIN s = 1 .. Len(s) /\ Len(s) \in Nat
      /\ DOMAIN Append(s, t) = 1 .. Len(s) + 1
      /\ \A i \in 1 .. Len(s) : Append(s, t)[i] = s[i]
      /\ Append(s, t)[Len(s) + 1] = t
  BY LenProperties, AppendProperties
<1>2. Young(Append(s, t), c) = IF t >= c THEN Young(s, c) \cup {Len(s) + 1} ELSE Young(s, c)
  <2>1. /\ Young(Append(s, t), c) = {i \in 1 .. Len(s) + 1 : Append(s, t)[i] >= c}
        /\ Young(s, c) = {i \in 1 .. Len(s) : s[i] >= c}
    BY <1>1 DEF Young
  <2>2. \A i : i \in 1 .. Len(s) + 1 <=> i \in 1 .. Len(s) \/ i = Len(s) + 1
    BY <1>1
  <2>3. Len(s) + 1 \notin 1 .. Len(s)
    BY <1>1
  <2>4. QED
    BY ONLY <1>1, <2>1, <2>2, <2>3
<1>3. Len(s) + 1 \notin Young(s, c)
  BY <1>1 DEF Young
<1>4. QED
  BY <1>2, <1>3, YoungIsFinite, FS_AddElement

\* One more line.
LEMMA SinceAppended ==
  ASSUME NEW S, NEW s \in Seq(S), NEW l \in S, l.kind # "reset", NEW k, NEW c \in Int
  PROVE  Cardinality(Since(Append(s, l), k, c)) =
           IF l.kind = k /\ l.time >= c THEN Cardinality(Since(s, k, c)) + 1
           ELSE Cardinality(Since(s, k, c))
<1>1. /\ DOMAIN s = 1 .. Len(s) /\ Len(s) \in Nat
      /\ DOMAIN Append(s, l) = 1 .. Len(s) + 1 /\ Len(Append(s, l)) = Len(s) + 1
      /\ \A i \in 1 .. Len(s) : Append(s, l)[i] = s[i]
      /\ Append(s, l)[Len(s) + 1] = l
  BY LenProperties, AppendProperties
<1>2. ASSUME NEW i \in 1 .. Len(s)
      PROVE  i \in Since(Append(s, l), k, c) <=> i \in Since(s, k, c)
  <2>1. \A j \in i .. Len(s) : j \in 1 .. Len(s) /\ j \in i .. Len(s) + 1
    BY <1>1
  <2>2. \A j \in i .. Len(s) + 1 : j \in i .. Len(s) \/ j = Len(s) + 1
    BY <1>1
  <2>3. (\A j \in i .. Len(s) + 1 : Append(s, l)[j].kind # "reset")
          <=> (\A j \in i .. Len(s) : s[j].kind # "reset")
    BY <1>1, <2>1, <2>2
  <2>4. QED
    BY <1>1, <2>3 DEF Since
<1>3. Len(s) + 1 \in Since(Append(s, l), k, c) <=> l.kind = k /\ l.time >= c
  <2>1. Len(s) + 1 \in 1 .. Len(s) + 1 /\ Len(s) + 1 .. Len(s) + 1 = {Len(s) + 1}
    BY <1>1
  <2>2. QED
    BY <1>1, <2>1 DEF Since
<1>4. /\ \A i \in 1 .. Len(s) + 1 : i \in 1 .. Len(s) \/ i = Len(s) + 1
      /\ Len(s) + 1 \notin 1 .. Len(s)
  BY <1>1
<1>5. Since(s, k, c) \subseteq 1 .. Len(s) /\ Since(Append(s, l), k, c) \subseteq 1 .. Len(s) + 1
  BY <1>1 DEF Since
<1>6. Since(Append(s, l), k, c) = IF l.kind = k /\ l.time >= c THEN Since(s, k, c) \cup {Len(s) + 1}
                                  ELSE Since(s, k, c)
  BY <1>2, <1>3, <1>4, <1>5
<1>7. QED
  BY <1>4, <1>5, <1>6, SinceIsFinite, FS_AddElement

\* After a reset nothing counts.
LEMMA SinceReset ==
  ASSUME NEW S, NEW s \in Seq(S), NEW l \in S, l.kind = "reset", NEW k \in EventKind, NEW c \in Int
  PROVE  Cardinality(Since(Append(s, l), k, c)) = 0
<1>1. /\ Len(s) \in Nat
      /\ DOMAIN Append(s, l) = 1 .. Len(s) + 1 /\ Len(Append(s, l)) = Len(s) + 1
      /\ Append(s, l)[Len(s) + 1] = l
  BY LenProperties, AppendProperties
<1>2. \A i \in 1 .. Len(s) + 1 : Len(s) + 1 \in i .. Len(s) + 1
  BY <1>1
<1>3. Since(Append(s, l), k, c) = {}
  BY <1>1, <1>2 DEF Since
<1>4. QED
  BY <1>3, FS_EmptySet

\* The head that is dropped is older than every cutoff to come.
LEMMA PrunedCounts ==
  ASSUME NEW s \in Seq(Nat), Rising(s), NEW cut \in Int
  PROVE  /\ M!Pruned(s, cut) \in Seq(Nat) /\ Rising(M!Pruned(s, cut))
         /\ \A i \in 1 .. Len(M!Pruned(s, cut)) : \E j \in 1 .. Len(s) : M!Pruned(s, cut)[i] = s[j]
         /\ Len(M!Pruned(s, cut)) = Cardinality(Young(s, cut))
         /\ \A c \in Int : c >= cut => Cardinality(Young(M!Pruned(s, cut), c)) = Cardinality(Young(s, c))
<1> DEFINE kept == {i \in DOMAIN s : s[i] >= cut}
           m == CHOOSE i \in kept : \A j \in kept : i <= j
           p == M!Pruned(s, cut)
<1>1. DOMAIN s = 1 .. Len(s) /\ Len(s) \in Nat /\ \A i \in 1 .. Len(s) : s[i] \in Nat
  BY LenProperties, ElementOfSeq
<1>2. p = IF kept = {} THEN <<>> ELSE SubSeq(s, m, Len(s))
  BY DEF M!Pruned
<1>3. CASE kept = {}
  <2>1. p = <<>>
    BY <1>2, <1>3
  <2>2. ASSUME NEW c \in Int, c >= cut
        PROVE  Young(p, c) = {} /\ Young(s, c) = {}
    BY <1>1, <1>3, <2>1, <2>2 DEF Young
  <2>3. Young(s, cut) = {}
    BY <2>2
  <2>4. p \in Seq(Nat) /\ Len(p) = 0
    BY <2>1
  <2>5. 1 .. Len(p) = {}
    BY <2>4
  <2>6. Rising(p) /\ \A i \in 1 .. Len(p) : \E j \in 1 .. Len(s) : p[i] = s[j]
    BY <2>5 DEF Rising
  <2>7. Len(p) = Cardinality(Young(s, cut))
    BY <2>3, <2>4, FS_EmptySet
  <2>8. \A c \in Int : c >= cut => Cardinality(Young(p, c)) = Cardinality(Young(s, c))
    BY <2>2
  <2>9. QED
    BY <2>4, <2>6, <2>7, <2>8
<1>4. CASE kept # {}
  <2>1. m \in kept /\ \A j \in kept : m <= j
    <3>1. kept \in SUBSET Nat
      BY <1>1
    <3>2. QED
      BY <1>4, <3>1, LeastOf
  <2>2. m \in 1 .. Len(s) /\ s[m] >= cut
    BY <1>1, <2>1
  <2>3. p = SubSeq(s, m, Len(s))
    BY <1>2, <1>4
  <2> HIDE DEF m, p
  <2>4. /\ p \in Seq(Nat) /\ Len(p) = Len(s) - m + 1
        /\ \A i \in 1 .. Len(s) - m + 1 : p[i] = s[m + i - 1]
    BY ONLY <1>1, <2>2, <2>3, s \in Seq(Nat), SubSeqProperties
  <2>5. DOMAIN p = 1 .. Len(s) - m + 1
    BY <2>4, LenProperties
  <2>6. \A i \in 1 .. Len(s) - m + 1 : m + i - 1 \in 1 .. Len(s) /\ m <= m + i - 1
    BY <1>1, <2>2
  <2>7. Rising(p)
    <3>1. \A i, j \in 1 .. Len(s) - m + 1 : i <= j => m + i - 1 <= m + j - 1
      BY <1>1, <2>2
    <3>2. QED
      BY <2>4, <2>6, <3>1 DEF Rising
  <2>8. \A i \in 1 .. Len(p) : \E j \in 1 .. Len(s) : p[i] = s[j]
    BY <2>4, <2>6
  <2>9. \A i \in 1 .. Len(p) : p[i] >= cut
    <3>1. ASSUME NEW i \in 1 .. Len(s) - m + 1
          PROVE  s[m + i - 1] >= cut
      <4>1. s[m] <= s[m + i - 1]
        BY <2>2, <2>6 DEF Rising
      <4>2. s[m] \in Nat /\ s[m + i - 1] \in Nat
        BY <1>1, <2>2, <2>6
      <4>3. QED
        BY <2>2, <4>1, <4>2
    <3>2. QED
      BY <2>4, <3>1
  <2>10. ASSUME NEW c \in Int, c >= cut
         PROVE  Cardinality(Young(p, c)) = Cardinality(Young(s, c))
    <3> DEFINE f == [i \in Young(p, c) |-> m + i - 1]
    <3>1. Young(p, c) = {i \in 1 .. Len(s) - m + 1 : s[m + i - 1] >= c}
      BY <2>4, <2>5 DEF Young
    <3>2. Young(s, c) = {i \in 1 .. Len(s) : s[i] >= c}
      BY <1>1 DEF Young
    <3>3. \A i \in Young(p, c) : m + i - 1 \in Young(s, c)
      BY <2>6, <3>1, <3>2
    <3>4. ASSUME NEW j \in Young(s, c)
          PROVE  j - m + 1 \in Young(p, c) /\ m + (j - m + 1) - 1 = j
      <4>1. j \in kept
        BY <1>1, <2>10, <3>2
      <4>2. j \in 1 .. Len(s) /\ m <= j
        BY <2>1, <3>2, <4>1
      <4>3. j - m + 1 \in 1 .. Len(s) - m + 1 /\ m + (j - m + 1) - 1 = j
        BY <1>1, <2>2, <4>2
      <4>4. QED
        BY <3>1, <3>2, <4>3
    <3>5. \A i, j \in Young(p, c) : m + i - 1 = m + j - 1 => i = j
      BY <2>2, <3>1
    <3>6. f \in Bijection(Young(p, c), Young(s, c))
      <4>1. f \in Injection(Young(p, c), Young(s, c))
        BY <3>3, <3>5 DEF Injection, IsInjective
      <4>2. f \in Surjection(Young(p, c), Young(s, c))
        BY <3>3, <3>4 DEF Surjection
      <4>3. QED
        BY <4>1, <4>2 DEF Bijection
    <3>7. ExistsBijection(Young(p, c), Young(s, c))
      BY <3>6 DEF ExistsBijection
    <3>8. IsFiniteSet(Young(p, c))
      BY <2>4, YoungIsFinite
    <3>9. QED
      BY <3>7, <3>8, FS_Bijection
  <2>11. Len(p) = Cardinality(Young(s, cut))
    <3>1. Young(p, cut) = 1 .. Len(p)
      BY <2>4, <2>5, <2>9 DEF Young
    <3>2. Cardinality(1 .. Len(p)) = Len(p)
      <4>1. Len(p) \in Nat
        BY <2>4, LenProperties
      <4>2. Cardinality(1 .. Len(p)) = IF 1 > Len(p) THEN 0 ELSE Len(p) - 1 + 1
        <5>1. 1 \in Int /\ Len(p) \in Int
          BY <4>1
        <5>2. QED
          BY ONLY <5>1, FS_Interval
      <4>3. QED
        BY ONLY <4>1, <4>2
    <3>3. cut >= cut
      OBVIOUS
    <3>4. QED
      BY <2>10, <3>1, <3>2, <3>3
  <2>12. QED
    BY <2>4, <2>7, <2>8, <2>10, <2>11 DEF p
<1>5. QED
  BY <1>3, <1>4

LEMMA CountStarts ==
  ASSUME M!Init
  PROVE  CountInv
<1>1. /\ now = 0 /\ last = 0 /\ lines = <<>>
      /\ events = [k \in EventKind |-> <<>>]
  BY WindowAssumption DEF M!Init, M!Kinds
<1>2. ASSUME NEW k \in EventKind
      PROVE  /\ Rising(events[k])
             /\ \A i \in 1 .. Len(events[k]) : events[k][i] <= last
             /\ \A c : Young(events[k], c) = {} /\ Since(lines, k, c) = {}
  <2>1. events[k] = <<>> /\ 1 .. Len(<<>>) = {}
    BY <1>1
  <2>2. QED
    BY <1>1, <2>1 DEF Rising, Young, Since
<1>3. events \in [EventKind -> Seq(Nat)] /\ lines \in Seq(Line)
  BY <1>1
<1>4. \A k \in EventKind : \A c \in Int :
        Cardinality(Young(events[k], c)) = Cardinality(Since(lines, k, c))
  BY <1>2
<1>5. QED
  BY <1>1, <1>2, <1>3, <1>4 DEF CountInv

LEMMA CountSame ==
  ASSUME CountInv, UNCHANGED <<now, last, events, lines>>
  PROVE  CountInv'
BY DEF CountInv

\* A line that is counted.
LEMMA CountLine ==
  ASSUME CountInv, NEW kind \in EventKind, NEW time \in Nat,
         M!Received(time), events' = M!Noted(kind, time), M!Line(kind, time), now' = now
  PROVE  CountInv'
<1> DEFINE l == [kind |-> kind, time |-> time]
           s == events[kind]
<1>1. /\ now \in Nat /\ last \in Nat
      /\ events \in [EventKind -> Seq(Nat)]
      /\ lines \in Seq(Line)
  BY DEF CountInv
<1>2. /\ last <= time /\ last' = time
      /\ lines' = Append(lines, l)
      /\ l \in Line /\ l.kind = kind /\ l.kind # "reset" /\ l.time = time
      /\ events' = [events EXCEPT ![kind] = Append(s, time)]
  <2>1. last <= time /\ last' = time
    BY <1>1 DEF M!Received
  <2>2. lines' = Append(lines, l) /\ events' = [events EXCEPT ![kind] = Append(s, time)]
    BY DEF M!Line, M!Noted
  <2>3. kind # "reset"
    BY DEF EventKind
  <2>4. l \in Line /\ l.kind = kind /\ l.time = time
    BY <2>3 DEF Line
  <2>5. QED
    BY <2>1, <2>2, <2>3, <2>4
<1> HIDE DEF l
<1>3. s \in Seq(Nat)
  BY <1>1
<1>4. /\ events' \in [EventKind -> Seq(Nat)]
      /\ events'[kind] = Append(s, time)
      /\ \A k \in EventKind : k # kind => events'[k] = events[k]
  <2>1. Append(s, time) \in Seq(Nat)
    BY <1>3, AppendProperties
  <2>2. QED
    BY <1>1, <1>2, <2>1
<1>5. lines' \in Seq(Line)
  BY <1>1, <1>2, AppendProperties
<1>6. Rising(Append(s, time)) /\ \A i \in 1 .. Len(Append(s, time)) : Append(s, time)[i] <= time
  <2>1. /\ Len(s) \in Nat /\ Len(Append(s, time)) = Len(s) + 1
        /\ \A i \in 1 .. Len(s) : Append(s, time)[i] = s[i] /\ s[i] \in Nat
        /\ Append(s, time)[Len(s) + 1] = time
    BY <1>3, LenProperties, AppendProperties, ElementOfSeq
  <2>2. /\ \A i \in 1 .. Len(s) : s[i] <= last
        /\ \A i, j \in 1 .. Len(s) : i <= j => s[i] <= s[j]
    BY DEF CountInv, Rising
  <2>3. \A i \in 1 .. Len(s) + 1 : Append(s, time)[i] <= time
    BY <1>1, <1>2, <2>1, <2>2
  <2>4. \A i, j \in 1 .. Len(s) + 1 : i <= j => Append(s, time)[i] <= Append(s, time)[j]
    <3>1. ASSUME NEW i \in 1 .. Len(s) + 1, NEW j \in 1 .. Len(s) + 1, i <= j
          PROVE  Append(s, time)[i] <= Append(s, time)[j]
      <4>1. CASE j = Len(s) + 1
        BY <2>1, <2>3, <4>1
      <4>2. CASE j \in 1 .. Len(s)
        <5>1. i \in 1 .. Len(s)
          BY <2>1, <3>1, <4>2
        <5>2. QED
          BY <2>1, <2>2, <3>1, <4>2, <5>1
      <4>3. QED
        BY <2>1, <4>1, <4>2
    <3>2. QED
      BY <3>1
  <2>5. QED
    BY <2>1, <2>3, <2>4 DEF Rising
<1>7. ASSUME NEW k \in EventKind
      PROVE  /\ Rising(events'[k])
             /\ \A i \in 1 .. Len(events'[k]) : events'[k][i] <= last'
  <2>1. CASE k = kind
    BY <1>2, <1>4, <1>6, <2>1
  <2>2. CASE k # kind
    <3>1. events'[k] = events[k] /\ events[k] \in Seq(Nat)
      BY <1>1, <1>4, <2>2
    <3>2. \A i \in 1 .. Len(events[k]) : events[k][i] \in Nat /\ events[k][i] <= last
      BY <3>1, ElementOfSeq DEF CountInv
    <3>3. \A i \in 1 .. Len(events[k]) : events[k][i] <= last'
      BY <1>1, <1>2, <3>2
    <3>4. QED
      BY <3>1, <3>3 DEF CountInv
  <2>3. QED
    BY <2>1, <2>2
<1>8. ASSUME NEW k \in EventKind, NEW c \in Int, c >= now - Window[k]
      PROVE  Cardinality(Young(events'[k], c)) = Cardinality(Since(lines', k, c))
  <2>1. Cardinality(Young(events[k], c)) = Cardinality(Since(lines, k, c))
    BY <1>8 DEF CountInv
  <2>2. Cardinality(Since(lines', k, c)) =
          IF kind = k /\ time >= c THEN Cardinality(Since(lines, k, c)) + 1
          ELSE Cardinality(Since(lines, k, c))
    <3>1. lines \in Seq(Line) /\ l \in Line /\ l.kind # "reset" /\ lines' = Append(lines, l)
      BY <1>1, <1>2
    <3>2. Cardinality(Since(Append(lines, l), k, c)) =
            IF l.kind = k /\ l.time >= c THEN Cardinality(Since(lines, k, c)) + 1
            ELSE Cardinality(Since(lines, k, c))
      BY ONLY <3>1, c \in Int, SinceAppended
    <3>3. QED
      BY <1>2, <3>1, <3>2
  <2>3. CASE k = kind
    <3>1. Cardinality(Young(Append(s, time), c)) =
            IF time >= c THEN Cardinality(Young(s, c)) + 1 ELSE Cardinality(Young(s, c))
      BY <1>3, YoungAppended
    <3>2. QED
      BY <1>4, <2>1, <2>2, <2>3, <3>1
  <2>4. CASE k # kind
    BY <1>4, <2>1, <2>2, <2>4
  <2>5. QED
    BY <2>3, <2>4
<1>9. QED
  BY <1>1, <1>2, <1>4, <1>5, <1>7, <1>8 DEF CountInv

\* A line of a thread, which is not.
LEMMA CountThread ==
  ASSUME CountInv, NEW time \in Nat,
         M!Received(time), events' = events, M!Line("thread", time), now' = now
  PROVE  CountInv'
<1> DEFINE l == [kind |-> "thread", time |-> time]
<1>1. /\ now \in Nat /\ last \in Nat
      /\ events \in [EventKind -> Seq(Nat)]
      /\ lines \in Seq(Line)
  BY DEF CountInv
<1>2. /\ last <= time /\ last' = time
      /\ lines' = Append(lines, l)
      /\ l \in Line /\ l.kind = "thread" /\ "thread" \notin EventKind
  <2>1. last <= time /\ last' = time
    BY <1>1 DEF M!Received
  <2>2. lines' = Append(lines, l)
    BY DEF M!Line
  <2>3. l \in Line /\ l.kind = "thread"
    BY DEF Line
  <2>4. QED
    BY <2>1, <2>2, <2>3 DEF EventKind
<1> HIDE DEF l
<1>3. lines' \in Seq(Line)
  BY <1>1, <1>2, AppendProperties
<1>4. ASSUME NEW k \in EventKind
      PROVE  Rising(events[k]) /\ \A i \in 1 .. Len(events[k]) : events[k][i] <= last'
  <2>1. \A i \in 1 .. Len(events[k]) : events[k][i] \in Nat /\ events[k][i] <= last
    BY <1>1, ElementOfSeq DEF CountInv
  <2>2. QED
    BY <1>1, <1>2, <2>1 DEF CountInv
<1>5. ASSUME NEW k \in EventKind, NEW c \in Int, c >= now - Window[k]
      PROVE  Cardinality(Young(events[k], c)) = Cardinality(Since(lines', k, c))
  <2>1. Cardinality(Since(lines', k, c)) = Cardinality(Since(lines, k, c))
    <3>1. lines \in Seq(Line) /\ l \in Line /\ l.kind # "reset" /\ l.kind # k /\ lines' = Append(lines, l)
      BY <1>1, <1>2
    <3>2. Cardinality(Since(Append(lines, l), k, c)) =
            IF l.kind = k /\ l.time >= c THEN Cardinality(Since(lines, k, c)) + 1
            ELSE Cardinality(Since(lines, k, c))
      BY ONLY <3>1, c \in Int, SinceAppended
    <3>3. QED
      BY <3>1, <3>2
  <2>2. QED
    BY <1>5, <2>1 DEF CountInv
<1>6. QED
  BY <1>1, <1>2, <1>3, <1>4, <1>5 DEF CountInv

LEMMA CountReset ==
  ASSUME CountInv, M!Reset
  PROVE  CountInv'
<1> DEFINE l == [kind |-> "reset", time |-> now]
<1>1. now \in Nat /\ lines \in Seq(Line)
  BY DEF CountInv
<1>2. /\ last' = 0 /\ now' = now
      /\ events' = [k \in EventKind |-> <<>>]
      /\ lines' = Append(lines, l)
      /\ l \in Line /\ l.kind = "reset"
  <2>1. l \in Line /\ l.kind = "reset"
    BY <1>1 DEF Line
  <2>2. QED
    BY <1>1, <2>1, WindowAssumption DEF M!Reset, M!Line, M!Kinds
<1> HIDE DEF l
<1>3. lines' \in Seq(Line)
  BY <1>1, <1>2, AppendProperties
<1>4. ASSUME NEW k \in EventKind
      PROVE  /\ Rising(events'[k])
             /\ \A i \in 1 .. Len(events'[k]) : events'[k][i] <= last'
             /\ \A c \in Int : Cardinality(Young(events'[k], c)) = Cardinality(Since(lines', k, c))
  <2>1. events'[k] = <<>> /\ 1 .. Len(<<>>) = {}
    BY <1>2
  <2>2. \A c \in Int : Young(events'[k], c) = {}
    BY <2>1 DEF Young
  <2>3. \A c \in Int : Cardinality(Since(lines', k, c)) = 0
    BY <1>1, <1>2, SinceReset
  <2>4. QED
    BY <2>1, <2>2, <2>3, FS_EmptySet DEF Rising
<1>5. QED
  BY <1>1, <1>2, <1>3, <1>4 DEF CountInv

LEMMA CountShown ==
  ASSUME CountInv, M!Show
  PROVE  CountInv'
<1>1. /\ now \in Nat /\ last \in Nat
      /\ events \in [EventKind -> Seq(Nat)]
      /\ lines \in Seq(Line)
  BY DEF CountInv
<1>2. /\ now' = now /\ last' = last /\ lines' = lines
      /\ events' = [k \in EventKind |-> M!Pruned(events[k], now - Window[k])]
  BY WindowAssumption DEF M!Show, M!Kinds
<1>3. ASSUME NEW k \in EventKind
      PROVE  /\ events'[k] \in Seq(Nat)
             /\ Rising(events'[k])
             /\ \A i \in 1 .. Len(events'[k]) : events'[k][i] <= last
             /\ \A c \in Int : c >= now - Window[k] =>
                  Cardinality(Young(events'[k], c)) = Cardinality(Since(lines, k, c))
  <2>1. events'[k] = M!Pruned(events[k], now - Window[k])
    BY <1>2
  <2>2. events[k] \in Seq(Nat) /\ now - Window[k] \in Int
    BY <1>1, WindowAssumption
  <2>3. /\ Rising(events[k])
        /\ \A i \in 1 .. Len(events[k]) : events[k][i] <= last
        /\ \A c \in Int : c >= now - Window[k] =>
             Cardinality(Young(events[k], c)) = Cardinality(Since(lines, k, c))
    BY DEF CountInv
  <2>4. /\ events'[k] \in Seq(Nat) /\ Rising(events'[k])
        /\ \A i \in 1 .. Len(events'[k]) : \E j \in 1 .. Len(events[k]) : events'[k][i] = events[k][j]
        /\ \A c \in Int : c >= now - Window[k] =>
             Cardinality(Young(events'[k], c)) = Cardinality(Young(events[k], c))
    <3> DEFINE s == events[k]
               cut == now - Window[k]
               p == M!Pruned(s, cut)
    <3>1. s \in Seq(Nat) /\ cut \in Int /\ Rising(s)
      BY <2>2, <2>3
    <3> HIDE DEF s, cut
    <3>2. /\ p \in Seq(Nat) /\ Rising(p)
          /\ \A i \in 1 .. Len(p) : \E j \in 1 .. Len(s) : p[i] = s[j]
          /\ \A c \in Int : c >= cut => Cardinality(Young(p, c)) = Cardinality(Young(s, c))
      BY ONLY <3>1, PrunedCounts
    <3>3. events'[k] = p
      BY <2>1 DEF s, cut
    <3> HIDE DEF p
    <3>4. QED
      BY <3>2, <3>3 DEF s, cut
  <2>5. QED
    BY <2>3, <2>4
<1>4. events' \in [EventKind -> Seq(Nat)]
  BY <1>2, <1>3
<1>5. QED
  BY <1>1, <1>2, <1>3, <1>4 DEF CountInv

LEMMA CountTick ==
  ASSUME CountInv, M!Tick
  PROVE  CountInv'
<1>1. now \in Nat /\ now' = now + 1 /\ UNCHANGED <<last, events, lines>>
  BY DEF CountInv, M!Tick
<1>2. ASSUME NEW k \in EventKind, NEW c \in Int, c >= now' - Window[k]
      PROVE  Cardinality(Young(events[k], c)) = Cardinality(Since(lines, k, c))
  <2>1. c >= now - Window[k]
    BY <1>1, <1>2, WindowAssumption
  <2>2. QED
    BY <2>1 DEF CountInv
<1>3. QED
  BY <1>1, <1>2 DEF CountInv

\* What is shown is the number of lines.
LEMMA ShowCounts ==
  ASSUME CountInv, M!Show, NEW k \in EventKind
  PROVE  report'.counts[k] = Cardinality(Since(lines, k, now - Window[k]))
<1>1. events[k] \in Seq(Nat) /\ now - Window[k] \in Int /\ Rising(events[k])
  BY WindowAssumption DEF CountInv
<1>2. events'[k] = M!Pruned(events[k], now - Window[k])
  BY WindowAssumption DEF M!Show, M!Kinds
<1>3. report'.counts[k] = Len(events'[k])
  BY WindowAssumption DEF M!Show, M!Kinds
<1>4. Len(events'[k]) = Cardinality(Young(events[k], now - Window[k]))
  BY ONLY <1>1, <1>2, PrunedCounts
<1>5. now - Window[k] >= now - Window[k]
  BY <1>1
<1>6. QED
  BY <1>1, <1>3, <1>4, <1>5 DEF CountInv

MonitorInv == IaInv /\ CountInv

\* A step of the statistics.
LEMMA MonitorNext ==
  ASSUME MonitorInv, M!Next
  PROVE  MonitorInv'
<1> USE DEF MonitorInv
<1>1. now \in Nat
  BY DEF CountInv
<1>2. ASSUME NEW time \in 0 .. now, NEW k \in M!Counted, M!Count(k, time)
      PROVE  MonitorInv'
  <2>1. k \in EventKind /\ time \in Nat
    BY <1>1, WindowAssumption DEF M!Counted, M!Kinds
  <2>2. IaInv'
    BY <1>2, IaSame DEF M!Count
  <2>3. CountInv'
    BY <1>2, <2>1, CountLine DEF M!Count
  <2>4. QED
    BY <2>2, <2>3
<1>3. ASSUME NEW time \in 0 .. now, NEW t \in Thread, M!ThreadStart(t, time) \/ M!ThreadEnd(t, time)
      PROVE  MonitorInv'
  <2>1. time \in Nat
    BY <1>1
  <2>2. IaInv'
    BY <1>3, IaSame DEF M!ThreadStart, M!ThreadEnd
  <2>3. CountInv'
    BY <1>3, <2>1, CountThread DEF M!ThreadStart, M!ThreadEnd
  <2>4. QED
    BY <2>2, <2>3
<1>4. ASSUME NEW time \in 0 .. now, M!RtpStart(time)
      PROVE  MonitorInv'
  <2>1. time \in Nat /\ "rtp_start" \in EventKind
    BY <1>1 DEF EventKind
  <2>2. IaInv'
    BY <1>4, IaAnswered DEF M!RtpStart
  <2>3. CountInv'
    BY <1>4, <2>1, CountLine DEF M!RtpStart
  <2>4. QED
    BY <2>2, <2>3
<1>5. ASSUME NEW time \in 0 .. now, NEW c \in Chan, M!FileOpen(c, time)
      PROVE  MonitorInv'
  <2>1. time \in Nat /\ "file_open" \in EventKind
    BY <1>1 DEF EventKind
  <2>2. IaInv'
    BY <1>5, IaAnswered DEF M!FileOpen
  <2>3. CountInv'
    BY <1>5, <2>1, CountLine DEF M!FileOpen
  <2>4. QED
    BY <2>2, <2>3
<1>6. ASSUME NEW time \in 0 .. now, NEW c \in Chan, NEW k \in {"rtp_bye", "file_close"},
             M!SessionEnd(k, c, time)
      PROVE  MonitorInv'
  <2>1. time \in Nat /\ k \in EventKind
    BY <1>1 DEF EventKind
  <2>2. IaInv'
    BY <1>6, IaSame DEF M!SessionEnd
  <2>3. CountInv'
    BY <1>6, <2>1, CountLine DEF M!SessionEnd
  <2>4. QED
    BY <2>2, <2>3
<1>7. ASSUME NEW time \in 0 .. now, NEW e \in Ext, M!IaSignal(e, time)
      PROVE  MonitorInv'
  <2>1. time \in Nat /\ "smdr" \in EventKind
    BY <1>1 DEF EventKind
  <2>2. IaInv'
    BY <1>7, <2>1, IaSeen
  <2>3. CountInv'
    BY <1>7, <2>1, CountLine DEF M!IaSignal
  <2>4. QED
    BY <2>2, <2>3
<1>8. CASE M!Show
  BY <1>8, IaPruned, CountShown
<1>9. CASE M!Reset
  BY <1>9, IaReset, CountReset
<1>10. CASE M!Tick
  BY <1>10, IaSame, CountTick DEF M!Tick
<1>11. QED
  BY <1>2, <1>3, <1>4, <1>5, <1>6, <1>7, <1>8, <1>9, <1>10 DEF M!Next

LEMMA MonitorStarts ==
  ASSUME KeptInit
  PROVE  MonitorInv
BY IaStarts, CountStarts DEF KeptInit, MonitorInv

LEMMA MonitorKept ==
  ASSUME MonitorInv, [KeptNext]_keptVars
  PROVE  MonitorInv'
<1>1. CASE UNCHANGED monitorVars
  BY <1>1, IaSame, CountSame DEF MonitorInv, monitorVars
<1>2. CASE M!Next
  BY <1>2, MonitorNext
<1>3. QED
  BY <1>1, <1>2 DEF KeptNext, keptVars

\* Every signal of a call waits, was answered, expired or was replaced by a later
\* one of its extension, whatever the lines and whenever a reader prunes.
THEOREM SignalsAccounted == KeptSpec => []IaAccounted
<1>1. MonitorInv => IaAccounted
  BY DEF MonitorInv, IaInv
<1>2. QED
  BY <1>1, MonitorStarts, MonitorKept, PTL DEF KeptSpec

\* What a reader is shown is the number of lines of each kind in its window since
\* the last reset, whoever pruned the events before.
THEOREM CountsShown == KeptSpec => CountsAreOfWindow
<1>1. MonitorInv /\ [KeptNext]_keptVars =>
        [M!Show => \A k \in M!Kinds :
           report'.counts[k] =
             M!Cardinality({i \in DOMAIN lines :
                              /\ lines[i].kind = k
                              /\ lines[i].time >= now - Window[k]
                              /\ \A j \in i .. Len(lines) : lines[j].kind # "reset"})]_(M!vars)
  <2>1. ASSUME MonitorInv, M!Show, NEW k \in M!Kinds
        PROVE  report'.counts[k] =
                 M!Cardinality({i \in DOMAIN lines :
                                  /\ lines[i].kind = k
                                  /\ lines[i].time >= now - Window[k]
                                  /\ \A j \in i .. Len(lines) : lines[j].kind # "reset"})
    <3>1. k \in EventKind
      BY WindowAssumption DEF M!Kinds
    <3>2. report'.counts[k] = Cardinality(Since(lines, k, now - Window[k]))
      BY <2>1, <3>1, ShowCounts DEF MonitorInv
    <3>3. QED
      BY <3>2, SameCount DEF Since
  <2>2. QED
    BY <2>1
<1>2. QED
  BY <1>1, MonitorStarts, MonitorKept, PTL DEF KeptSpec, CountsAreOfWindow, M!CountsAreOfWindow

-----------------------------------------------------------------------------
(* The transfer of a day's files.                                          *)

Entry == [file : File, version : Nat]
Hist == [type : {"hist"}, file : File, version : Nat]
TransferTask == [at : {"begun", "sent", "waiting", "woken", "sending"}, day : Day,
                 listed : SUBSET Entry, todo : SUBSET Entry]

\* What AckedIsStored says of an entry of the list, of a store.
Covered(store, e) ==
  \/ \E f \in TooLarge : f.name = e.file.name
  \/ /\ e.file.name \in DOMAIN store
     /\ store[e.file.name][2] >= e.version \/ store[e.file.name][1] # e.file

\* Every file of the list is under its name in the map, or another of that name is.
Mapped(listed) ==
  /\ \A e \in listed : e.file.name \in DOMAIN pending
  /\ \A n \in DOMAIN pending : pending[n] \in File /\ pending[n].name = n

\* The files on their way are no older than the list, and with those to come and
\* those stored they are all of it.
OnTheWay(hists, listed, todo, store) ==
  /\ hists \in Seq(Hist)
  /\ \A i \in 1 .. Len(hists) : \A e \in listed :
       hists[i].file = e.file => hists[i].version >= e.version
  /\ \A e \in listed :
       \/ e \in todo
       \/ Covered(store, e)
       \/ \E i \in 1 .. Len(hists) : hists[i].file.name = e.file.name

\* What is not selected is stored.
Selected(s, listed, store) == s \subseteq listed /\ \A e \in listed \ s : Covered(store, e)

Begun(task) == task.at = "begun" /\ up = <<>> /\ down = <<>>
Offered(task) ==
  /\ \/ task.at = "sent" /\ \A e \in task.listed : e.file \in H!FilesOf(task.day)
     \/ task.at = "waiting" /\ Mapped(task.listed)
  /\ \/ up = <<[type |-> "list", entries |-> task.listed]>> /\ down = <<>>
     \/ /\ up = <<>>
        /\ \E s \in SUBSET task.listed :
             down = <<[type |-> "select", selected |-> s]>> /\ Selected(s, task.listed, stored)
Woken(task) ==
  /\ task.at = "woken" /\ up = <<>> /\ down = <<>>
  /\ Mapped(task.listed) /\ Selected(selection, task.listed, stored)
Sending(task) ==
  /\ task.at = "sending" /\ down = <<>>
  /\ Mapped(task.listed)
  /\ task.todo \subseteq task.listed
  /\ OnTheWay(up, task.listed, task.todo, stored)

\* One task.
Transferring ==
  \E id \in DOMAIN tasks :
    /\ DOMAIN tasks = {id}
    /\ tasks[id] \in TransferTask
    /\ \A e \in tasks[id].listed : e.version <= written[e.file]
    /\ Begun(tasks[id]) \/ Offered(tasks[id]) \/ Woken(tasks[id]) \/ Sending(tasks[id])

\* No task: before the first, a request, an empty list that is answered all the same,
\* or what the last task sent.
Asked == up = <<>> /\ \E q \in [type : {"request"}, day : Day, id : Int] : down = <<q>>
Dropped ==
  \/ up = <<[type |-> "list", entries |-> {}]>> /\ down = <<>>
  \/ up = <<>> /\ down = <<[type |-> "select", selected |-> {}]>>
Acking ==
  /\ down = <<>>
  /\ \E hists \in Seq(Hist), listed \in SUBSET Entry :
       /\ up = Append(hists, [type |-> "ack", listed |-> listed])
       /\ OnTheWay(hists, listed, {}, stored)

Resting == up = <<>> /\ down = <<>> /\ \A e \in acked : Covered(stored, e)

Phases ==
  \/ DOMAIN tasks = {} /\ Resting
  \/ DOMAIN tasks = {} /\ acked = {} /\ (Asked \/ Dropped \/ Acking)
  \/ Transferring /\ acked = {}

HistoryInv ==
  /\ written \in [File -> Nat]
  /\ requests \in Int
  /\ ~overlap => Phases

LEMMA OfOne ==
  ASSUME NEW x
  PROVE  <<x>> # <<>> /\ Head(<<x>>) = x /\ Tail(<<x>>) = <<>> /\ Append(<<>>, x) = <<x>>
OBVIOUS

\* The first of what is sent before another.
LEMMA HeadOfAppend ==
  ASSUME NEW S, NEW s \in Seq(S), s # <<>>, NEW x
  PROVE  /\ Append(s, x) # <<>> /\ Head(Append(s, x)) = s[1] /\ s[1] \in S
         /\ Tail(Append(s, x)) = Append(Tail(s), x)
         /\ Tail(s) \in Seq(S)
<1> DEFINE R == S \cup {x}
<1>1. s \in Seq(R) /\ x \in R
  BY SeqDef
<1>2. /\ Len(s) \in Nat /\ Len(s) # 0
      /\ Append(s, x) \in Seq(R) /\ Len(Append(s, x)) = Len(s) + 1
      /\ \A i \in 1 .. Len(s) : Append(s, x)[i] = s[i]
      /\ Append(s, x)[Len(s) + 1] = x
  BY <1>1, EmptySeq, LenProperties, AppendProperties
<1>3. Append(s, x) # <<>>
  BY <1>2
<1>4. /\ Tail(s) \in Seq(S) /\ Len(Tail(s)) = Len(s) - 1
      /\ \A i \in 1 .. Len(Tail(s)) : Tail(s)[i] = s[i + 1]
  BY HeadTailProperties
<1>5. Tail(s) \in Seq(R)
  BY <1>1, HeadTailProperties
<1>6. /\ Append(Tail(s), x) \in Seq(R) /\ Len(Append(Tail(s), x)) = Len(s)
      /\ \A i \in 1 .. Len(s) - 1 : Append(Tail(s), x)[i] = Tail(s)[i]
      /\ Append(Tail(s), x)[Len(s)] = x
  BY <1>1, <1>2, <1>4, <1>5, AppendProperties
<1>7. /\ Tail(Append(s, x)) \in Seq(R) /\ Len(Tail(Append(s, x))) = Len(s)
      /\ \A i \in 1 .. Len(s) : Tail(Append(s, x))[i] = Append(s, x)[i + 1]
      /\ Head(Append(s, x)) = Append(s, x)[1]
  BY <1>2, <1>3, HeadTailProperties
<1>8. ASSUME NEW i \in 1 .. Len(s)
      PROVE  Tail(Append(s, x))[i] = Append(Tail(s), x)[i]
  <2>1. CASE i = Len(s)
    BY <1>2, <1>6, <1>7, <2>1
  <2>2. CASE i # Len(s)
    <3>1. i \in 1 .. Len(s) - 1 /\ i + 1 \in 1 .. Len(s)
      BY <1>2, <2>2
    <3>2. QED
      BY <1>2, <1>4, <1>6, <1>7, <3>1
  <2>3. QED
    BY <2>1, <2>2
<1>9. Tail(Append(s, x)) = Append(Tail(s), x)
  BY <1>6, <1>7, <1>8, SeqEqual
<1>10. 1 \in 1 .. Len(s) /\ s[1] \in S
  BY <1>2, ElementOfSeq
<1>11. QED
  BY <1>2, <1>3, <1>4, <1>7, <1>9, <1>10

\* What a store becomes with one more file.
Stores(store, file, version, after) ==
  after = [n \in DOMAIN store \cup {file.name} |->
             IF n = file.name THEN <<file, version>> ELSE store[n]]

\* A file that is stored covers its name, and uncovers no other.
LEMMA StoredCovers ==
  ASSUME NEW listed \in SUBSET Entry, NEW store, NEW file, NEW version \in Nat, NEW after,
         Stores(store, file, version, after),
         \A e \in listed : e.file = file => version >= e.version,
         NEW e \in listed, Covered(store, e) \/ e.file.name = file.name
  PROVE  Covered(after, e)
<1> USE DEF Stores
<1>1. CASE e.file.name = file.name
  <2>1. CASE e.file = file
    BY <1>1, <2>1 DEF Covered
  <2>2. CASE e.file # file
    BY <1>1, <2>2 DEF Covered
  <2>3. QED
    BY <2>1, <2>2
<1>2. CASE e.file.name # file.name
  BY <1>2 DEF Covered
<1>3. QED
  BY <1>1, <1>2

\* The first file on its way is stored.
LEMMA FirstArrives ==
  ASSUME NEW hists, NEW listed \in SUBSET Entry, NEW todo, NEW store,
         OnTheWay(hists, listed, todo, store), hists # <<>>,
         NEW after, Stores(store, hists[1].file, hists[1].version, after)
  PROVE  OnTheWay(Tail(hists), listed, todo, after)
<1>1. hists \in Seq(Hist) /\ Len(hists) \in Nat /\ Len(hists) # 0
  BY EmptySeq, LenProperties DEF OnTheWay
<1>2. /\ Tail(hists) \in Seq(Hist) /\ Len(Tail(hists)) = Len(hists) - 1
      /\ \A i \in 1 .. Len(hists) - 1 : Tail(hists)[i] = hists[i + 1] /\ i + 1 \in 1 .. Len(hists)
  BY <1>1, HeadTailProperties
<1>3. 1 \in 1 .. Len(hists) /\ hists[1] \in Hist
  BY <1>1, ElementOfSeq
<1>4. hists[1].version \in Nat
  BY <1>3 DEF Hist
<1>5. \A e \in listed : hists[1].file = e.file => hists[1].version >= e.version
  BY <1>3 DEF OnTheWay
<1>6. ASSUME NEW e \in listed, Covered(store, e) \/ e.file.name = hists[1].file.name
      PROVE  Covered(after, e)
  BY <1>4, <1>5, <1>6, StoredCovers
<1>7. ASSUME NEW e \in listed
      PROVE  \/ e \in todo
             \/ Covered(after, e)
             \/ \E i \in 1 .. Len(hists) - 1 : Tail(hists)[i].file.name = e.file.name
  <2>1. CASE e \in todo \/ Covered(store, e)
    BY <1>6, <2>1
  <2>2. ASSUME NEW i \in 1 .. Len(hists), hists[i].file.name = e.file.name
        PROVE  \/ Covered(after, e)
               \/ \E j \in 1 .. Len(hists) - 1 : Tail(hists)[j].file.name = e.file.name
    <3>1. CASE i = 1
      BY <1>6, <2>2, <3>1
    <3>2. CASE i # 1
      <4>1. i - 1 \in 1 .. Len(hists) - 1 /\ i - 1 + 1 = i
        BY <1>1, <3>2
      <4>2. QED
        BY <1>2, <2>2, <4>1
    <3>3. QED
      BY <3>1, <3>2
  <2>3. QED
    BY <2>1, <2>2 DEF OnTheWay
<1>8. \A i \in 1 .. Len(hists) - 1 : \A e \in listed :
        Tail(hists)[i].file = e.file => Tail(hists)[i].version >= e.version
  BY <1>2 DEF OnTheWay
<1>9. QED
  BY <1>2, <1>7, <1>8 DEF OnTheWay

\* One more on its way.
LEMMA OneMoreSent ==
  ASSUME NEW hists, NEW listed \in SUBSET Entry, NEW todo, NEW store,
         OnTheWay(hists, listed, todo, store),
         NEW entry \in listed, NEW p \in Hist, p.file.name = entry.file.name,
         \A e \in listed : p.file = e.file => p.version >= e.version
  PROVE  OnTheWay(Append(hists, p), listed, todo \ {entry}, store)
<1>1. /\ hists \in Seq(Hist) /\ Len(hists) \in Nat
      /\ Append(hists, p) \in Seq(Hist) /\ Len(Append(hists, p)) = Len(hists) + 1
      /\ \A i \in 1 .. Len(hists) : Append(hists, p)[i] = hists[i] /\ i \in 1 .. Len(hists) + 1
      /\ Append(hists, p)[Len(hists) + 1] = p
      /\ Len(hists) + 1 \in 1 .. Len(hists) + 1
  BY LenProperties, AppendProperties DEF OnTheWay
<1>2. \A i \in 1 .. Len(hists) + 1 : i \in 1 .. Len(hists) \/ i = Len(hists) + 1
  BY <1>1
<1>3. \A i \in 1 .. Len(hists) + 1 : \A e \in listed :
        Append(hists, p)[i].file = e.file => Append(hists, p)[i].version >= e.version
  BY <1>1, <1>2 DEF OnTheWay
<1>4. ASSUME NEW e \in listed
      PROVE  \/ e \in todo \ {entry}
             \/ Covered(store, e)
             \/ \E i \in 1 .. Len(hists) + 1 : Append(hists, p)[i].file.name = e.file.name
  <2>1. CASE e = entry
    BY <1>1, <2>1
  <2>2. CASE e # entry
    BY <1>1, <2>2 DEF OnTheWay
  <2>3. QED
    BY <2>1, <2>2
<1>5. QED
  BY <1>1, <1>3, <1>4 DEF OnTheWay

\* Of the files of a name, one is in the last folder.
LEMMA LastIsOne ==
  ASSUME NEW files \in SUBSET File, files # {}
  PROVE  H!LastOf(files) \in files
<1> DEFINE below == {255 - f.folder : f \in files}
<1>1. \A f \in files : f.folder \in 0 .. 255
  BY FileAssumption
<1>2. below \in SUBSET Nat /\ below # {}
  BY <1>1
<1>3. PICK n \in below : \A m \in below : n <= m
  BY ONLY <1>2, LeastOf
<1>4. PICK f \in files : n = 255 - f.folder
  BY <1>3
<1>5. \A g \in files : g.folder <= f.folder
  <2>1. ASSUME NEW g \in files
        PROVE  g.folder <= f.folder
    <3>1. 255 - g.folder \in below
      OBVIOUS
    <3>2. 255 - f.folder <= 255 - g.folder
      BY <1>3, <1>4, <3>1
    <3>3. f.folder \in 0 .. 255 /\ g.folder \in 0 .. 255
      BY <1>1
    <3>4. f.folder \in Int /\ g.folder \in Int
      BY <3>3
    <3>5. QED
      BY ONLY <3>2, <3>4
  <2>2. QED
    BY <2>1
<1>6. QED
  BY <1>4, <1>5 DEF H!LastOf

LEMMA HistoryStarts ==
  ASSUME H!Init
  PROVE  HistoryInv
BY DEF H!Init, HistoryInv, Phases, Resting

LEMMA HistorySame ==
  ASSUME HistoryInv, UNCHANGED historyVars
  PROVE  HistoryInv'
BY DEF historyVars, HistoryInv, Phases, Resting, Asked, Dropped, Acking, Transferring, Begun, Offered,
       Woken, Sending, Mapped, H!FilesOf

\* Types, and what stays as it is once it is so.
LEMMA HistoryTypes ==
  ASSUME HistoryInv, H!Next
  PROVE  /\ written' \in [File -> Nat]
         /\ requests' \in Int
         /\ ~overlap' => ~overlap
<1>1. ASSUME NEW d \in Day, NEW c \in BOOLEAN, H!Request(d, c)
      PROVE  requests' = requests + 1 /\ UNCHANGED written /\ (~overlap' => ~overlap)
  BY <1>1 DEF H!Request
<1>2. CASE H!HandleList \/ H!HandleHist \/ H!HandleAck \/ H!Begin
  BY <1>2 DEF HistoryInv, H!HandleList, H!HandleHist, H!HandleAck, H!Begin
<1>3. CASE H!HandleSelect
  BY <1>3 DEF HistoryInv, H!HandleSelect
<1>4. ASSUME NEW id \in DOMAIN tasks,
             H!SendList(id) \/ H!Prepare(id) \/ H!Wake(id) \/ H!SelectTimeout(id) \/ H!SendAck(id)
      PROVE  UNCHANGED <<requests, written>> /\ (~overlap' => ~overlap)
  BY <1>4 DEF H!SendList, H!Prepare, H!Wake, H!SelectTimeout, H!SendAck
<1>5. ASSUME NEW id \in DOMAIN tasks, NEW e \in tasks[id].todo, H!SendFile(id, e)
      PROVE  UNCHANGED <<requests, written, overlap>>
  BY <1>5 DEF H!SendFile
<1>6. ASSUME NEW f \in File, H!Grow(f)
      PROVE  UNCHANGED <<requests, overlap>> /\ written' = [written EXCEPT ![f] = @ + 1]
  BY <1>6 DEF H!Grow
<1>7. CASE H!Lose
  BY <1>7 DEF HistoryInv, H!Lose
<1>8. QED
  BY <1>1, <1>2, <1>3, <1>4, <1>5, <1>6, <1>7 DEF H!Next, HistoryInv

LEMMA RequestAsks ==
  ASSUME HistoryInv, NEW d \in Day, NEW c \in BOOLEAN, H!Request(d, c), ~overlap'
  PROVE  Phases'
<1> DEFINE q == [type |-> "request", day |-> d, id |-> requests + 1]
<1>1. /\ DOMAIN tasks = {} /\ up = <<>> /\ down = <<>>
      /\ UNCHANGED <<tasks, up>> /\ acked' = {}
      /\ down' = Append(down, q)
  BY DEF H!Request
<1>2. q \in [type : {"request"}, day : Day, id : Int]
  BY DEF HistoryInv
<1> HIDE DEF q
<1>3. down' = <<q>>
  BY <1>1, OfOne
<1>4. QED
  BY <1>1, <1>2, <1>3 DEF Phases, Asked

\* The connection in every phase, by what the agent or the server finds at its head.
LEMMA ListArrives ==
  ASSUME Phases, up # <<>>, Head(up).type = "list"
  PROVE  /\ acked = {} /\ down = <<>>
         /\ \/ DOMAIN tasks = {} /\ up = <<[type |-> "list", entries |-> {}]>>
            \/ \E id \in DOMAIN tasks :
                 /\ DOMAIN tasks = {id}
                 /\ tasks[id] \in TransferTask
                 /\ \A e \in tasks[id].listed : e.version <= written[e.file]
                 /\ Offered(tasks[id])
                 /\ up = <<[type |-> "list", entries |-> tasks[id].listed]>>
<1>1. ASSUME NEW hists \in Seq(Hist), NEW listed \in SUBSET Entry,
             up = Append(hists, [type |-> "ack", listed |-> listed])
      PROVE  FALSE
  <2>1. CASE hists = <<>>
    <3>1. Head(up) = [type |-> "ack", listed |-> listed]
      BY <1>1, <2>1, OfOne
    <3>2. QED
      BY <3>1
  <2>2. CASE hists # <<>>
    <3>1. Head(up) \in Hist
      BY <1>1, <2>2, HeadOfAppend
    <3>2. QED
      BY <3>1 DEF Hist
  <2>3. QED
    BY <2>1, <2>2
<1>2. ASSUME NEW task, Sending(task)
      PROVE  FALSE
  <2>1. Head(up) \in Hist
    BY <1>2, EmptySeq, HeadTailProperties DEF Sending, OnTheWay
  <2>2. QED
    BY <2>1 DEF Hist
<1>3. CASE Transferring /\ acked = {}
  <2>1. PICK id \in DOMAIN tasks :
           /\ DOMAIN tasks = {id}
           /\ tasks[id] \in TransferTask
           /\ \A e \in tasks[id].listed : e.version <= written[e.file]
           /\ Begun(tasks[id]) \/ Offered(tasks[id]) \/ Woken(tasks[id]) \/ Sending(tasks[id])
    BY <1>3 DEF Transferring
  <2>2. Offered(tasks[id])
    BY <2>1, <1>2 DEF Begun, Woken
  <2>3. up = <<[type |-> "list", entries |-> tasks[id].listed]>> /\ down = <<>>
    BY <2>2 DEF Offered
  <2>4. QED
    BY <1>3, <2>1, <2>2, <2>3
<1>4. CASE DOMAIN tasks = {} /\ acked = {} /\ (Asked \/ Dropped \/ Acking)
  BY <1>1, <1>4 DEF Asked, Dropped, Acking
<1>5. QED
  BY <1>3, <1>4 DEF Phases, Resting

LEMMA ListSelects ==
  ASSUME HistoryInv, H!HandleList, ~overlap'
  PROVE  Phases'
<1> DEFINE missing == {e \in Head(up).entries : ~H!IsStored(e)}
           answer == [type |-> "select", selected |-> missing]
<1>1. /\ up # <<>> /\ Head(up).type = "list"
      /\ down' = Append(down, answer) /\ up' = Tail(up)
      /\ UNCHANGED <<written, tasks, event, selection, pending, stored, overlap, acked>>
  BY DEF H!HandleList
<1>2. Phases
  BY <1>1 DEF HistoryInv
<1>3. acked = {} /\ down = <<>> /\ down' = <<answer>>
  BY <1>1, <1>2, ListArrives, OfOne
<1>4. CASE DOMAIN tasks = {} /\ up = <<[type |-> "list", entries |-> {}]>>
  <2>1. up' = <<>> /\ missing = {}
    BY <1>1, <1>4, OfOne
  <2>2. QED
    BY <1>1, <1>3, <1>4, <2>1 DEF Phases, Dropped
<1>5. ASSUME NEW id \in DOMAIN tasks,
             DOMAIN tasks = {id}, tasks[id] \in TransferTask,
             \A e \in tasks[id].listed : e.version <= written[e.file],
             Offered(tasks[id]),
             up = <<[type |-> "list", entries |-> tasks[id].listed]>>
      PROVE  Phases'
  <2>1. up' = <<>> /\ missing = {e \in tasks[id].listed : ~H!IsStored(e)}
    BY <1>1, <1>5, OfOne
  <2>2. tasks[id].listed \in SUBSET Entry
    BY <1>5 DEF TransferTask
  <2>3. Selected(missing, tasks[id].listed, stored)
    <3>1. ASSUME NEW e \in tasks[id].listed, H!IsStored(e)
          PROVE  Covered(stored, e)
      <4>1. e.version \in Nat
        BY <2>2 DEF Entry
      <4>2. QED
        BY <3>1, <4>1 DEF Covered, H!IsStored
    <3>2. QED
      BY <2>1, <3>1 DEF Selected
  <2>4. missing \in SUBSET tasks[id].listed
    BY <2>1
  <2> HIDE DEF missing
  <2>5. Offered(tasks[id])'
    BY <1>1, <1>3, <1>5, <2>1, <2>3, <2>4 DEF Offered, Mapped
  <2>6. Transferring'
    BY <1>1, <1>5, <2>5 DEF Transferring
  <2>7. QED
    BY <1>1, <1>3, <2>6 DEF Phases
<1>6. QED
  BY <1>1, <1>2, <1>4, <1>5, ListArrives

LEMMA HistArrives ==
  ASSUME HistoryInv, H!HandleHist, ~overlap'
  PROVE  Phases'
<1>1. /\ up # <<>> /\ Head(up).type = "hist"
      /\ stored' = H!With(Head(up).file, Head(up).version)
      /\ up' = Tail(up)
      /\ UNCHANGED <<written, tasks, event, selection, pending, down, overlap, acked>>
  BY DEF H!HandleHist
<1>2. Stores(stored, Head(up).file, Head(up).version, stored')
  BY <1>1 DEF Stores, H!With
<1>3. Phases
  BY <1>1 DEF HistoryInv
<1>4. CASE Transferring /\ acked = {}
  <2>1. PICK id \in DOMAIN tasks :
           /\ DOMAIN tasks = {id}
           /\ tasks[id] \in TransferTask
           /\ \A e \in tasks[id].listed : e.version <= written[e.file]
           /\ Begun(tasks[id]) \/ Offered(tasks[id]) \/ Woken(tasks[id]) \/ Sending(tasks[id])
    BY <1>4 DEF Transferring
  <2>2. Sending(tasks[id])
    BY <1>1, <2>1, OfOne DEF Begun, Woken, Offered
  <2>3. OnTheWay(up, tasks[id].listed, tasks[id].todo, stored)
    BY <2>2 DEF Sending
  <2>4. Head(up) = up[1] /\ tasks[id].listed \in SUBSET Entry
    BY <1>1, <2>1, <2>3, HeadTailProperties DEF OnTheWay, TransferTask
  <2>5. OnTheWay(up', tasks[id].listed, tasks[id].todo, stored')
    BY <1>1, <1>2, <2>3, <2>4, FirstArrives
  <2>6. Sending(tasks[id])'
    BY <1>1, <2>2, <2>5 DEF Sending, Mapped
  <2>7. Transferring'
    BY <1>1, <2>1, <2>6 DEF Transferring
  <2>8. QED
    BY <1>1, <1>4, <2>7 DEF Phases
<1>5. CASE DOMAIN tasks = {} /\ acked = {} /\ Acking
  <2>1. PICK hists \in Seq(Hist), listed \in SUBSET Entry :
           /\ up = Append(hists, [type |-> "ack", listed |-> listed])
           /\ OnTheWay(hists, listed, {}, stored)
    BY <1>5 DEF Acking
  <2>2. hists # <<>>
    <3>1. ASSUME hists = <<>>
          PROVE  FALSE
      <4>1. Head(up) = [type |-> "ack", listed |-> listed]
        BY <2>1, <3>1, OfOne
      <4>2. QED
        BY <1>1, <4>1
    <3>2. QED
      BY <3>1
  <2>3. /\ Head(up) = hists[1]
        /\ up' = Append(Tail(hists), [type |-> "ack", listed |-> listed])
        /\ Tail(hists) \in Seq(Hist)
    BY <1>1, <2>1, <2>2, HeadOfAppend
  <2>4. OnTheWay(Tail(hists), listed, {}, stored')
    BY <1>2, <2>1, <2>2, <2>3, FirstArrives
  <2>5. Acking'
    BY <1>1, <1>5, <2>3, <2>4 DEF Acking
  <2>6. QED
    BY <1>1, <1>5, <2>5 DEF Phases
<1>6. CASE DOMAIN tasks = {} /\ acked = {} /\ (Asked \/ Dropped)
  BY <1>1, <1>6, OfOne DEF Asked, Dropped
<1>7. QED
  BY <1>1, <1>3, <1>4, <1>5, <1>6 DEF Phases, Resting

LEMMA AckArrives ==
  ASSUME HistoryInv, H!HandleAck, ~overlap'
  PROVE  Phases'
<1>1. /\ up # <<>> /\ Head(up).type = "ack"
      /\ up' = Tail(up) /\ acked' = Head(up).listed
      /\ UNCHANGED <<tasks, down, stored, overlap>>
  BY DEF H!HandleAck
<1>2. Phases
  BY <1>1 DEF HistoryInv
<1>3. ~(Transferring /\ acked = {})
  <2>1. ASSUME NEW task, Begun(task) \/ Woken(task) \/ Offered(task)
        PROVE  FALSE
    BY <1>1, <2>1, OfOne DEF Begun, Woken, Offered
  <2>2. ASSUME NEW task, Sending(task)
        PROVE  FALSE
    <3>1. Head(up) \in Hist
      BY <1>1, <2>2, EmptySeq, HeadTailProperties DEF Sending, OnTheWay
    <3>2. QED
      BY <1>1, <3>1 DEF Hist
  <2>3. QED
    BY <2>1, <2>2 DEF Transferring
<1>4. DOMAIN tasks = {} /\ acked = {} /\ Acking
  BY <1>1, <1>2, <1>3, OfOne DEF Phases, Resting, Asked, Dropped
<1>5. PICK hists \in Seq(Hist), listed \in SUBSET Entry :
         /\ up = Append(hists, [type |-> "ack", listed |-> listed])
         /\ OnTheWay(hists, listed, {}, stored)
  BY <1>4 DEF Acking
<1>6. hists = <<>>
  <2>1. ASSUME hists # <<>>
        PROVE  FALSE
    <3>1. Head(up) \in Hist
      BY <1>5, <2>1, HeadOfAppend
    <3>2. QED
      BY <1>1, <3>1 DEF Hist
  <2>2. QED
    BY <2>1
<1>7. up' = <<>> /\ acked' = listed
  BY <1>1, <1>5, <1>6, OfOne
<1>8. \A e \in listed : Covered(stored, e)
  BY <1>5, <1>6 DEF OnTheWay
<1>9. QED
  BY <1>1, <1>4, <1>7, <1>8 DEF Acking, Phases, Resting

LEMMA TaskBegins ==
  ASSUME HistoryInv, H!Begin, ~overlap'
  PROVE  Phases'
<1>1. /\ down # <<>> /\ Head(down).type = "request"
      /\ tasks' = H!Task(Head(down).id, [at |-> "begun", day |-> Head(down).day, listed |-> {},
                                         todo |-> {}])
      /\ down' = Tail(down)
      /\ UNCHANGED <<written, pending, up, stored, overlap, acked>>
  BY DEF H!Begin
<1>2. Phases
  BY <1>1 DEF HistoryInv
<1>3. ~Transferring
  <2>1. ASSUME NEW task, Offered(task)
        PROVE  FALSE
    BY <1>1, <2>1, OfOne DEF Offered
  <2>2. QED
    BY <1>1, <2>1 DEF Transferring, Begun, Woken, Sending
<1>4. DOMAIN tasks = {} /\ acked = {} /\ Asked
  BY <1>1, <1>2, <1>3, OfOne DEF Phases, Resting, Dropped, Acking
<1>5. PICK q \in [type : {"request"}, day : Day, id : Int] : down = <<q>>
  BY <1>4 DEF Asked
<1>6. down' = <<>> /\ Head(down) = q
  BY <1>1, <1>5, OfOne
<1> DEFINE task == [at |-> "begun", day |-> q.day, listed |-> {}, todo |-> {}]
<1>7. task \in TransferTask /\ task.at = "begun" /\ task.listed = {}
  BY <1>5 DEF TransferTask
<1> HIDE DEF task
<1>8. tasks' = [i \in {q.id} |-> task]
  BY <1>1, <1>4, <1>6 DEF H!Task, task
<1>9. DOMAIN tasks' = {q.id} /\ tasks'[q.id] = task
  BY <1>8
<1>10. Begun(tasks[q.id])'
  BY <1>1, <1>4, <1>6, <1>7, <1>9 DEF Begun, Asked
<1>11. Transferring'
  BY <1>7, <1>9, <1>10 DEF Transferring
<1>12. QED
  BY <1>1, <1>4, <1>11 DEF Phases

\* A task of one that goes on.
LEMMA OneTask ==
  ASSUME NEW id \in DOMAIN tasks, DOMAIN tasks = {id}, NEW task, tasks' = H!Task(id, task)
  PROVE  DOMAIN tasks' = {id} /\ tasks'[id] = task
BY DEF H!Task

LEMMA OneDone ==
  ASSUME NEW id \in DOMAIN tasks, DOMAIN tasks = {id}, tasks' = H!Without(id)
  PROVE  DOMAIN tasks' = {}
BY DEF H!Without

\* The phase of a task that takes a step.
LEMMA TaskAlone ==
  ASSUME Phases, NEW id \in DOMAIN tasks
  PROVE  /\ acked = {}
         /\ DOMAIN tasks = {id}
         /\ tasks[id] \in TransferTask
         /\ \A e \in tasks[id].listed : e.version <= written[e.file]
         /\ Begun(tasks[id]) \/ Offered(tasks[id]) \/ Woken(tasks[id]) \/ Sending(tasks[id])
<1>1. Transferring /\ acked = {}
  BY DEF Phases
<1>2. PICK other \in DOMAIN tasks :
         /\ DOMAIN tasks = {other}
         /\ tasks[other] \in TransferTask
         /\ \A e \in tasks[other].listed : e.version <= written[e.file]
         /\ Begun(tasks[other]) \/ Offered(tasks[other]) \/ Woken(tasks[other]) \/ Sending(tasks[other])
  BY <1>1 DEF Transferring
<1>3. other = id
  BY <1>2
<1>4. QED
  BY <1>1, <1>2, <1>3

LEMMA SelectionArrives ==
  ASSUME HistoryInv, H!HandleSelect, ~overlap'
  PROVE  Phases'
<1>1. /\ down # <<>> /\ Head(down).type = "select"
      /\ selection' = Head(down).selected
      /\ tasks' = [i \in DOMAIN tasks |->
                     IF tasks[i].at = "waiting" THEN [tasks[i] EXCEPT !.at = "woken"] ELSE tasks[i]]
      /\ down' = Tail(down)
      /\ ~overlap /\ {i \in DOMAIN tasks : tasks[i].at = "waiting"} # {}
      /\ UNCHANGED <<written, pending, up, stored, acked>>
  BY DEF H!HandleSelect
<1>2. Phases
  BY <1>1 DEF HistoryInv
<1>3. PICK id \in DOMAIN tasks : tasks[id].at = "waiting"
  BY <1>1
<1>4. /\ acked = {}
      /\ DOMAIN tasks = {id}
      /\ tasks[id] \in TransferTask
      /\ \A e \in tasks[id].listed : e.version <= written[e.file]
      /\ Begun(tasks[id]) \/ Offered(tasks[id]) \/ Woken(tasks[id]) \/ Sending(tasks[id])
  BY <1>2, TaskAlone
<1>5. Offered(tasks[id])
  BY <1>3, <1>4 DEF Begun, Woken, Sending
<1>6. PICK s \in SUBSET tasks[id].listed :
         /\ down = <<[type |-> "select", selected |-> s]>>
         /\ Selected(s, tasks[id].listed, stored)
         /\ up = <<>>
  BY <1>1, <1>5 DEF Offered
<1>7. Head(down) = [type |-> "select", selected |-> s] /\ Tail(down) = <<>>
  BY <1>6, OfOne
<1>8. selection' = s /\ down' = <<>>
  BY <1>1, <1>7
<1>9. DOMAIN tasks' = {id} /\ tasks'[id] = [tasks[id] EXCEPT !.at = "woken"]
  BY <1>1, <1>3, <1>4
<1>10. /\ tasks'[id] \in TransferTask /\ tasks'[id].at = "woken"
       /\ tasks'[id].listed = tasks[id].listed
  BY <1>4, <1>9 DEF TransferTask
<1>11. Woken(tasks[id])'
  BY <1>1, <1>3, <1>5, <1>6, <1>8, <1>10 DEF Offered, Woken, Mapped
<1>12. Transferring'
  BY <1>1, <1>4, <1>9, <1>10, <1>11 DEF Transferring
<1>13. QED
  BY <1>1, <1>4, <1>12 DEF Phases

LEMMA ListIsSent ==
  ASSUME HistoryInv, NEW id \in DOMAIN tasks, H!SendList(id), ~overlap'
  PROVE  Phases'
<1> DEFINE files == H!FilesOf(tasks[id].day)
           entries == {[file |-> f, version |-> written[f]] : f \in files}
<1>1. /\ tasks[id].at = "begun"
      /\ up' = Append(up, [type |-> "list", entries |-> entries])
      /\ tasks' = IF files = {} THEN H!Without(id)
                  ELSE H!Task(id, [tasks[id] EXCEPT !.at = "sent", !.listed = entries])
      /\ UNCHANGED <<written, pending, down, stored, overlap, acked>>
  BY DEF H!SendList
<1>2. /\ acked = {}
      /\ DOMAIN tasks = {id}
      /\ tasks[id] \in TransferTask
      /\ Begun(tasks[id]) \/ Offered(tasks[id]) \/ Woken(tasks[id]) \/ Sending(tasks[id])
  BY <1>1, TaskAlone DEF HistoryInv
<1>3. up = <<>> /\ down = <<>>
  BY <1>1, <1>2 DEF Begun, Offered, Woken, Sending
<1>4. up' = <<[type |-> "list", entries |-> entries]>> /\ down' = <<>>
  BY <1>1, <1>3, OfOne
<1>5. CASE files = {}
  <2>1. entries = {} /\ DOMAIN tasks' = {}
    BY <1>1, <1>2, <1>5, OneDone
  <2>2. QED
    BY <1>1, <1>2, <1>4, <2>1 DEF Phases, Dropped
<1>6. CASE files # {}
  <2> DEFINE task == [tasks[id] EXCEPT !.at = "sent", !.listed = entries]
  <2>1. files \subseteq File
    BY DEF H!FilesOf
  <2>2. entries \in SUBSET Entry
    BY <2>1 DEF Entry, HistoryInv
  <2>3. \A e \in entries : e.version <= written[e.file] /\ e.file \in files
    BY <2>1 DEF HistoryInv
  <2> HIDE DEF entries, files
  <2>4. /\ task \in TransferTask /\ task.at = "sent" /\ task.listed = entries
        /\ task.day = tasks[id].day
    BY <1>2, <2>2 DEF TransferTask
  <2>5. tasks' = H!Task(id, task)
    BY <1>1, <1>6
  <2> HIDE DEF task
  <2>6. DOMAIN tasks' = {id} /\ tasks'[id] = task
    BY <1>2, <2>5, OneTask
  <2>7. \A e \in task.listed : e.file \in H!FilesOf(task.day)
    BY <2>3, <2>4 DEF files
  <2>8. Offered(tasks[id])'
    BY <1>4, <2>4, <2>6, <2>7 DEF Offered, H!FilesOf
  <2>9. Transferring'
    BY <1>1, <2>3, <2>4, <2>6, <2>8 DEF Transferring
  <2>10. QED
    BY <1>1, <1>2, <2>9 DEF Phases
<1>7. QED
  BY <1>5, <1>6

LEMMA MapIsMade ==
  ASSUME HistoryInv, NEW id \in DOMAIN tasks, H!Prepare(id), ~overlap'
  PROVE  Phases'
<1> DEFINE files == H!FilesOf(tasks[id].day)
           task == [tasks[id] EXCEPT !.at = "waiting"]
<1>1. /\ tasks[id].at = "sent"
      /\ pending' = [n \in {f.name : f \in files} |-> H!LastOf({f \in files : f.name = n})]
      /\ tasks' = H!Task(id, task)
      /\ UNCHANGED <<written, up, down, stored, overlap, acked>>
  BY DEF H!Prepare
<1>2. /\ acked = {}
      /\ DOMAIN tasks = {id}
      /\ tasks[id] \in TransferTask
      /\ \A e \in tasks[id].listed : e.version <= written[e.file]
      /\ Begun(tasks[id]) \/ Offered(tasks[id]) \/ Woken(tasks[id]) \/ Sending(tasks[id])
  BY <1>1, TaskAlone DEF HistoryInv
<1>3. Offered(tasks[id])
  BY <1>1, <1>2 DEF Begun, Woken, Sending
<1>4. task \in TransferTask /\ task.at = "waiting" /\ task.listed = tasks[id].listed
  BY <1>2 DEF TransferTask
<1> HIDE DEF task
<1>5. DOMAIN tasks' = {id} /\ tasks'[id] = task
  BY <1>1, <1>2, OneTask
<1>6. \A e \in tasks[id].listed : e.file \in files
  BY <1>1, <1>3 DEF Offered
<1>7. files \subseteq File
  BY DEF H!FilesOf
<1> HIDE DEF files
<1>8. DOMAIN pending' = {f.name : f \in files}
  BY <1>1
<1>9. ASSUME NEW n \in DOMAIN pending'
      PROVE  pending'[n] \in File /\ pending'[n].name = n
  <2> DEFINE named == {f \in files : f.name = n}
  <2>1. pending'[n] = H!LastOf(named)
    BY <1>1, <1>8
  <2>2. named # {} /\ named \in SUBSET File
    BY <1>7, <1>8
  <2>3. H!LastOf(named) \in named
    BY <2>2, LastIsOne
  <2>4. QED
    BY <1>7, <2>1, <2>3
<1>10. Mapped(tasks[id].listed)'
  BY <1>4, <1>5, <1>6, <1>8, <1>9 DEF Mapped
<1>11. Offered(tasks[id])'
  BY <1>1, <1>3, <1>4, <1>5, <1>10 DEF Offered
<1>12. Transferring'
  BY <1>1, <1>2, <1>4, <1>5, <1>11 DEF Transferring
<1>13. QED
  BY <1>1, <1>2, <1>12 DEF Phases

LEMMA TaskWakes ==
  ASSUME HistoryInv, NEW id \in DOMAIN tasks, H!Wake(id), ~overlap'
  PROVE  Phases'
<1> DEFINE task == [tasks[id] EXCEPT !.at = "sending", !.todo = selection]
<1>1. /\ tasks[id].at = "woken"
      /\ tasks' = H!Task(id, task)
      /\ UNCHANGED <<written, pending, up, down, stored, overlap, acked>>
  BY DEF H!Wake
<1>2. /\ acked = {}
      /\ DOMAIN tasks = {id}
      /\ tasks[id] \in TransferTask
      /\ \A e \in tasks[id].listed : e.version <= written[e.file]
      /\ Begun(tasks[id]) \/ Offered(tasks[id]) \/ Woken(tasks[id]) \/ Sending(tasks[id])
  BY <1>1, TaskAlone DEF HistoryInv
<1>3. Woken(tasks[id])
  BY <1>1, <1>2 DEF Begun, Offered, Sending
<1>4. tasks[id].listed \in SUBSET Entry /\ selection \subseteq tasks[id].listed
  BY <1>2, <1>3 DEF TransferTask, Woken, Selected
<1>5. /\ task \in TransferTask /\ task.at = "sending" /\ task.listed = tasks[id].listed
      /\ task.todo = selection
  BY <1>2, <1>4 DEF TransferTask
<1> HIDE DEF task
<1>6. DOMAIN tasks' = {id} /\ tasks'[id] = task
  BY <1>1, <1>2, OneTask
<1>7. OnTheWay(<<>>, tasks[id].listed, selection, stored)
  BY <1>3 DEF Woken, Selected, OnTheWay
<1>8. Sending(tasks[id])'
  BY <1>1, <1>3, <1>4, <1>5, <1>6, <1>7 DEF Woken, Sending, Mapped
<1>9. Transferring'
  BY <1>1, <1>2, <1>5, <1>6, <1>8 DEF Transferring
<1>10. QED
  BY <1>1, <1>2, <1>9 DEF Phases

\* A file that is selected is sent, or cannot be.
LEMMA FileIsSent ==
  ASSUME HistoryInv, NEW id \in DOMAIN tasks, NEW entry \in tasks[id].todo, H!SendFile(id, entry),
         ~overlap'
  PROVE  Phases'
<1> DEFINE name == entry.file.name
           sends == name \in DOMAIN pending /\ pending[name] \notin TooLarge
           p == [type |-> "hist", file |-> pending[name], version |-> written[pending[name]]]
           task == [tasks[id] EXCEPT !.todo = tasks[id].todo \ {entry}]
<1>1. /\ tasks[id].at = "sending"
      /\ tasks' = H!Task(id, task)
      /\ up' = IF sends THEN Append(up, p) ELSE up
      /\ UNCHANGED <<written, pending, down, stored, overlap, acked>>
  BY DEF H!SendFile
<1>2. /\ acked = {}
      /\ DOMAIN tasks = {id}
      /\ tasks[id] \in TransferTask
      /\ \A e \in tasks[id].listed : e.version <= written[e.file]
      /\ Begun(tasks[id]) \/ Offered(tasks[id]) \/ Woken(tasks[id]) \/ Sending(tasks[id])
  BY <1>1, TaskAlone DEF HistoryInv
<1>3. Sending(tasks[id])
  BY <1>1, <1>2 DEF Begun, Offered, Woken
<1>4. tasks[id].listed \in SUBSET Entry /\ tasks[id].todo \subseteq tasks[id].listed
  BY <1>2, <1>3 DEF TransferTask, Sending
<1>5. /\ task \in TransferTask /\ task.at = "sending" /\ task.listed = tasks[id].listed
      /\ task.todo = tasks[id].todo \ {entry}
  <2> DEFINE rest == tasks[id].todo \ {entry}
  <2>1. rest \in SUBSET Entry /\ task = [tasks[id] EXCEPT !.todo = rest]
    BY <1>4
  <2>2. rest = tasks[id].todo \ {entry}
    OBVIOUS
  <2> HIDE DEF rest, task
  <2>3. task \in TransferTask /\ task.at = "sending" /\ task.listed = tasks[id].listed /\ task.todo = rest
    BY <1>1, <1>2, <2>1 DEF TransferTask
  <2>4. QED
    BY <2>2, <2>3
<1> HIDE DEF task
<1>6. DOMAIN tasks' = {id} /\ tasks'[id] = task
  BY <1>1, <1>2, OneTask
<1>7. entry \in tasks[id].listed /\ name \in DOMAIN pending
  BY <1>3, <1>4 DEF Sending, Mapped
<1>8. pending[name] \in File /\ pending[name].name = name
  BY <1>3, <1>7 DEF Sending, Mapped
<1>9. OnTheWay(up, tasks[id].listed, tasks[id].todo, stored)
  BY <1>3 DEF Sending
<1>10. OnTheWay(up', tasks[id].listed, tasks[id].todo \ {entry}, stored)
  <2>1. CASE sends
    <3>1. p \in Hist /\ p.file = pending[name] /\ p.version = written[pending[name]]
      BY <1>8 DEF Hist, HistoryInv
    <3> HIDE DEF p
    <3>2. p.file.name = entry.file.name
      BY <1>8, <3>1
    <3>3. \A e \in tasks[id].listed : p.file = e.file => p.version >= e.version
      <4>1. ASSUME NEW e \in tasks[id].listed, p.file = e.file
            PROVE  p.version >= e.version
        <5>1. e.version <= written[e.file] /\ p.version = written[e.file]
          BY <1>2, <3>1, <4>1
        <5>2. e.version \in Nat /\ written[e.file] \in Nat
          BY <1>4 DEF Entry, HistoryInv
        <5>3. QED
          BY <5>1, <5>2
      <4>2. QED
        BY <4>1
    <3>4. OnTheWay(Append(up, p), tasks[id].listed, tasks[id].todo \ {entry}, stored)
      BY <1>4, <1>7, <1>9, <3>1, <3>2, <3>3, OneMoreSent
    <3>5. QED
      BY <1>1, <2>1, <3>4
  <2>2. CASE ~sends
    <3>1. pending[name] \in TooLarge /\ up' = up
      BY <1>1, <1>7, <2>2
    <3>2. Covered(stored, entry)
      BY <1>8, <3>1 DEF Covered
    <3>3. QED
      BY <1>9, <3>1, <3>2 DEF OnTheWay
  <2>3. QED
    BY <2>1, <2>2
<1>11. Sending(tasks[id])'
  <2>1. task.todo \subseteq task.listed
    BY <1>4, <1>5
  <2>2. QED
    BY <1>1, <1>3, <1>5, <1>6, <1>10, <2>1 DEF Sending, Mapped
<1>12. Transferring'
  BY <1>1, <1>2, <1>5, <1>6, <1>11 DEF Transferring
<1>13. QED
  BY <1>1, <1>2, <1>12 DEF Phases

LEMMA AckIsSent ==
  ASSUME HistoryInv, NEW id \in DOMAIN tasks, H!SendAck(id), ~overlap'
  PROVE  Phases'
<1>1. /\ tasks[id].at = "sending" /\ tasks[id].todo = {}
      /\ up' = Append(up, [type |-> "ack", listed |-> tasks[id].listed])
      /\ tasks' = H!Without(id)
      /\ UNCHANGED <<down, stored, overlap, acked>>
  BY DEF H!SendAck
<1>2. /\ acked = {}
      /\ DOMAIN tasks = {id}
      /\ tasks[id] \in TransferTask
      /\ Begun(tasks[id]) \/ Offered(tasks[id]) \/ Woken(tasks[id]) \/ Sending(tasks[id])
  BY <1>1, TaskAlone DEF HistoryInv
<1>3. Sending(tasks[id])
  BY <1>1, <1>2 DEF Begun, Offered, Woken
<1>4. tasks[id].listed \in SUBSET Entry
  BY <1>2 DEF TransferTask
<1>5. /\ up \in Seq(Hist) /\ down = <<>>
      /\ OnTheWay(up, tasks[id].listed, {}, stored)
  BY <1>1, <1>3 DEF Sending, OnTheWay
<1>6. DOMAIN tasks' = {}
  BY <1>1, <1>2, OneDone
<1>7. Acking'
  BY <1>1, <1>4, <1>5 DEF Acking
<1>8. QED
  BY <1>1, <1>2, <1>6, <1>7 DEF Phases

\* A file that grows is no older than it was.
LEMMA FileGrows ==
  ASSUME HistoryInv, NEW f \in File, H!Grow(f), ~overlap'
  PROVE  Phases'
<1>1. /\ written' = [written EXCEPT ![f] = @ + 1]
      /\ UNCHANGED <<tasks, selection, pending, up, down, stored, overlap, acked>>
  BY DEF H!Grow
<1>2. Phases
  BY <1>1 DEF HistoryInv
<1>3. \A g \in File : written[g] \in Nat /\ written[g] <= written'[g] /\ written'[g] \in Nat
  BY <1>1 DEF HistoryInv
<1>4. CASE Transferring /\ acked = {}
  <2>1. PICK id \in DOMAIN tasks :
           /\ DOMAIN tasks = {id}
           /\ tasks[id] \in TransferTask
           /\ \A e \in tasks[id].listed : e.version <= written[e.file]
           /\ Begun(tasks[id]) \/ Offered(tasks[id]) \/ Woken(tasks[id]) \/ Sending(tasks[id])
    BY <1>4 DEF Transferring
  <2>2. ASSUME NEW e \in tasks[id].listed
        PROVE  e.version <= written'[e.file]
    <3>1. e.version \in Nat /\ e.file \in File
      BY <2>1 DEF TransferTask, Entry
    <3>2. QED
      BY <1>3, <2>1, <3>1
  <2>3. (Begun(tasks[id]) \/ Offered(tasks[id]) \/ Woken(tasks[id]) \/ Sending(tasks[id]))'
    BY <1>1, <2>1 DEF Begun, Offered, Woken, Sending, Mapped, H!FilesOf
  <2>4. Transferring'
    BY <1>1, <2>1, <2>2, <2>3 DEF Transferring
  <2>5. QED
    BY <1>1, <1>4, <2>4 DEF Phases
<1>5. CASE ~(Transferring /\ acked = {})
  BY <1>1, <1>2, <1>5 DEF Phases, Resting, Asked, Dropped, Acking
<1>6. QED
  BY <1>4, <1>5

LEMMA HistoryNext ==
  ASSUME HistoryInv, H!Next
  PROVE  HistoryInv'
<1>1. ASSUME ~overlap'
      PROVE  Phases'
  <2>1. ASSUME NEW id \in DOMAIN tasks, H!SelectTimeout(id)
        PROVE  FALSE
    BY <1>1, <2>1 DEF H!SelectTimeout
  <2>2. CASE H!Lose
    BY <1>1, <2>2 DEF H!Lose
  <2>3. QED
    BY <1>1, <2>1, <2>2, RequestAsks, ListSelects, HistArrives, AckArrives, TaskBegins,
       SelectionArrives, ListIsSent, MapIsMade, TaskWakes, FileIsSent, AckIsSent, FileGrows
       DEF H!Next
<1>2. QED
  BY <1>1, HistoryTypes DEF HistoryInv

LEMMA HistoryKept ==
  ASSUME HistoryInv, [KeptNext]_keptVars
  PROVE  HistoryInv'
<1>1. CASE UNCHANGED historyVars
  BY <1>1, HistorySame
<1>2. CASE H!Next
  BY <1>2, HistoryNext
<1>3. QED
  BY <1>1, <1>2 DEF KeptNext, keptVars

\* While no two requests met at the agent, no selection came before its task waited and
\* none timed out, an acknowledged request leaves every file it listed on the server, at
\* least as new as listed, but for those that LOG_HIST cannot carry and those of whose
\* name another folder's file was sent.
THEOREM AckedAreStored == KeptSpec => []AckedIsStored
<1>1. HistoryInv => AckedIsStored
  BY DEF HistoryInv, Phases, Resting, Covered, AckedIsStored, H!AckedIsStored
<1>2. KeptInit => HistoryInv
  BY HistoryStarts DEF KeptInit
<1>3. QED
  BY <1>1, <1>2, HistoryKept, PTL DEF KeptSpec
=============================================================================
