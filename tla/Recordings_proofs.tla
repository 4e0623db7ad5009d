-------------------------- MODULE Recordings_proofs ---------------------------
(***************************************************************************)
(* Theorems about recordings, for any constants: the exclusion of          *)
(* RecordingOwnership, for any set of servers; and, each of its own        *)
(* specification, what the server's table says of a recording (RecTable),  *)
(* what it serves of one (RecStream), and what is made of one that was     *)
(* heard: a score (CallScore) and a text (Segments).  The last two are     *)
(* computed at once; their lemmas are about the operators, from sums and   *)
(* sorted, cut and joined sequences to the chunks of a long call.          *)
(***************************************************************************)
EXTENDS Ownership, RecStore, Hearing, FiniteSetTheorems, FunctionTheorems, NaturalsInduction,
        WellFoundedInduction, SequenceTheorems, TLAPS

(* What a connection carries stays a sequence of commands.                 *)
LEMMA ChannelType ==
  ASSUME TypeOK, NEW s \in Server, NEW cmd, ReadCommand(s, cmd)
  PROVE  /\ channel' \in [Server -> Seq(Commands)]
         /\ \A t \in Server : link'[t] # "up" => channel'[t] = <<>>
BY HeadTailProperties DEF ReadCommand, TypeOK

(* Every step keeps the types.                                             *)
LEMMA TypeStep == TypeOK /\ [Next]_vars => TypeOK'
<1> SUFFICES ASSUME TypeOK, [Next]_vars
             PROVE  TypeOK'
  OBVIOUS
<1>1. ASSUME NEW s \in Server, Connect(s)
      PROVE  TypeOK'
  BY <1>1 DEF Connect, TypeOK
<1>2. ASSUME NEW s \in Server, Command(s)
      PROVE  TypeOK'
  <2>1. PICK cmd \in Commands : channel' = [channel EXCEPT ![s] = Append(@, cmd)]
    BY <1>2 DEF Command
  <2>2. Append(channel[s], cmd) \in Seq(Commands)
    BY AppendProperties DEF TypeOK
  <2> QED
    BY <1>2, <2>1, <2>2 DEF Command, TypeOK
<1>3. ASSUME NEW s \in Server, Read(s)
      PROVE  TypeOK'
  <2>1. CASE HandleStart(s)
    BY <2>1, ChannelType DEF HandleStart, ReadCommand, TypeOK
  <2>2. CASE HandleStop(s)
    BY <2>2, ChannelType DEF HandleStop, Stopping, ReadCommand, TypeOK
  <2> QED
    BY <1>3, <2>1, <2>2 DEF Read
<1>4. ASSUME NEW s \in Server, WatcherStopped(s)
      PROVE  TypeOK'
  BY <1>4 DEF WatcherStopped, TypeOK
<1>5. ASSUME NEW s \in Server, ReceiveLoopEnds(s)
      PROVE  TypeOK'
  BY <1>5, EmptySeq DEF ReceiveLoopEnds, Emptied, TypeOK
<1>6. ASSUME NEW s \in Server, HeartbeatFails(s)
      PROVE  TypeOK'
  BY <1>6, EmptySeq DEF HeartbeatFails, Emptied, Stopping, TypeOK
<1>7. ASSUME NEW s \in Server, Release(s)
      PROVE  TypeOK'
  BY <1>7 DEF Release, Released, TypeOK
<1>8. CASE UNCHANGED vars
  BY <1>8 DEF vars, TypeOK
<1> QED
  BY <1>1, <1>2, <1>3, <1>4, <1>5, <1>6, <1>7, <1>8 DEF Next

(* A watcher is started by the owner only, and released only when off.     *)
LEMMA WatcherStep ==
  TypeOK /\ WatcherIsOwners /\ [Next]_vars => WatcherIsOwners'
<1> SUFFICES ASSUME TypeOK, WatcherIsOwners, [Next]_vars
             PROVE  WatcherIsOwners'
  OBVIOUS
<1>none. \A s \in Server : None # s
  BY OwnershipAssumption
<1>1. ASSUME NEW s \in Server, HandleStart(s)
      PROVE  WatcherIsOwners'
  <2>1. CASE Acquires(s)
    <3>1. owner' = s /\ watcher' = [watcher EXCEPT ![s] = "running"]
      BY <1>1, <2>1 DEF HandleStart
    <3>2. \A t \in Server : t # s => watcher[t] = "off"
      BY <1>none, <2>1 DEF Acquires, WatcherIsOwners, TypeOK
    <3> QED
      BY <3>1, <3>2 DEF WatcherIsOwners, TypeOK
  <2>2. CASE ~Acquires(s)
    BY <1>1, <2>2 DEF HandleStart, WatcherIsOwners
  <2> QED
    BY <2>1, <2>2
<1>2. ASSUME NEW s \in Server, HandleStop(s) \/ HeartbeatFails(s)
      PROVE  WatcherIsOwners'
  BY <1>2 DEF HandleStop, HeartbeatFails, Stopping, WatcherIsOwners, TypeOK
<1>3. ASSUME NEW s \in Server, WatcherStopped(s)
      PROVE  WatcherIsOwners'
  BY <1>3 DEF WatcherStopped, WatcherIsOwners, TypeOK
<1>4. ASSUME NEW s \in Server, Release(s)
      PROVE  WatcherIsOwners'
  BY <1>4 DEF Release, ReadyToRelease, Released, WatcherIsOwners
<1>5. ASSUME NEW s \in Server, Connect(s) \/ Command(s) \/ ReceiveLoopEnds(s)
      PROVE  WatcherIsOwners'
  BY <1>5 DEF Connect, Command, ReceiveLoopEnds, WatcherIsOwners
<1>6. CASE UNCHANGED vars
  BY <1>6 DEF vars, WatcherIsOwners
<1> QED
  BY <1>1, <1>2, <1>3, <1>4, <1>5, <1>6 DEF Next, Read

(* Nobody owns, nothing runs at the start.                                 *)
LEMMA OwnershipInit == Init => TypeOK /\ WatcherIsOwners
BY EmptySeq DEF Init, TypeOK, WatcherIsOwners

(* The variables keep their types: an owner is a server or nobody, a       *)
(* command under way is of its own server (RecordingOwnership).            *)
THEOREM OwnershipTypes == Spec => []TypeOK
<1> QED
  BY OwnershipInit, TypeStep, PTL DEF Spec

(* A watcher runs for the owner of the recordings only, so no two servers  *)
(* have the same recording analyzed, however many servers there are.       *)
THEOREM WatchersExclude == Spec => []WatcherIsOwners
<1> QED
  BY OwnershipInit, TypeStep, WatcherStep, PTL DEF Spec

(* The owner leaves only by the release after its own connection's loss.   *)
THEOREM OwnerKept == Spec => NeverTakenOver
<1>1. ASSUME [Next]_vars, NEW s \in Server, owner = s, owner' # s
      PROVE  owner' = None /\ link[s] = "lost"
  <2>1. None # s
    BY OwnershipAssumption
  <2>2. ASSUME NEW t \in Server, HandleStart(t)
        PROVE  owner' = s
    BY <1>1, <2>1, <2>2 DEF HandleStart, Acquires
  <2>3. ASSUME NEW t \in Server, Release(t)
        PROVE  owner' = None /\ link[s] = "lost"
    BY <1>1, <2>3 DEF Release, Released
  <2> QED
    BY <1>1, <2>2, <2>3
    DEF Next, Read, Connect, Command, HandleStop, WatcherStopped,
        ReceiveLoopEnds, HeartbeatFails, vars
<1>2. [Next]_vars =>
        [\A s \in Server :
           owner = s /\ owner' # s => owner' = None /\ link[s] = "lost"]_vars
  BY <1>1
<1> QED
  BY <1>2, PTL DEF Spec, NeverTakenOver

-----------------------------------------------------------------------------
\* A sequence without one of its places.
Without(s, i) == SubSeq(s, 1, i - 1) \o SubSeq(s, i + 1, Len(s))

LEMMA RemovedPlaces ==
  ASSUME NEW S, NEW s \in Seq(S), NEW i \in 1 .. Len(s)
  PROVE  /\ Without(s, i) \in Seq(S) /\ Len(Without(s, i)) = Len(s) - 1
         /\ \A j \in 1 .. Len(s) - 1 :
              Without(s, i)[j] = IF j < i THEN s[j] ELSE s[j + 1]
<1> DEFINE f == SubSeq(s, 1, i - 1)
           b == SubSeq(s, i + 1, Len(s))
<1>1. Len(s) \in Nat /\ \A j \in 1 .. Len(s) : s[j] \in S
  BY LenProperties, ElementOfSeq
<1>2. f \in Seq(S) /\ Len(f) = i - 1 /\ \A j \in 1 .. i - 1 : f[j] = s[j]
  BY <1>1, SubSeqProperties
<1>3. b \in Seq(S) /\ Len(b) = Len(s) - i /\ \A j \in 1 .. Len(s) - i : b[j] = s[i + j]
  <2>1. i + 1 \in Int /\ Len(s) \in Int /\ \A j \in i + 1 .. Len(s) : s[j] \in S
    BY <1>1
  <2>2. /\ b \in Seq(S) /\ Len(b) = IF i + 1 <= Len(s) THEN Len(s) - (i + 1) + 1 ELSE 0
        /\ \A j \in 1 .. Len(s) - (i + 1) + 1 : b[j] = s[i + 1 + j - 1]
    BY <2>1, SubSeqProperties
  <2>3. QED
    BY <1>1, <2>2
<1>4. Without(s, i) = f \o b
  BY DEF Without
<1> HIDE DEF f, b
<1>5. /\ f \o b \in Seq(S) /\ Len(f \o b) = Len(f) + Len(b)
      /\ \A j \in 1 .. Len(f) + Len(b) :
           (f \o b)[j] = IF j <= Len(f) THEN f[j] ELSE b[j - Len(f)]
  BY <1>2, <1>3, ConcatProperties
<1>6. ASSUME NEW j \in 1 .. Len(s) - 1
      PROVE  (f \o b)[j] = IF j < i THEN s[j] ELSE s[j + 1]
  <2>1. CASE j < i
    BY <1>1, <1>2, <1>3, <1>5, <2>1
  <2>2. CASE j >= i
    <3>1. j - (i - 1) \in 1 .. Len(s) - i /\ i + (j - (i - 1)) = j + 1
      BY <1>1, <2>2
    <3>2. QED
      BY <1>1, <1>2, <1>3, <1>5, <2>2, <3>1
  <2>3. j < i \/ j >= i
    BY <1>1
  <2>4. QED
    BY <2>1, <2>2, <2>3
<1>7. QED
  BY <1>1, <1>2, <1>3, <1>4, <1>5, <1>6


(***************************************************************************)
(* The table of recordings.  It has the last of the recordings that had a  *)
(* result, in their order: all of them, or more than half its length.      *)
(***************************************************************************)

Rows == [agent : Agent, file : File, inOut : InOut, uploaded : BOOLEAN]
Keys == [agent : Agent, file : File]
Taken == [at : {"quality", "text", "scored", "sent"}, agent : Agent, file : File, quality : BOOLEAN,
         inOut : InOut \cup {0}, recent : BOOLEAN]

SameKey(r, s) == r.agent = s.agent /\ r.file = s.file

\* A table t has the last of the keys k.
LastOf(t, k) ==
  /\ Len(t) <= Len(k)
  /\ \A i \in 1 .. Len(t) : SameKey(t[i], k[Len(k) - Len(t) + i])

\* A recording is there once.
Once(k) == \A i, j \in 1 .. Len(k) : SameKey(k[i], k[j]) => i = j

TableInv ==
  /\ records \in Seq(Rows) /\ results \in Seq(Keys)
  /\ job = R!NoJob \/ job \in Taken
  /\ DirectionKnown
  /\ Once(results) /\ LastOf(records, results)
  /\ Len(records) <= MaxRecords
  /\ Len(records) = Len(results) \/ Len(records) > MaxRecords \div 2


LEMMA HalfOf ==
  ASSUME NEW n \in Nat
  PROVE  n \div 2 \in Nat /\ 2 * (n \div 2) <= n /\ n <= 2 * (n \div 2) + 1
OBVIOUS

\* A recording of a sequence, if it is there, is taken out of it.
LEMMA OthersAre ==
  ASSUME NEW S, NEW s \in Seq(S), NEW a, NEW f
  PROVE  \/ /\ \A i \in 1 .. Len(s) : ~(s[i].agent = a /\ s[i].file = f)
            /\ R!Others(s, a, f) = s
         \/ \E i \in 1 .. Len(s) : /\ s[i].agent = a /\ s[i].file = f
                                  /\ R!Others(s, a, f) = Without(s, i)
<1> DEFINE places == {i \in DOMAIN s : s[i].agent = a /\ s[i].file = f}
           i == CHOOSE i \in places : TRUE
<1>1. DOMAIN s = 1 .. Len(s)
  BY LenProperties
<1>2. R!Others(s, a, f) = IF places = {} THEN s ELSE Without(s, i)
  BY DEF R!Others, R!RemoveAt, Without
<1>3. places # {} => i \in places
  OBVIOUS
<1> HIDE DEF i
<1>4. QED
  BY <1>1, <1>2, <1>3

\* What is left of it, with a new last.
LEMMA AppendedPlaces ==
  ASSUME NEW S, NEW s \in Seq(S), NEW x \in S
  PROVE  /\ Append(s, x) \in Seq(S) /\ Len(Append(s, x)) = Len(s) + 1 /\ Len(s) \in Nat
         /\ \A i \in 1 .. Len(s) : Append(s, x)[i] = s[i]
         /\ Append(s, x)[Len(s) + 1] = x
BY AppendProperties, LenProperties

\* The keys with a new last one.
LEMMA OnceAgain ==
  ASSUME NEW k \in Seq(Keys), Once(k), NEW new \in Keys
  PROVE  LET k2 == Append(R!Others(k, new.agent, new.file), new)
         IN k2 \in Seq(Keys) /\ Once(k2)
<1> DEFINE k1 == R!Others(k, new.agent, new.file)
           k2 == Append(k1, new)
<1>1. k1 \in Seq(Keys) /\ Once(k1) /\ \A i \in 1 .. Len(k1) : ~SameKey(k1[i], new)
  <2>1. CASE k1 = k /\ \A i \in 1 .. Len(k) : ~(k[i].agent = new.agent /\ k[i].file = new.file)
    BY <2>1 DEF SameKey
  <2>2. ASSUME NEW q \in 1 .. Len(k), k[q].agent = new.agent, k[q].file = new.file, k1 = Without(k, q)
        PROVE  k1 \in Seq(Keys) /\ Once(k1) /\ \A i \in 1 .. Len(k1) : ~SameKey(k1[i], new)
    <3> HIDE DEF k1
    <3>1. /\ k1 \in Seq(Keys) /\ Len(k1) = Len(k) - 1 /\ Len(k) \in Nat
          /\ \A j \in 1 .. Len(k) - 1 : k1[j] = IF j < q THEN k[j] ELSE k[j + 1]
      <4>1. Len(k) \in Nat
        BY LenProperties
      <4>2. /\ Without(k, q) \in Seq(Keys) /\ Len(Without(k, q)) = Len(k) - 1
            /\ \A j \in 1 .. Len(k) - 1 : Without(k, q)[j] = IF j < q THEN k[j] ELSE k[j + 1]
        BY RemovedPlaces
      <4>3. QED
        BY <2>2, <4>1, <4>2
    <3>2. ASSUME NEW i \in 1 .. Len(k) - 1, NEW j \in 1 .. Len(k) - 1, SameKey(k1[i], k1[j]) PROVE i = j
      <4> DEFINE m == IF i < q THEN i ELSE i + 1
                 n == IF j < q THEN j ELSE j + 1
      <4>1. m \in 1 .. Len(k) /\ n \in 1 .. Len(k) /\ (m = n => i = j)
        BY <3>1
      <4>2. k1[i] = k[m] /\ k1[j] = k[n]
        BY <3>1
      <4> HIDE DEF m, n
      <4>3. QED
        BY <3>2, <4>1, <4>2 DEF Once
    <3>3. ASSUME NEW i \in 1 .. Len(k) - 1, SameKey(k1[i], new) PROVE FALSE
      <4> DEFINE m == IF i < q THEN i ELSE i + 1
      <4>1. m \in 1 .. Len(k) /\ m # q
        BY <3>1
      <4>2. k1[i] = k[m]
        BY <3>1
      <4> HIDE DEF m
      <4>3. QED
        BY <2>2, <3>3, <4>1, <4>2 DEF Once, SameKey
    <3>4. QED
      BY <3>1, <3>2, <3>3 DEF Once
  <2> HIDE DEF k1
  <2>3. QED
    BY <2>1, <2>2, OthersAre DEF k1
<1> HIDE DEF k1
<1>2. /\ k2 \in Seq(Keys) /\ Len(k2) = Len(k1) + 1 /\ Len(k1) \in Nat
      /\ \A i \in 1 .. Len(k1) : k2[i] = k1[i]
      /\ k2[Len(k1) + 1] = new
  BY <1>1, AppendedPlaces
<1> HIDE DEF k2
<1>3. ASSUME NEW i \in 1 .. Len(k1) + 1, NEW j \in 1 .. Len(k1) + 1, SameKey(k2[i], k2[j]) PROVE i = j
  <2>1. CASE i \in 1 .. Len(k1) /\ j \in 1 .. Len(k1)
    BY <1>1, <1>2, <1>3, <2>1 DEF Once
  <2>2. CASE i = Len(k1) + 1 /\ j \in 1 .. Len(k1)
    BY <1>1, <1>2, <1>3, <2>2 DEF SameKey
  <2>3. CASE i \in 1 .. Len(k1) /\ j = Len(k1) + 1
    BY <1>1, <1>2, <1>3, <2>3 DEF SameKey
  <2>4. CASE i = Len(k1) + 1 /\ j = Len(k1) + 1
    BY <2>4
  <2>5. QED
    BY <1>2, <2>1, <2>2, <2>3, <2>4
<1>4. QED
  BY <1>2, <1>3 DEF Once, k2, k1

\* The recording x is put last in s.
PutLast(s, x, s2) == s2 = Append(R!Others(s, x.agent, x.file), x)

\* A table that has the last of the keys still has them when a recording is put last in both.
LEMMA StoredLast ==
  ASSUME NEW t \in Seq(Rows), NEW k \in Seq(Keys), LastOf(t, k), Once(k),
         NEW row \in Rows, NEW new \in Keys, SameKey(row, new),
         NEW t2, PutLast(t, row, t2), NEW k2, PutLast(k, new, k2)
  PROVE  /\ t2 \in Seq(Rows) /\ LastOf(t2, k2) /\ Len(t2) >= Len(t) /\ Len(t2) <= Len(t) + 1
         /\ Len(t) = Len(k) => Len(t2) = Len(k2)
<1> DEFINE m == Len(t)
           n == Len(k)
           t1 == R!Others(t, new.agent, new.file)
           k1 == R!Others(k, new.agent, new.file)
<1>0. t2 = Append(t1, row) /\ k2 = Append(k1, new)
  BY DEF PutLast, SameKey
<1>1. /\ m \in Nat /\ n \in Nat /\ m <= n
      /\ \A i \in 1 .. m : SameKey(t[i], k[n - m + i])
  BY LenProperties DEF LastOf
<1>2. /\ \A i, j \in 1 .. n : SameKey(k[i], new) /\ SameKey(k[j], new) => i = j
      /\ \A i \in 1 .. m : SameKey(t[i], new) <=> SameKey(k[n - m + i], new)
      /\ \A i \in 1 .. m : n - m + i \in 1 .. n
  <2>1. \A i, j \in 1 .. n : SameKey(k[i], new) /\ SameKey(k[j], new) => SameKey(k[i], k[j])
    BY DEF SameKey
  <2>2. \A i, j \in 1 .. n : SameKey(k[i], k[j]) => i = j
    BY DEF Once
  <2>3. \A i \in 1 .. m : SameKey(t[i], new) <=> SameKey(k[n - m + i], new)
    <3> SUFFICES ASSUME NEW i \in 1 .. m PROVE SameKey(t[i], new) <=> SameKey(k[n - m + i], new)
      OBVIOUS
    <3>1. SameKey(t[i], k[n - m + i])
      BY <1>1
    <3>2. QED
      BY <3>1 DEF SameKey
  <2>4. \A i \in 1 .. m : n - m + i \in 1 .. n
    BY <1>1
  <2>5. QED
    BY <2>1, <2>2, <2>3, <2>4
<1>3. \/ t1 = t /\ \A i \in 1 .. m : ~SameKey(t[i], new)
      \/ \E p \in 1 .. m : SameKey(t[p], new) /\ t1 = Without(t, p)
  <2>1. \/ /\ \A i \in 1 .. Len(t) : ~(t[i].agent = new.agent /\ t[i].file = new.file)
           /\ R!Others(t, new.agent, new.file) = t
        \/ \E i \in 1 .. Len(t) : /\ t[i].agent = new.agent /\ t[i].file = new.file
                                 /\ R!Others(t, new.agent, new.file) = Without(t, i)
    BY ONLY t \in Seq(Rows), OthersAre
  <2>2. QED
    BY <2>1 DEF SameKey
<1>4. \/ k1 = k /\ \A i \in 1 .. n : ~SameKey(k[i], new)
      \/ \E q \in 1 .. n : SameKey(k[q], new) /\ k1 = Without(k, q)
  <2>1. \/ /\ \A i \in 1 .. Len(k) : ~(k[i].agent = new.agent /\ k[i].file = new.file)
           /\ R!Others(k, new.agent, new.file) = k
        \/ \E i \in 1 .. Len(k) : /\ k[i].agent = new.agent /\ k[i].file = new.file
                                 /\ R!Others(k, new.agent, new.file) = Without(k, i)
    BY ONLY k \in Seq(Keys), OthersAre
  <2>2. QED
    BY <2>1 DEF SameKey
<1>5. /\ t1 \in Seq(Rows) =>
           /\ t2 \in Seq(Rows) /\ Len(t2) = Len(t1) + 1 /\ \A i \in 1 .. Len(t1) : t2[i] = t1[i]
           /\ t2[Len(t1) + 1] = row
      /\ k1 \in Seq(Keys) =>
           /\ Len(k2) = Len(k1) + 1 /\ \A i \in 1 .. Len(k1) : k2[i] = k1[i]
           /\ k2[Len(k1) + 1] = new
  BY <1>0, AppendedPlaces
<1> HIDE DEF t1, k1, m, n
<1>6. CASE t1 = t /\ k1 = k
  <2>1. Len(t1) = m /\ Len(k1) = n /\ t1 \in Seq(Rows) /\ k1 \in Seq(Keys)
    BY <1>6 DEF m, n
  <2>2. ASSUME NEW i \in 1 .. m + 1 PROVE SameKey(t2[i], k2[n - m + i])
    <3>1. CASE i \in 1 .. m
      <4>1. t2[i] = t[i] /\ k2[n - m + i] = k[n - m + i]
        BY <1>2, <1>5, <1>6, <2>1, <3>1
      <4>2. QED
        BY <1>1, <3>1, <4>1
    <3>2. CASE i = m + 1
      <4>1. n - m + i = n + 1
        BY <1>1, <3>2
      <4>2. QED
        BY <1>5, <2>1, <3>2, <4>1
    <3>3. i \in 1 .. m \/ i = m + 1
      <4>1. m \in Nat
        BY <1>1
      <4>2. QED
        BY ONLY <4>1, i \in 1 .. m + 1
    <3>4. QED
      BY ONLY <3>1, <3>2, <3>3
  <2>3. Len(t2) = m + 1 /\ Len(k2) = n + 1 /\ (n + 1) - (m + 1) = n - m
    BY <1>1, <1>5, <2>1
  <2>4. LastOf(t2, k2)
    <3>1. Len(t2) <= Len(k2) /\ 1 .. Len(t2) = 1 .. m + 1 /\ Len(k2) - Len(t2) = n - m
      BY <1>1, <2>3
    <3>2. QED
      BY <2>2, <3>1 DEF LastOf
  <2>5. t2 \in Seq(Rows) /\ LastOf(t2, k2) /\ Len(t2) = m + 1 /\ Len(k2) = n + 1
    BY <1>5, <2>1, <2>3, <2>4
  <2>6. QED
    BY ONLY <1>1, <2>5 DEF m, n
<1>7. ASSUME t1 = t, \A i \in 1 .. m : ~SameKey(t[i], new),
             NEW q \in 1 .. n, SameKey(k[q], new), k1 = Without(k, q)
      PROVE  t2 \in Seq(Rows) /\ LastOf(t2, k2) /\ Len(t2) = m + 1 /\ m # n
  <2>1. q <= n - m
    <3>1. ASSUME q > n - m PROVE FALSE
      <4>1. q - (n - m) \in 1 .. m /\ n - m + (q - (n - m)) = q
        BY <1>1, <3>1
      <4>2. QED
        BY <1>2, <1>7, <4>1
    <3>2. QED
      BY <1>1, <3>1
  <2>2. /\ Len(t1) = m /\ t1 \in Seq(Rows) /\ k1 \in Seq(Keys) /\ Len(k1) = n - 1
        /\ \A j \in 1 .. n - 1 : k1[j] = IF j < q THEN k[j] ELSE k[j + 1]
    BY <1>7, RemovedPlaces DEF m, n
  <2>3. ASSUME NEW i \in 1 .. m + 1 PROVE SameKey(t2[i], k2[n - (m + 1) + i])
    <3>1. CASE i \in 1 .. m
      <4>1. /\ n - (m + 1) + i \in 1 .. n - 1 /\ ~(n - (m + 1) + i < q)
            /\ n - (m + 1) + i + 1 = n - m + i
        BY <1>1, <2>1, <3>1
      <4>2. k2[n - (m + 1) + i] = k[n - m + i]
        BY <1>5, <2>2, <4>1
      <4>3. t2[i] = t[i]
        BY <1>5, <1>7, <2>2, <3>1
      <4>4. QED
        BY <1>1, <3>1, <4>2, <4>3
    <3>2. CASE i = m + 1
      <4>1. n - (m + 1) + i = n - 1 + 1
        BY <1>1, <3>2
      <4>2. QED
        BY <1>5, <2>2, <3>2, <4>1
    <3>3. i \in 1 .. m \/ i = m + 1
      <4>1. m \in Nat
        BY <1>1
      <4>2. QED
        BY ONLY <4>1, i \in 1 .. m + 1
    <3>4. QED
      BY ONLY <3>1, <3>2, <3>3
  <2>4. Len(t2) = m + 1 /\ Len(k2) = n /\ m + 1 <= n
    BY <1>1, <1>5, <2>1, <2>2
  <2>5. LastOf(t2, k2)
    <3>1. Len(t2) <= Len(k2) /\ 1 .. Len(t2) = 1 .. m + 1 /\ Len(k2) - Len(t2) = n - (m + 1)
      BY <1>1, <2>4
    <3>2. QED
      BY <2>3, <3>1 DEF LastOf
  <2>6. t2 \in Seq(Rows) /\ m # n
    BY <1>1, <1>5, <2>2, <2>4
  <2>7. QED
    BY <2>4, <2>5, <2>6
<1>8. ASSUME NEW p \in 1 .. m, SameKey(t[p], new), t1 = Without(t, p),
             NEW q \in 1 .. n, SameKey(k[q], new), k1 = Without(k, q)
      PROVE  t2 \in Seq(Rows) /\ LastOf(t2, k2) /\ Len(t2) = m /\ Len(k2) = n
  <2>1. q = n - m + p
    BY <1>2, <1>8
  <2>2. /\ t1 \in Seq(Rows) /\ Len(t1) = m - 1
        /\ \A j \in 1 .. m - 1 : t1[j] = IF j < p THEN t[j] ELSE t[j + 1]
    BY <1>8, RemovedPlaces DEF m
  <2>3. /\ k1 \in Seq(Keys) /\ Len(k1) = n - 1
        /\ \A j \in 1 .. n - 1 : k1[j] = IF j < q THEN k[j] ELSE k[j + 1]
    BY <1>8, RemovedPlaces DEF n
  <2>4. Len(t2) = m /\ Len(k2) = n
    BY <1>1, <1>5, <2>2, <2>3
  <2>5. ASSUME NEW i \in 1 .. m PROVE SameKey(t2[i], k2[n - m + i])
    <3>1. CASE i < p
      <4>1. /\ i \in 1 .. m - 1 /\ n - m + i \in 1 .. n - 1 /\ n - m + i < q
        BY <1>1, <2>1, <3>1
      <4>2. t2[i] = t[i] /\ k2[n - m + i] = k[n - m + i]
        BY <1>5, <2>2, <2>3, <3>1, <4>1
      <4>3. QED
        BY <1>1, <4>2
    <3>2. CASE i >= p /\ i <= m - 1
      <4>1. /\ i \in 1 .. m - 1 /\ n - m + i \in 1 .. n - 1 /\ ~(n - m + i < q) /\ ~(i < p)
            /\ n - m + i + 1 = n - m + (i + 1) /\ i + 1 \in 1 .. m
        BY <1>1, <2>1, <3>2
      <4>2. t2[i] = t[i + 1] /\ k2[n - m + i] = k[n - m + (i + 1)]
        BY <1>5, <2>2, <2>3, <4>1
      <4>3. QED
        BY <1>1, <4>1, <4>2
    <3>3. CASE i = m
      <4>1. m = m - 1 + 1 /\ n - m + i = n - 1 + 1
        BY <1>1, <3>3
      <4>2. t2[i] = row /\ k2[n - m + i] = new
        BY <1>5, <2>2, <2>3, <3>3, <4>1
      <4>3. QED
        BY <4>2
    <3>4. i < p \/ (i >= p /\ i <= m - 1) \/ i = m
      BY ONLY <1>1, p \in 1 .. m, i \in 1 .. m
    <3>5. QED
      BY ONLY <3>1, <3>2, <3>3, <3>4
  <2>6. QED
    BY <1>1, <1>5, <2>2, <2>4, <2>5 DEF LastOf
<1>9. ASSUME NEW p \in 1 .. m, SameKey(t[p], new), \A i \in 1 .. n : ~SameKey(k[i], new) PROVE FALSE
  BY <1>2, <1>9
<1>10. QED
  BY <1>1, <1>3, <1>4, <1>6, <1>7, <1>8, <1>9 DEF m, n

\* A table that is too long is cut to its newer half, which is more than half of what it may
\* hold.
LEMMA PrunedLast ==
  ASSUME NEW t \in Seq(Rows), NEW k \in Seq(Keys), LastOf(t, k), Len(t) <= MaxRecords + 1,
         Len(t) = Len(k) \/ Len(t) > MaxRecords \div 2
  PROVE  LET p == R!Pruned(t)
         IN /\ p \in Seq(Rows) /\ LastOf(p, k) /\ Len(p) <= MaxRecords
            /\ Len(p) = Len(k) \/ Len(p) > MaxRecords \div 2
<1> DEFINE m == Len(t)
           n == Len(k)
           h == m \div 2
           p == SubSeq(t, h + 1, m)
<1>1. /\ m \in Nat /\ n \in Nat /\ m <= n /\ MaxRecords \in Nat \ {0}
      /\ \A i \in 1 .. m : SameKey(t[i], k[n - m + i]) /\ t[i] \in Rows
  BY LenProperties, ElementOfSeq, MaxAssumption DEF LastOf
<1>2. CASE m > MaxRecords
  <2>1. R!Pruned(t) = p
    BY <1>2 DEF R!Pruned
  <2>2. m = MaxRecords + 1
    BY <1>1, <1>2
  <2>3. h \in Nat /\ h + 1 <= m /\ m - h <= MaxRecords /\ m - h > MaxRecords \div 2
    <3>1. \A x \in Nat : (x + 1) \div 2 \in Nat /\ x + 1 - (x + 1) \div 2 > x \div 2
      OBVIOUS
    <3>2. \A x \in Nat \ {0} : (x + 1) \div 2 + 1 <= x + 1 /\ x + 1 - (x + 1) \div 2 <= x
      OBVIOUS
    <3>3. QED
      BY <1>1, <2>2, <3>1, <3>2
  <2> HIDE DEF h
  <2>4. p \in Seq(Rows) /\ Len(p) = m - h /\ \A j \in 1 .. m - h : p[j] = t[h + j]
    <3>1. h + 1 \in Int /\ m \in Int /\ \A j \in h + 1 .. m : t[j] \in Rows
      BY <1>1, <2>3
    <3>2. /\ p \in Seq(Rows) /\ Len(p) = IF h + 1 <= m THEN m - (h + 1) + 1 ELSE 0
          /\ \A j \in 1 .. m - (h + 1) + 1 : p[j] = t[h + 1 + j - 1]
      BY <3>1, SubSeqProperties
    <3>3. QED
      BY <1>1, <2>3, <3>2
  <2> HIDE DEF p
  <2>5. \A j \in 1 .. m - h : h + j \in 1 .. m /\ n - m + (h + j) = n - (m - h) + j
    BY <1>1, <2>3
  <2>6. LastOf(p, k)
    <3>1. Len(p) <= n
      BY <1>1, <2>3, <2>4
    <3>2. ASSUME NEW j \in 1 .. m - h PROVE SameKey(p[j], k[n - Len(p) + j])
      BY <1>1, <2>4, <2>5
    <3>3. QED
      BY <2>4, <3>1, <3>2 DEF LastOf
  <2>7. QED
    BY <2>1, <2>3, <2>4, <2>6
<1>3. CASE ~(m > MaxRecords)
  <2>1. R!Pruned(t) = t
    BY <1>3 DEF R!Pruned
  <2>2. QED
    BY <1>1, <1>3, <2>1
<1>4. QED
  BY <1>2, <1>3

-----------------------------------------------------------------------------
(* The steps of the table.                                                 *)

LEMMA ResultKept ==
  ASSUME TableInv, NEW a \in Agent, NEW f \in File, R!AnalysisResult(a, f)
  PROVE  TableInv'
<1>1. PICK d \in InOut :
        records' = R!Pruned(R!Stored([agent |-> a, file |-> f, inOut |-> d, uploaded |-> FALSE]))
  BY DEF R!AnalysisResult
<1> DEFINE row == [agent |-> a, file |-> f, inOut |-> d, uploaded |-> FALSE]
           new == [agent |-> a, file |-> f]
           t2 == Append(R!Others(records, a, f), row)
           k2 == Append(R!Others(results, a, f), new)
<1>2. row \in Rows /\ new \in Keys /\ SameKey(row, new) /\ new.agent = a /\ new.file = f
  BY DEF Rows, Keys, SameKey
<1>3. records' = R!Pruned(t2) /\ results' = k2 /\ job' = job
  BY <1>1 DEF R!AnalysisResult, R!Stored
<1>4. /\ records \in Seq(Rows) /\ results \in Seq(Keys) /\ Once(results)
      /\ LastOf(records, results) /\ Len(records) <= MaxRecords
      /\ Len(records) = Len(results) \/ Len(records) > MaxRecords \div 2
  BY DEF TableInv
<1>5. k2 \in Seq(Keys) /\ Once(k2)
  BY <1>2, <1>4, OnceAgain
<1>6. /\ t2 \in Seq(Rows) /\ LastOf(t2, k2) /\ Len(t2) >= Len(records)
      /\ Len(t2) <= Len(records) + 1
      /\ Len(records) = Len(results) => Len(t2) = Len(k2)
  <2> HIDE DEF row, new
  <2>1. PutLast(records, row, t2) /\ PutLast(results, new, k2)
    BY <1>2 DEF PutLast, SameKey
  <2> HIDE DEF t2, k2
  <2>2. /\ row \in Rows /\ new \in Keys /\ SameKey(row, new)
        /\ records \in Seq(Rows) /\ results \in Seq(Keys) /\ LastOf(records, results) /\ Once(results)
    BY <1>2, <1>4
  <2>3. QED
    BY ONLY <2>1, <2>2, StoredLast
<1> HIDE DEF t2, k2, row, new
<1>7. Len(t2) <= MaxRecords + 1 /\ (Len(t2) = Len(k2) \/ Len(t2) > MaxRecords \div 2)
  <2>1. Len(t2) \in Nat /\ Len(records) \in Nat /\ MaxRecords \in Nat /\ MaxRecords \div 2 \in Nat
    BY <1>4, <1>6, LenProperties, MaxAssumption, HalfOf
  <2>2. QED
    BY <1>4, <1>6, <2>1
<1>8. LET p == R!Pruned(t2)
      IN /\ p \in Seq(Rows) /\ LastOf(p, k2) /\ Len(p) <= MaxRecords
         /\ Len(p) = Len(k2) \/ Len(p) > MaxRecords \div 2
  BY <1>5, <1>6, <1>7, PrunedLast
<1>9. DirectionKnown' /\ (job = R!NoJob \/ job \in Taken)'
  BY <1>3 DEF TableInv, DirectionKnown, R!DirectionKnown, R!NoJob, Taken
<1>10. QED
  BY <1>3, <1>5, <1>8, <1>9 DEF TableInv

\* A recording whose result is recent has its record.
LEMMA RecentHasRecord ==
  ASSUME TableInv, NEW a, NEW f, NEW i \in DOMAIN results,
         results[i].agent = a, results[i].file = f,
         Len(results) - i <= MaxRecords \div 2
  PROVE  R!Record(a, f) # {}
<1> DEFINE m == Len(records)
           n == Len(results)
           j == i - (n - m)
<1>1. /\ records \in Seq(Rows) /\ results \in Seq(Keys) /\ LastOf(records, results)
      /\ m = n \/ m > MaxRecords \div 2
  BY DEF TableInv
<1>2. /\ m \in Nat /\ n \in Nat /\ DOMAIN records = 1 .. m /\ DOMAIN results = 1 .. n
      /\ MaxRecords \div 2 \in Nat
  BY <1>1, LenProperties, MaxAssumption, HalfOf
<1>3. m <= n /\ \A x \in 1 .. m : SameKey(records[x], results[n - m + x])
  BY <1>1 DEF LastOf
<1> HIDE DEF m, n
<1>4. j \in 1 .. m /\ n - m + j = i
  <2>1. n - i <= MaxRecords \div 2
    BY DEF n
  <2>2. QED
    BY <1>1, <1>2, <1>3, <2>1
<1> HIDE DEF j
<1>5. records[j].agent = a /\ records[j].file = f
  BY <1>3, <1>4 DEF SameKey
<1>6. records[j] \in R!ToSet(records)
  BY <1>2, <1>4 DEF R!ToSet
<1>7. QED
  BY <1>5, <1>6 DEF R!Record

LEMMA AckKept ==
  ASSUME TableInv, NEW a \in Agent, NEW f \in File, NEW ok \in BOOLEAN, R!UploadAck(a, f, ok)
  PROVE  TableInv'
<1>1. /\ records \in Seq(Rows) /\ results \in Seq(Keys) /\ Once(results)
      /\ LastOf(records, results) /\ Len(records) <= MaxRecords
      /\ Len(records) = Len(results) \/ Len(records) > MaxRecords \div 2
  BY DEF TableInv
<1>2. results' = results
  BY DEF R!UploadAck
<1>3. /\ records' \in Seq(Rows) /\ Len(records') = Len(records)
      /\ \A i \in 1 .. Len(records) : SameKey(records'[i], records[i])
  <2>1. CASE ok
    <3> DEFINE up(i) == records[i].uploaded \/ records[i] \in R!Record(a, f)
               renewed == [i \in DOMAIN records |-> [records[i] EXCEPT !.uploaded = up(i)]]
    <3>1. records' = renewed
      BY <2>1 DEF R!UploadAck
    <3>2. Len(records) \in Nat /\ DOMAIN records = 1 .. Len(records)
          /\ \A i \in 1 .. Len(records) : records[i] \in Rows
      BY <1>1, LenProperties, ElementOfSeq
    <3>3. ASSUME NEW i \in 1 .. Len(records)
          PROVE  /\ [records[i] EXCEPT !.uploaded = up(i)] \in Rows
                 /\ SameKey([records[i] EXCEPT !.uploaded = up(i)], records[i])
      <4>1. up(i) \in BOOLEAN
        BY <3>2 DEF Rows
      <4> HIDE DEF up
      <4>2. records[i] \in Rows
        BY <3>2
      <4>3. QED
        BY <4>1, <4>2 DEF Rows, SameKey
    <3> HIDE DEF up
    <3>4. renewed \in [1 .. Len(records) -> Rows]
      BY <3>2, <3>3
    <3>5. \A i \in 1 .. Len(records) : SameKey(renewed[i], records[i])
      BY <3>2, <3>3
    <3> HIDE DEF renewed
    <3>6. renewed \in Seq(Rows) /\ Len(renewed) = Len(records)
      BY <3>2, <3>4
    <3>7. QED
      BY <3>1, <3>5, <3>6
  <2>2. CASE ~ok
    <3>1. records' = records
      BY <2>2 DEF R!UploadAck
    <3>2. QED
      BY <1>1, <3>1 DEF SameKey
  <2>3. QED
    BY <2>1, <2>2
<1>4. LastOf(records', results)
  <2>1. \A i \in 1 .. Len(records) : SameKey(records[i], results[Len(results) - Len(records) + i])
    BY <1>1 DEF LastOf
  <2>2. QED
    BY <1>1, <1>3, <2>1 DEF LastOf, SameKey
<1>5. job' = R!NoJob \/ (job' \in Taken /\ (job'.recent => job'.inOut \in InOut))
  <2>1. CASE job' = job
    BY <2>1 DEF TableInv, DirectionKnown, R!DirectionKnown
  <2> DEFINE some == R!Record(a, f)
             dir == IF some = {} THEN 0 ELSE (CHOOSE r \in some : TRUE).inOut
             rec == \E i \in DOMAIN results : /\ results[i].agent = a /\ results[i].file = f
                                             /\ Len(results) - i <= MaxRecords \div 2
  <2>2. CASE job' = [at |-> "quality", agent |-> a, file |-> f, quality |-> FALSE,
                     inOut |-> dir, recent |-> rec]
    <3>1. some # {} => dir \in InOut
      <4>1. some # {} => (CHOOSE r \in some : TRUE) \in some
        OBVIOUS
      <4>2. some \subseteq Rows
        <5>1. \A i \in DOMAIN records : records[i] \in Rows
          BY <1>1, LenProperties, ElementOfSeq
        <5>2. QED
          BY <5>1 DEF R!Record, R!ToSet
      <4> HIDE DEF some
      <4>3. QED
        BY <4>1, <4>2 DEF Rows
    <3>2. rec => some # {}
      BY RecentHasRecord
    <3>3. dir \in InOut \cup {0}
      BY <3>1
    <3>4. rec \in BOOLEAN
      OBVIOUS
    <3> HIDE DEF some, dir, rec
    <3>5. QED
      BY <2>2, <3>1, <3>2, <3>3, <3>4 DEF Taken
  <2>3. QED
    BY <2>1, <2>2 DEF R!UploadAck
<1>6. DirectionKnown'
  BY <1>5 DEF DirectionKnown, R!DirectionKnown, R!NoJob
<1>7. QED
  BY <1>1, <1>2, <1>3, <1>4, <1>5, <1>6 DEF TableInv

\* What goes on in the pipeline keeps the direction.
LEMMA PipelineKept ==
  ASSUME TableInv, \/ \E ok \in BOOLEAN : R!AudioQuality(ok) \/ R!RunPipeline(ok)
                   \/ R!SendResult
  PROVE  TableInv'
<1>1. records' = records /\ results' = results
  BY DEF R!AudioQuality, R!RunPipeline, R!SendResult
<1>2. job.at \in {"quality", "text", "scored"}
  BY DEF R!AudioQuality, R!RunPipeline, R!SendResult
<1>3. job \in Taken /\ (job.recent => job.inOut \in InOut)
  BY <1>2 DEF TableInv, R!NoJob, DirectionKnown, R!DirectionKnown
<1>4. job' = R!NoJob \/ (job' \in Taken /\ (job'.recent => job'.inOut \in InOut))
  <2>1. ASSUME NEW ok \in BOOLEAN, R!AudioQuality(ok)
        PROVE  job' \in Taken /\ (job'.recent => job'.inOut \in InOut)
    BY <1>3, <2>1 DEF R!AudioQuality, Taken
  <2>2. ASSUME NEW ok \in BOOLEAN, R!RunPipeline(ok)
        PROVE  job' = R!NoJob \/ (job' \in Taken /\ (job'.recent => job'.inOut \in InOut))
    BY <1>3, <2>2 DEF R!RunPipeline, Taken
  <2>3. ASSUME R!SendResult PROVE job' \in Taken /\ (job'.recent => job'.inOut \in InOut)
    BY <1>3, <2>3 DEF R!SendResult, Taken
  <2>4. QED
    BY <2>1, <2>2, <2>3
<1>5. DirectionKnown'
  BY <1>4 DEF DirectionKnown, R!DirectionKnown, R!NoJob
<1>6. QED
  BY <1>1, <1>4, <1>5 DEF TableInv

\* The direction of a call reaches speech to text for every recording whose result is among the
\* last half of the table, whatever was pruned before (rec_handler.py:83-90).
THEOREM DirectionIsKnown == R!Spec => []DirectionKnown
<1>1. R!Init => TableInv
  <2> SUFFICES ASSUME R!Init PROVE TableInv
    OBVIOUS
  <2>1. records = <<>> /\ results = <<>> /\ job = R!NoJob
    BY DEF R!Init
  <2>2. MaxRecords \in Nat
    BY MaxAssumption
  <2>3. records \in Seq(Rows) /\ results \in Seq(Keys) /\ Len(records) = 0 /\ Len(results) = 0
    BY <2>1
  <2>4. Once(results) /\ LastOf(records, results)
    BY <2>3 DEF Once, LastOf
  <2>5. DirectionKnown
    BY <2>1 DEF DirectionKnown, R!DirectionKnown
  <2>6. QED
    BY <2>1, <2>2, <2>3, <2>4, <2>5 DEF TableInv
<1>2. TableInv /\ [R!Next]_(R!vars) => TableInv'
  <2> SUFFICES ASSUME TableInv, [R!Next]_(R!vars) PROVE TableInv'
    OBVIOUS
  <2>1. CASE UNCHANGED R!vars
    BY <2>1 DEF R!vars, TableInv, DirectionKnown, R!DirectionKnown, R!NoJob
  <2>2. CASE R!Next
    BY <2>2, ResultKept, AckKept, PipelineKept DEF R!Next
  <2>3. QED
    BY <2>1, <2>2
<1>3. TableInv => DirectionKnown
  BY DEF TableInv
<1>4. QED
  BY <1>1, <1>2, <1>3, PTL DEF R!Spec

-----------------------------------------------------------------------------
(***************************************************************************)
(* The recordings served.  Of a name there is one file; the one a body is  *)
(* read from is still there as it was, or there is another write of it.    *)
(***************************************************************************)

Written == [agent : Agent, day : Int, file : Served, size : Nat, ulaw : BOOLEAN, write : Nat]
Fetching == [at : {"fetch", "stored", "look"}, file : Served, agent : Agent, start : Start, end : End]
Bodies == [at : {"body", "sent"}, file : Written, next : Int, promised : Int, ranged : BOOLEAN,
           read : Int, writes : SUBSET Nat]

StreamTypes ==
  /\ day \in Int /\ writes \in Nat /\ connected \subseteq Agent
  /\ stored \subseteq Written /\ writing \in Written \cup {F!NoFile}
  /\ reader.at \in {"fetch", "stored", "look"} => reader \in Fetching
  /\ reader.at \in {"body", "sent"} => reader \in Bodies

WritesFit ==
  /\ \A f, g \in stored : F!Same(f, g) => f = g
  /\ \A f \in stored : f.write <= writes
  /\ writing # F!NoFile =>
       writing.write <= writes /\ \A f \in stored : F!Same(f, writing) => f.write = writing.write

WrittenAnew(f) == \E g \in stored : F!Same(g, f) /\ g.write # f.write

\* The file of the reader.
FileFits ==
  reader.at \in {"body", "sent"} =>
    /\ reader.file.write <= writes
    /\ writing # F!NoFile => reader.file.write < writing.write
    /\ reader.file \in stored \/ WrittenAnew(reader.file)

\* What of a file was read: r.next - r.read is where it began.
ReadFits(r) ==
  /\ r.at = "body" =>
       /\ r.promised <= r.file.size - (r.next - r.read)
       /\ ~r.ranged => r.promised = r.file.size - (r.next - r.read)
       /\ r.promised >= 0 => r.read <= r.promised
  /\ r.at = "sent" /\ r.promised >= 0 => r.read = r.promised
  /\ r.writes \subseteq {r.file.write}

StreamInv ==
  /\ StreamTypes
  /\ WritesFit
  /\ FileFits
  /\ reader.at \in {"body", "sent"} => ReadFits(reader) \/ WrittenAnew(reader.file)

LEMMA MaxOfTwo ==
  ASSUME NEW a \in Int, NEW b \in Int
  PROVE  /\ F!Max({a, b}) = IF a >= b THEN a ELSE b
         /\ F!Min({a, b}) = IF a <= b THEN a ELSE b
<1>1. F!Max({a, b}) = IF a >= b THEN a ELSE b
  BY DEF F!Max
<1>2. F!Min({a, b}) = IF a <= b THEN a ELSE b
  BY DEF F!Min
<1>3. QED
  BY <1>1, <1>2

LEMMA AtMostOne ==
  ASSUME NEW S, NEW w, S \subseteq {w} PROVE F!Cardinality(S) <= 1
<1>1. F!Cardinality(S) = Cardinality(S)
  BY DEF F!Cardinality, Cardinality
<1>2. S = {} \/ S = {w}
  OBVIOUS
<1>3. QED
  BY <1>1, <1>2, FS_EmptySet, FS_Singleton

\* A step that leaves the files alone, and after which no body is read.
LEMMA OtherReader ==
  ASSUME StreamInv, UNCHANGED <<stored, writing, writes>>, day' \in Int, connected' \subseteq Agent,
         \/ reader' = reader
         \/ /\ reader'.at \notin {"body", "sent"}
            /\ reader'.at \in {"fetch", "stored", "look"} => reader' \in Fetching
  PROVE  StreamInv'
<1>1. StreamTypes' /\ WritesFit'
  BY DEF StreamInv, StreamTypes, WritesFit
<1>2. \A f : WrittenAnew(f)' = WrittenAnew(f)
  BY DEF WrittenAnew
<1>3. QED
  BY <1>1, <1>2 DEF StreamInv, FileFits

\* A file that is emptied to be written.
LEMMA StoreStep ==
  ASSUME StreamInv, F!LoopFree, NEW a \in Agent, NEW f \in Served, NEW size \in Size,
         NEW ulaw \in BOOLEAN, F!Store(a, f, size, ulaw), UNCHANGED <<day, connected>>,
         \/ reader' = reader
         \/ reader.at = "fetch" /\ reader' = [reader EXCEPT !.at = "stored"]
  PROVE  StreamInv'
<1> DEFINE new == [agent |-> a, day |-> day, file |-> f, size |-> size, ulaw |-> ulaw,
                   write |-> writes + 1]
           empty == [new EXCEPT !.size = 0]
<1>1. /\ writes' = writes + 1 /\ writing' = new
      /\ stored' = {g \in stored : ~F!Same(new, g)} \cup {empty}
      /\ writing = F!NoFile
  BY DEF F!Store, F!LoopFree
<1>2. /\ new \in Written /\ empty \in Written /\ new.write = writes + 1 /\ empty.write = writes + 1
      /\ \A g : F!Same(g, empty) <=> F!Same(new, g)
      /\ \A g : F!Same(empty, g) <=> F!Same(new, g)
      /\ \A g : F!Same(g, new) <=> F!Same(new, g)
      /\ new # F!NoFile
  <2>1. day \in Int /\ size \in Nat /\ writes + 1 \in Nat
    BY RangeAssumption DEF StreamInv, StreamTypes
  <2>2. empty = [agent |-> a, day |-> day, file |-> f, size |-> 0, ulaw |-> ulaw, write |-> writes + 1]
    OBVIOUS
  <2>3. new \in Written /\ empty \in Written
    BY <2>1, <2>2 DEF Written
  <2>4. /\ \A g : F!Same(g, empty) <=> F!Same(new, g)
        /\ \A g : F!Same(empty, g) <=> F!Same(new, g)
        /\ \A g : F!Same(g, new) <=> F!Same(new, g)
    BY <2>2 DEF F!Same
  <2>5. new.agent # "none" /\ F!NoFile.agent = "none"
    BY AgentAssumption DEF F!NoFile
  <2>6. QED
    BY <2>2, <2>3, <2>4, <2>5
<1> HIDE DEF new, empty
<1>3. reader'.at \in {"fetch", "stored", "look"} => reader' \in Fetching
  BY DEF StreamInv, StreamTypes, Fetching
<1>4. reader'.at \in {"body", "sent"} => reader' = reader
  BY DEF StreamInv, StreamTypes, Fetching
<1>5. StreamTypes'
  BY <1>1, <1>2, <1>3, <1>4 DEF StreamInv, StreamTypes
<1>6. WritesFit'
  <2>1. writes \in Nat /\ \A g \in stored : g.write \in Nat /\ g.write <= writes
    BY DEF StreamInv, StreamTypes, WritesFit, Written
  <2>2. \A g, h \in stored : F!Same(g, h) => g = h
    BY DEF StreamInv, WritesFit
  <2>3. \A g, h \in stored' : F!Same(g, h) => g = h
    BY <1>1, <1>2, <2>2
  <2>4. \A g \in stored' : g.write <= writes'
    BY <1>1, <1>2, <2>1
  <2>5. writing'.write <= writes' /\ \A g \in stored' : F!Same(g, writing') => g.write = writing'.write
    BY <1>1, <1>2, <2>1
  <2>6. QED
    BY <2>3, <2>4, <2>5 DEF WritesFit
<1>7. ASSUME NEW g \in Written, g.write <= writes
      PROVE  /\ g.write < writing'.write
             /\ g \in stored \/ WrittenAnew(g) => g \in stored' \/ WrittenAnew(g)'
             /\ WrittenAnew(g) => WrittenAnew(g)'
  <2>1. g.write \in Nat /\ writes \in Nat /\ g.write # writes + 1 /\ g.write < writes + 1
    BY <1>7 DEF Written, StreamInv, StreamTypes
  <2>2. CASE F!Same(new, g)
    <3>1. WrittenAnew(g)'
      BY <1>1, <1>2, <2>1, <2>2 DEF WrittenAnew
    <3>2. QED
      BY <1>1, <1>2, <2>1, <3>1
  <2>3. CASE ~F!Same(new, g)
    <3>1. ASSUME NEW h \in stored, F!Same(h, g) PROVE h \in stored'
      BY <1>1, <2>3, <3>1 DEF F!Same
    <3>2. WrittenAnew(g) => WrittenAnew(g)'
      BY <3>1 DEF WrittenAnew
    <3>3. QED
      BY <1>1, <1>2, <2>1, <2>3, <3>2
  <2>4. QED
    BY <2>2, <2>3
<1>8. reader'.at \in {"body", "sent"} =>
        /\ reader.file \in Written /\ reader.file.write \in Nat /\ writes \in Nat
        /\ reader.file.write <= writes
        /\ reader.file \in stored \/ WrittenAnew(reader.file)
        /\ ReadFits(reader) \/ WrittenAnew(reader.file)
  BY <1>4 DEF StreamInv, StreamTypes, FileFits, Bodies, Written
<1>9. FileFits' /\ (reader'.at \in {"body", "sent"} => ReadFits(reader') \/ WrittenAnew(reader.file)')
  BY <1>1, <1>4, <1>7, <1>8 DEF FileFits
<1>10. QED
  BY <1>4, <1>5, <1>6, <1>9 DEF StreamInv

LEMMA FilledStep == ASSUME StreamInv, F!Filled PROVE StreamInv'
<1>1. /\ writing # F!NoFile /\ writing' = F!NoFile /\ writing \in Written
      /\ stored' = {g \in stored : ~F!Same(writing, g)} \cup {writing}
      /\ writes' = writes /\ day' = day /\ connected' = connected
  BY DEF F!Filled, StreamInv, StreamTypes
<1>2. /\ reader'.at \in {"fetch", "stored", "look"} => reader' \in Fetching
      /\ reader'.at \in {"body", "sent"} => reader' = reader
  BY DEF F!Filled, StreamInv, StreamTypes, Fetching
<1>3. StreamTypes'
  BY <1>1, <1>2 DEF StreamInv, StreamTypes
<1>4. WritesFit'
  <2>1. /\ \A g \in stored : g.write <= writes
        /\ writing.write <= writes
        /\ \A g, h \in stored : F!Same(g, h) => g = h
        /\ \A g, h : F!Same(g, h) <=> F!Same(h, g)
    BY <1>1 DEF StreamInv, WritesFit, F!Same
  <2>2. QED
    BY <1>1, <2>1 DEF WritesFit
<1>5. ASSUME NEW g \in Written, g.write < writing.write
      PROVE  /\ g \in stored \/ WrittenAnew(g) => g \in stored' \/ WrittenAnew(g)'
             /\ WrittenAnew(g) => WrittenAnew(g)'
  <2>1. g.write # writing.write
    BY <1>1, <1>5 DEF Written
  <2>2. CASE F!Same(writing, g)
    <3>1. WrittenAnew(g)'
      BY <1>1, <2>1, <2>2 DEF WrittenAnew
    <3>2. QED
      BY <3>1
  <2>3. CASE ~F!Same(writing, g)
    <3>1. ASSUME NEW h \in stored, F!Same(h, g) PROVE h \in stored'
      BY <1>1, <2>3, <3>1 DEF F!Same
    <3>2. WrittenAnew(g) => WrittenAnew(g)'
      BY <3>1 DEF WrittenAnew
    <3>3. QED
      BY <1>1, <2>3, <3>2
  <2>4. QED
    BY <2>2, <2>3
<1>6. reader'.at \in {"body", "sent"} =>
        /\ reader.file \in Written /\ reader.file.write < writing.write
        /\ reader.file.write <= writes
        /\ reader.file \in stored \/ WrittenAnew(reader.file)
        /\ ReadFits(reader) \/ WrittenAnew(reader.file)
  BY <1>1, <1>2 DEF StreamInv, StreamTypes, FileFits, Bodies
<1>7. FileFits' /\ (reader'.at \in {"body", "sent"} => ReadFits(reader') \/ WrittenAnew(reader.file)')
  BY <1>1, <1>2, <1>5, <1>6 DEF FileFits
<1>8. QED
  BY <1>2, <1>3, <1>4, <1>7 DEF StreamInv

\* What a response is at first, of a file that is there as a whole.
LEMMA ResponseFits ==
  ASSUME NEW f \in Written, NEW start \in Start, NEW end \in End,
         NEW r \in F!Responses(f, start, end)
  PROVE  r \in Bodies /\ r.file = f /\ ReadFits(r) /\ r.at \in {"body", "sent"}
<1> DEFINE from == F!Range0(start)
<1>1. f.size \in Nat /\ f.write \in Nat /\ start \in Int /\ end \in Int
  BY RangeAssumption DEF Written
<1>2. from \in Int
  BY <1>1 DEF F!Range0
<1>3. \A n \in Nat : F!RangeEnd(end, n) \in Int /\ F!RangeEnd(end, n) <= n - 1
                     /\ (end = -1 => F!RangeEnd(end, n) = n - 1)
  BY <1>1 DEF F!RangeEnd
<1> HIDE DEF from
<1>4. CASE r = F!Serve(f, start, end)
  <2> DEFINE p == F!RangeEnd(end, f.size) - from + 1
             g == (start # -1 \/ end # -1)
  <2>1. r = [at |-> "body", file |-> f, next |-> from, promised |-> p, ranged |-> g, read |-> 0,
             writes |-> {}]
    BY <1>4 DEF F!Serve, from
  <2>2. p \in Int /\ p <= f.size - (from - 0) /\ (~g => p = f.size - (from - 0)) /\ g \in BOOLEAN
    BY <1>1, <1>2, <1>3
  <2> HIDE DEF p, g
  <2>3. r \in Bodies
    BY <1>2, <2>1, <2>2 DEF Bodies
  <2>4. QED
    BY <1>1, <1>2, <2>1, <2>2, <2>3 DEF ReadFits
<1>5. CASE r = F!InMemory(f, start, end)
  <2> DEFINE p == F!RangeEnd(end, 2 * f.size) - from + 1
             g == (start # -1 \/ end # -1)
             n == F!Max({0, F!Min({p, 2 * f.size - from})})
  <2>1. r = [at |-> "sent", file |-> f, next |-> from, promised |-> p, ranged |-> g, read |-> n,
             writes |-> {f.write}]
    BY <1>5 DEF F!InMemory, from
  <2>2. p \in Int /\ p <= 2 * f.size - from /\ 2 * f.size - from \in Int /\ g \in BOOLEAN
    <3>1. 2 * f.size \in Nat
      BY <1>1
    <3>2. QED
      BY <1>2, <1>3, <3>1
  <2>3. F!Min({p, 2 * f.size - from}) = p
    BY <2>2, MaxOfTwo
  <2>4. n \in Int /\ (p >= 0 => n = p)
    <3>1. F!Max({0, p}) = IF 0 >= p THEN 0 ELSE p
      BY <2>2, MaxOfTwo
    <3>2. n = F!Max({0, p})
      BY <2>3
    <3> HIDE DEF p, n
    <3>3. QED
      BY <2>2, <3>1, <3>2
  <2> HIDE DEF p, g, n
  <2>5. r \in Bodies
    BY <1>1, <1>2, <2>1, <2>2, <2>4 DEF Bodies
  <2>6. QED
    BY <1>1, <2>1, <2>4, <2>5 DEF ReadFits
<1>6. QED
  BY <1>4, <1>5 DEF F!Responses

\* A body begins.
LEMMA BodyStep ==
  ASSUME StreamInv, NEW f \in stored, NEW start \in Start, NEW end \in End,
         NEW r \in F!Responses(f, start, end), F!Reader(r)
  PROVE  StreamInv'
<1>1. /\ UNCHANGED <<day, stored, writing, writes, connected>> /\ writing = F!NoFile /\ reader' = r
      /\ f \in Written /\ f.write <= writes
  BY DEF F!Reader, F!Threaded, F!LoopFree, StreamInv, StreamTypes, WritesFit
<1>2. r \in Bodies /\ r.file = f /\ ReadFits(r) /\ r.at \in {"body", "sent"}
  BY <1>1, ResponseFits
<1>3. StreamTypes' /\ WritesFit'
  BY <1>1, <1>2 DEF StreamInv, StreamTypes, WritesFit
<1>4. FileFits' /\ ReadFits(reader')
  BY <1>1, <1>2 DEF FileFits
<1>5. QED
  BY <1>3, <1>4 DEF StreamInv

LEMMA ReadStep == ASSUME StreamInv, F!ReadChunk PROVE StreamInv'
<1>1. /\ UNCHANGED <<day, stored, writing, writes, connected>> /\ reader.at = "body"
  BY DEF F!ReadChunk
<1>2. PICK f \in stored :
        /\ F!Same(f, reader.file)
        /\ reader' = IF reader.next >= f.size \/ (reader.ranged /\ reader.read >= reader.promised)
                     THEN [reader EXCEPT !.at = "sent"]
                     ELSE [reader EXCEPT !.next = @ + 1, !.read = @ + 1, !.writes = @ \cup {f.write}]
  BY DEF F!ReadChunk
<1>3. reader \in Bodies /\ f \in Written /\ f.size \in Nat /\ f.write \in Nat
  BY <1>1 DEF StreamInv, StreamTypes, Written
<1>4. /\ reader' \in Bodies /\ reader'.file = reader.file /\ reader'.at \in {"body", "sent"}
  <2>1. reader.next + 1 \in Int /\ reader.read + 1 \in Int /\ reader.writes \cup {f.write} \in SUBSET Nat
    BY <1>3 DEF Bodies
  <2>2. QED
    BY <1>1, <1>2, <1>3, <2>1 DEF Bodies
<1>5. \A g : WrittenAnew(g)' = WrittenAnew(g)
  BY <1>1 DEF WrittenAnew
<1>6. StreamTypes' /\ WritesFit'
  BY <1>1, <1>4 DEF StreamInv, StreamTypes, WritesFit
<1>7. FileFits'
  BY <1>1, <1>4, <1>5 DEF StreamInv, FileFits
<1>8. ASSUME ~WrittenAnew(reader.file) PROVE ReadFits(reader')
  <2>1. f = reader.file /\ ReadFits(reader)
    BY <1>1, <1>2, <1>8 DEF StreamInv, FileFits, WritesFit, WrittenAnew
  <2>2. /\ reader.next \in Int /\ reader.read \in Int /\ reader.promised \in Int
        /\ reader.ranged \in BOOLEAN
        /\ reader.promised <= f.size - (reader.next - reader.read)
        /\ ~reader.ranged => reader.promised = f.size - (reader.next - reader.read)
        /\ reader.promised >= 0 => reader.read <= reader.promised
        /\ reader.writes \subseteq {f.write}
    BY <1>1, <1>3, <2>1 DEF Bodies, ReadFits
  <2>3. CASE reader.next >= f.size \/ (reader.ranged /\ reader.read >= reader.promised)
    <3>1. reader' = [reader EXCEPT !.at = "sent"]
      BY <1>2, <2>3
    <3>2. reader.promised >= 0 => reader.read = reader.promised
      BY <1>3, <2>2, <2>3
    <3>3. /\ reader'.at = "sent" /\ reader'.promised = reader.promised /\ reader'.read = reader.read
          /\ reader'.writes = reader.writes /\ reader'.file = f
      BY <1>3, <2>1, <3>1 DEF Bodies
    <3>4. QED
      BY <2>2, <3>2, <3>3 DEF ReadFits
  <2>4. CASE ~(reader.next >= f.size \/ (reader.ranged /\ reader.read >= reader.promised))
    <3>1. reader' = [reader EXCEPT !.next = @ + 1, !.read = @ + 1, !.writes = @ \cup {f.write}]
      BY <1>2, <2>4
    <3>2. reader.promised >= 0 => reader.read + 1 <= reader.promised
      BY <1>3, <2>2, <2>4
    <3>3. /\ reader'.at = "body" /\ reader'.promised = reader.promised
          /\ reader'.read = reader.read + 1 /\ reader'.next = reader.next + 1
          /\ reader'.ranged = reader.ranged
          /\ reader'.writes = reader.writes \cup {f.write} /\ reader'.file = f
      BY <1>1, <1>3, <2>1, <3>1 DEF Bodies
    <3>4. (reader.next + 1) - (reader.read + 1) = reader.next - reader.read
      BY <2>2
    <3>5. QED
      BY <2>2, <3>2, <3>3, <3>4 DEF ReadFits
  <2>5. QED
    BY <2>3, <2>4
<1>9. QED
  BY <1>4, <1>5, <1>6, <1>7, <1>8 DEF StreamInv

\* The reader is at something else than a body.
LEMMA OtherStep ==
  ASSUME StreamInv, NEW r, F!Threaded(r), r.at \in {"list", "ask", "refused", "idle"}
  PROVE  StreamInv'
BY OtherReader DEF F!Threaded, StreamInv, StreamTypes

LEMMA StreamStep == StreamInv /\ [F!Next]_(F!vars) => StreamInv'
<1> SUFFICES ASSUME StreamInv, [F!Next]_(F!vars) PROVE StreamInv'
  OBVIOUS
<1>1. day \in Int /\ connected \subseteq Agent
  BY DEF StreamInv, StreamTypes
<1>2. CASE F!Filled
  BY <1>2, FilledStep
<1>3. CASE F!Midnight \/ UNCHANGED F!vars
  BY <1>1, <1>3, OtherReader DEF F!Midnight, F!vars
<1>4. ASSUME NEW a \in Agent, F!Connect(a) \/ F!Disconnect(a) PROVE StreamInv'
  BY <1>1, <1>4, OtherReader DEF F!Connect, F!Disconnect
<1>5. ASSUME NEW a \in Agent, NEW f \in Served, F!Upload(a, f) PROVE StreamInv'
  BY <1>5, StoreStep DEF F!Upload
<1>6. ASSUME NEW f \in Served, NEW a \in Agent \cup {""}, NEW start \in Start, NEW end \in End,
             F!Stream(f, a, start, end)
      PROVE  StreamInv'
  <2>1. CASE F!FindByFilename(f) # {}
    <3>1. PICK g \in F!FindByFilename(f) : \E r \in F!Responses(g, start, end) : F!Reader(r)
      BY <1>6, <2>1 DEF F!Stream
    <3>2. g \in stored
      BY DEF F!FindByFilename, F!Newest
    <3>3. QED
      BY <3>1, <3>2, BodyStep
  <2>2. CASE F!FindByFilename(f) = {}
    <3>1. PICK r \in {[at |-> "fetch", file |-> f, agent |-> b, start |-> start, end |-> end] :
                        b \in F!AskedAgents(a)}
                     \cup (IF F!AskedAgents(a) = {} THEN {F!Refused(404)} ELSE {}) : F!Reader(r)
      BY <1>6, <2>2 DEF F!Stream
    <3>2. F!AskedAgents(a) \subseteq Agent
      BY <1>1 DEF F!AskedAgents
    <3>3. (r \in Fetching /\ r.at = "fetch") \/ r.at = "refused"
      <4>1. CASE \E b \in F!AskedAgents(a) :
                   r = [at |-> "fetch", file |-> f, agent |-> b, start |-> start, end |-> end]
        <5>1. PICK b \in Agent :
                r = [at |-> "fetch", file |-> f, agent |-> b, start |-> start, end |-> end]
          BY <3>2, <4>1
        <5>2. r \in Fetching /\ r.at = "fetch"
          BY <5>1 DEF Fetching
        <5>3. QED
          BY <5>2
      <4>2. CASE r = F!Refused(404)
        BY <4>2 DEF F!Refused
      <4>3. QED
        BY <3>1, <4>1, <4>2
    <3>4. QED
      BY <1>1, <3>1, <3>3, OtherReader DEF F!Reader, F!Threaded
  <2>3. QED
    BY <2>1, <2>2
<1>7. CASE F!Fetched
  <2>1. reader \in Fetching
    BY <1>7 DEF F!Fetched, StreamInv, StreamTypes
  <2>2. CASE F!Reader(F!Refused(404))
    BY <1>1, <2>2, OtherReader DEF F!Reader, F!Threaded, F!Refused
  <2>3. CASE /\ F!LoopFree
             /\ \E size \in Size, ulaw \in BOOLEAN : F!Store(reader.agent, reader.file, size, ulaw)
             /\ reader' = [reader EXCEPT !.at = "stored"]
             /\ UNCHANGED <<day, connected, visits>>
    <3>1. reader.agent \in Agent /\ reader.file \in Served /\ reader.at = "fetch"
      BY <1>7, <2>1 DEF F!Fetched, Fetching
    <3>2. QED
      BY <2>3, <3>1, StoreStep
  <2>4. QED
    BY <1>7, <2>2, <2>3 DEF F!Fetched
<1>8. CASE F!LookAgain
  <2>1. reader \in Fetching
    BY <1>8 DEF F!LookAgain, StreamInv, StreamTypes
  <2>2. PICK f \in F!FindByFilename(reader.file) :
          \E r \in F!Responses(f, reader.start, reader.end) : F!Reader(r)
    BY <1>8 DEF F!LookAgain
  <2>3. f \in stored /\ reader.start \in Start /\ reader.end \in End
    BY <2>1 DEF F!FindByFilename, F!Newest, Fetching
  <2>4. QED
    BY <2>2, <2>3, BodyStep
<1>9. CASE F!ReadChunk
  BY <1>9, ReadStep
<1>10. ASSUME NEW a, NEW d, F!Look(a, d) PROVE StreamInv'
  <2>1. CASE F!Threaded([at |-> "list", of |-> {f \in F!ListRecordings(a, d) : a = "" \/ f.agent = a}])
    BY <2>1, OtherStep
  <2>2. ASSUME NEW name \in Served,
               F!Threaded([at |-> "list", of |-> IF F!FindByFilename(name) = {} THEN {}
                                                 ELSE {CHOOSE f \in F!FindByFilename(name) : TRUE}])
        PROVE  StreamInv'
    BY <2>2, OtherStep
  <2>3. CASE F!Threaded([at |-> "list", of |-> UNION {F!ListRecordings("", e) : e \in 1 .. d}])
    BY <2>3, OtherStep
  <2>4. QED
    BY <1>10, <2>1, <2>2, <2>3 DEF F!Look
<1>11. ASSUME NEW a, F!AskRecords(a) PROVE StreamInv'
  <2>1. CASE F!Reader(F!Refused(503))
    BY <2>1, OtherStep DEF F!Reader, F!Refused
  <2>2. ASSUME NEW b, F!Reader([at |-> "ask", agent |-> b]) PROVE StreamInv'
    BY <2>2, OtherStep DEF F!Reader
  <2>3. QED
    BY <1>11, <2>1, <2>2 DEF F!AskRecords
<1>12. CASE F!Answered \/ F!Again
  <2>1. PICK r : F!Threaded(r) /\ r.at \in {"list", "refused", "idle"}
    BY <1>12 DEF F!Answered, F!Again, F!Reader, F!Refused, F!Idle
  <2>2. QED
    BY <1>1, <2>1, OtherReader DEF F!Threaded
<1>13. QED
  BY <1>2, <1>3, <1>4, <1>5, <1>6, <1>7, <1>8, <1>9, <1>10, <1>11, <1>12 DEF F!Next

\* A response has the bytes its header says, of one write of the file, unless the file was
\* written anew after its size was read, or the range starts behind its end (stream.py:462-562).
THEOREM BodiesAsPromised == F!Spec => []BodyAsPromised
<1>1. F!Init => StreamInv
  BY DEF F!Init, StreamInv, StreamTypes, WritesFit, FileFits, F!Idle
<1>2. StreamInv => BodyAsPromised
  <2> SUFFICES ASSUME StreamInv, reader.at = "sent", reader.promised >= 0, ~WrittenAnew(reader.file)
               PROVE  reader.read = reader.promised /\ F!Cardinality(reader.writes) <= 1
    BY DEF BodyAsPromised, F!BodyAsPromised, WrittenAnew
  <2>1. ReadFits(reader)
    BY DEF StreamInv
  <2>2. QED
    BY <2>1, AtMostOne DEF ReadFits
<1>3. QED
  BY <1>1, <1>2, StreamStep, PTL DEF F!Spec

-----------------------------------------------------------------------------
(* The scores of calls.                                                    *)

LEMMA LeastNatural ==
  ASSUME NEW T, T \subseteq Nat, T # {}
  PROVE  \E x \in T : \A y \in T : x <= y
<1> DEFINE less == OpToRel(<, Nat)
<1>1. IsWellFoundedOn(less, Nat)
  BY NatLessThanWellFounded
<1>2. \A x, y \in Nat : x < y => <<x, y>> \in less
  BY DEF OpToRel
<1> HIDE DEF less
<1>3. PICK x \in T : \A y \in T : ~(<<y, x>> \in less)
  BY <1>1, WFMin
<1>4. ASSUME NEW y \in T PROVE x <= y
  <2>1. x \in Nat /\ y \in Nat /\ ~(y < x)
    BY <1>2, <1>3
  <2>2. QED
    BY <2>1
<1>5. QED
  BY <1>4

(* How long one talks.  The sums up to the segments exist, each following  *)
(* from the one before; and they are the same for segments of the same     *)
(* lengths.                                                                *)

\* f has the sums up to the n-th segment.
Sums(f, n, segs) ==
  f = [i \in 0 .. n |-> IF i = 0 THEN 0 ELSE f[i - 1] + segs[i].end - segs[i].start]

LEMMA SumsExist ==
  ASSUME NEW segs \in Seq(Utterance)
  PROVE  \E f : Sums(f, Len(segs), segs)
<1> DEFINE T == {n \in 0 .. Len(segs) : ~\E f : Sums(f, n, segs)}
<1>1. ASSUME T # {} PROVE FALSE
  <2>1. T \subseteq Nat
    BY LenProperties
  <2>2. PICK n \in T : \A y \in T : n <= y
    BY <1>1, <2>1, LeastNatural
  <2>3. n \in 0 .. Len(segs) /\ Len(segs) \in Nat /\ ~\E f : Sums(f, n, segs)
    BY LenProperties
  <2>4. CASE n = 0
    <3> DEFINE f == [i \in 0 .. 0 |-> 0]
    <3>1. f = [i \in 0 .. 0 |-> IF i = 0 THEN 0 ELSE f[i - 1] + segs[i].end - segs[i].start]
      <4>1. \A i \in 0 .. 0 : i = 0
        OBVIOUS
      <4>2. QED
        BY <4>1
    <3>2. Sums(f, 0, segs)
      BY <3>1 DEF Sums
    <3>3. QED
      BY <2>3, <2>4, <3>2
  <2>5. CASE n # 0
    <3>1. n - 1 \in 0 .. Len(segs) /\ n - 1 \notin T
      <4>1. ~(n <= n - 1) /\ n - 1 \in 0 .. Len(segs)
        BY <2>3, <2>5
      <4>2. QED
        BY <2>2, <4>1
    <3>2. PICK g : Sums(g, n - 1, segs)
      BY <3>1
    <3> DEFINE f == [i \in 0 .. n |-> IF i = n THEN g[n - 1] + segs[n].end - segs[n].start ELSE g[i]]
    <3>3. \A i \in 0 .. n - 1 : f[i] = g[i]
      BY <2>3
    <3>4. f[n] = g[n - 1] + segs[n].end - segs[n].start
      BY <2>3
    <3>5. \A i \in 0 .. n - 1 : g[i] = IF i = 0 THEN 0 ELSE g[i - 1] + segs[i].end - segs[i].start
      BY <3>2 DEF Sums
    <3>6. DOMAIN f = 0 .. n /\ f = [i \in 0 .. n |-> f[i]]
      OBVIOUS
    <3> HIDE DEF f
    <3>7. ASSUME NEW i \in 0 .. n
          PROVE  f[i] = IF i = 0 THEN 0 ELSE f[i - 1] + segs[i].end - segs[i].start
      <4>1. CASE i = n
        <5>1. n - 1 \in 0 .. n - 1
          BY <2>3, <2>5
        <5>2. f[n - 1] = g[n - 1]
          BY <3>3, <5>1
        <5>3. QED
          BY <2>5, <3>4, <4>1, <5>2
      <4>2. CASE i = 0
        <5>1. 0 \in 0 .. n - 1
          BY <2>3, <2>5
        <5>2. QED
          BY <3>3, <3>5, <4>2, <5>1
      <4>3. CASE i # n /\ i # 0
        <5>1. i \in 0 .. n - 1 /\ i - 1 \in 0 .. n - 1
          BY <2>3, <4>3
        <5>2. f[i] = g[i] /\ f[i - 1] = g[i - 1]
          BY <3>3, <5>1
        <5>3. g[i] = g[i - 1] + segs[i].end - segs[i].start
          BY <3>5, <4>3, <5>1
        <5>4. QED
          BY <4>3, <5>2, <5>3
      <4>4. QED
        BY <4>1, <4>2, <4>3
    <3>8. f = [i \in 0 .. n |-> IF i = 0 THEN 0 ELSE f[i - 1] + segs[i].end - segs[i].start]
      BY <3>6, <3>7
    <3>9. Sums(f, n, segs)
      BY <3>8 DEF Sums
    <3>10. QED
      BY <2>3, <3>9
  <2>6. QED
    BY <2>4, <2>5
<1>2. Len(segs) \in 0 .. Len(segs)
  BY LenProperties
<1>3. QED
  BY <1>1, <1>2

LEMMA TalkIs ==
  ASSUME NEW segs \in Seq(Utterance)
  PROVE  \E f : Sums(f, Len(segs), segs) /\ Talk(segs) = f[Len(segs)]
<1> DEFINE f == CHOOSE f : Sums(f, Len(segs), segs)
<1>1. Sums(f, Len(segs), segs)
  BY SumsExist
<1>2. Talk(segs) = f[Len(segs)]
  BY DEF Talk, Sums
<1>3. QED
  BY <1>1, <1>2

LEMMA SumsAre ==
  ASSUME NEW segs \in Seq(Utterance), NEW f, Sums(f, Len(segs), segs)
  PROVE  \A i \in 0 .. Len(segs) : f[i] \in Int
<1> DEFINE T == {i \in 0 .. Len(segs) : f[i] \notin Int}
<1>1. ASSUME T # {} PROVE FALSE
  <2>1. T \subseteq Nat
    BY LenProperties
  <2>2. PICK n \in T : \A y \in T : n <= y
    BY <1>1, <2>1, LeastNatural
  <2>3. n \in 0 .. Len(segs) /\ Len(segs) \in Nat /\ f[n] \notin Int
    BY LenProperties
  <2>4. f[n] = IF n = 0 THEN 0 ELSE f[n - 1] + segs[n].end - segs[n].start
    BY <2>3 DEF Sums
  <2>5. n # 0 /\ n \in 1 .. Len(segs) /\ n - 1 \in 0 .. Len(segs) /\ ~(n <= n - 1)
    BY <2>3, <2>4
  <2>6. segs[n] \in Utterance
    BY <2>5, ElementOfSeq
  <2>7. segs[n].end \in Int /\ segs[n].start \in Int
    BY <2>6 DEF Utterance
  <2>8. f[n - 1] \in Int
    BY <2>2, <2>5
  <2>9. QED
    BY <2>3, <2>4, <2>5, <2>7, <2>8
<1>2. QED
  BY <1>1

LEMMA TalkIsNumber == ASSUME NEW segs \in Seq(Utterance) PROVE Talk(segs) \in Int
BY TalkIs, SumsAre, LenProperties

LEMMA TalkIsSame ==
  ASSUME NEW s \in Seq(Utterance), NEW t \in Seq(Utterance), Len(t) = Len(s),
         \A i \in 1 .. Len(s) : t[i].end - t[i].start = s[i].end - s[i].start
  PROVE  Talk(t) = Talk(s)
<1>1. PICK f : Sums(f, Len(s), s) /\ Talk(s) = f[Len(s)]
  BY TalkIs
<1>2. PICK g : Sums(g, Len(s), t) /\ Talk(t) = g[Len(s)]
  BY TalkIs
<1> DEFINE T == {i \in 0 .. Len(s) : g[i] # f[i]}
<1>3. ASSUME T # {} PROVE FALSE
  <2>1. T \subseteq Nat
    BY LenProperties
  <2>2. PICK n \in T : \A y \in T : n <= y
    BY <1>3, <2>1, LeastNatural
  <2>3. n \in 0 .. Len(s) /\ Len(s) \in Nat /\ g[n] # f[n]
    BY LenProperties
  <2>4. f[n] = IF n = 0 THEN 0 ELSE f[n - 1] + s[n].end - s[n].start
    BY <1>1, <2>3 DEF Sums
  <2>5. g[n] = IF n = 0 THEN 0 ELSE g[n - 1] + t[n].end - t[n].start
    BY <1>2, <2>3 DEF Sums
  <2>6. n # 0 /\ n \in 1 .. Len(s) /\ n - 1 \in 0 .. Len(s) /\ ~(n <= n - 1)
    BY <2>3, <2>4, <2>5
  <2>7. s[n] \in Utterance /\ t[n] \in Utterance
    BY <2>6, ElementOfSeq
  <2>8. s[n].end \in Int /\ s[n].start \in Int /\ t[n].end \in Int /\ t[n].start \in Int
    BY <2>7 DEF Utterance
  <2>9. g[n - 1] = f[n - 1]
    BY <2>2, <2>6
  <2>10. f[n - 1] \in Int
    BY <1>1, <2>6, SumsAre
  <2>11. t[n].end - t[n].start = s[n].end - s[n].start
    BY <2>6
  <2>12. g[n] = f[n - 1] + (t[n].end - t[n].start) /\ f[n] = f[n - 1] + (s[n].end - s[n].start)
    BY <2>4, <2>5, <2>6, <2>8, <2>9, <2>10
  <2>13. QED
    BY <2>3, <2>11, <2>12
<1>4. Len(s) \in 0 .. Len(s)
  BY LenProperties
<1>5. QED
  BY <1>1, <1>2, <1>3, <1>4

-----------------------------------------------------------------------------
(* The share of silence grows with the length of a call.                   *)

LEMMA MinOf ==
  ASSUME NEW a \in Int, NEW b \in Int
  PROVE  Min({a, b}) = IF a <= b THEN a ELSE b
<1> DEFINE m == IF a <= b THEN a ELSE b
<1>1. m \in {a, b} /\ \A y \in {a, b} : m <= y
  OBVIOUS
<1>2. \A x \in {a, b} : (\A y \in {a, b} : x <= y) => x = m
  OBVIOUS
<1>3. QED
  BY <1>1, <1>2 DEF Min

LEMMA MaxOf ==
  ASSUME NEW a \in Int, NEW b \in Int
  PROVE  Max({a, b}) = IF a >= b THEN a ELSE b
<1> DEFINE m == IF a >= b THEN a ELSE b
<1>1. m \in {a, b} /\ \A y \in {a, b} : m >= y
  OBVIOUS
<1>2. \A x \in {a, b} : (\A y \in {a, b} : x >= y) => x = m
  OBVIOUS
<1>3. QED
  BY <1>1, <1>2 DEF Max

LEMMA Quotient ==
  ASSUME NEW a \in Int, NEW b \in Nat, b > 0
  PROVE  a \div b \in Int /\ b * (a \div b) <= a /\ a < b * (a \div b) + b
OBVIOUS

\* What b goes into at least k times.
LEMMA QuotientOver ==
  ASSUME NEW a \in Int, NEW b \in Nat, b > 0, NEW k \in Int, b * k <= a
  PROVE  k <= a \div b
<1>1. a \div b \in Int /\ a < b * (a \div b) + b
  BY Quotient
<1> DEFINE q == a \div b
<1> HIDE DEF q
<1>2. q \in Int /\ b * k < b * q + b
  BY <1>1 DEF q
<1>3. ASSUME q < k PROVE FALSE
  <2>1. q + 1 <= k
    BY <1>2, <1>3
  <2>2. b * (q + 1) <= b * k
    BY <1>2, <2>1
  <2>3. b * (q + 1) = b * q + b /\ b * q \in Int /\ b * k \in Int
    BY <1>2
  <2>4. QED
    BY <1>2, <2>2, <2>3
<1>4. QED
  BY <1>2, <1>3 DEF q

LEMMA SilenceGrows ==
  ASSUME NEW a \in Int, NEW b \in Int, NEW d \in Nat, d > 0, NEW w \in Nat, w = d + 5
  PROVE  /\ Percent(Max({0, d - a - b}), d) \in Int
         /\ Percent(Max({0, w - a - b}), w) \in Int
         /\ Percent(Max({0, d - a - b}), d) <= Percent(Max({0, w - a - b}), w)
<1> DEFINE m == IF 0 >= d - a - b THEN 0 ELSE d - a - b
           n == IF 0 >= w - a - b THEN 0 ELSE w - a - b
           q == (100 * m) \div d
           r == (100 * n) \div w
           k == IF 100 <= q THEN 100 ELSE q
<1>1. m = Max({0, d - a - b}) /\ n = Max({0, w - a - b})
  BY MaxOf
<1>2. m \in Nat /\ n \in Nat /\ (m = 0 \/ n = m + 5)
  OBVIOUS
<1> HIDE DEF m, n
<1>3. 100 * m \in Int /\ 100 * n \in Int /\ w > 0
  BY <1>2
<1>4. q \in Int /\ d * q <= 100 * m /\ r \in Int
  BY <1>3, Quotient
<1>5. Percent(m, d) = k /\ Percent(n, w) = IF 100 <= r THEN 100 ELSE r
  BY <1>4, MinOf DEF Percent
<1> HIDE DEF q, r
<1>6. k \in Int /\ k <= 100 /\ k <= q
  BY <1>4
<1> HIDE DEF k
<1>7. d * k <= d * q /\ d * k \in Int /\ d * q \in Int
  BY <1>4, <1>6
<1>8. w * k = d * k + 5 * k
  BY <1>6
<1>9. w * k <= 100 * n
  <2>1. CASE n = m + 5
    BY <1>2, <1>4, <1>6, <1>7, <1>8, <2>1
  <2>2. CASE m = 0
    <3>1. q <= 0
      <4>1. d * q <= 0
        BY <1>4, <2>2
      <4>2. ASSUME q >= 1 PROVE FALSE
        <5>1. d * q >= d * 1
          BY <1>4, <4>2
        <5>2. QED
          BY <1>7, <4>1, <5>1
      <4>3. QED
        BY <1>4, <4>2
    <3>2. w * k <= 0
      <4>1. k <= 0 /\ w \in Nat
        BY <1>4, <1>6, <3>1
      <4>2. QED
        BY <1>6, <4>1
    <3>3. QED
      BY <1>2, <1>6, <3>2
  <2>3. QED
    BY <1>2, <2>1, <2>2
<1>10. k <= r
  BY <1>3, <1>6, <1>9, QuotientOver DEF r
<1>11. QED
  BY <1>1, <1>4, <1>5, <1>6, <1>10

-----------------------------------------------------------------------------
(* The parts of a score.                                                   *)

LEMMA SilenceScored ==
  /\ \A x \in Int : SilenceScore(x) \in 0 .. Full
  /\ \A x, y \in Int : x <= y => SilenceScore(y) <= SilenceScore(x)
BY DEF SilenceScore, Full

LEMMA ResponseScored ==
  /\ \A x \in Int : ResponseScore(x) \in 0 .. Full
  /\ \A x, y \in Int : 0 < x /\ x <= y => ResponseScore(y) <= ResponseScore(x)
BY DEF ResponseScore, Full

LEMMA PhraseScored ==
  ASSUME NEW r \in BOOLEAN, NEW f \in BOOLEAN
  PROVE  /\ PhraseScore(r, f) \in 0 .. Full
         /\ PhraseScore(r, TRUE) <= PhraseScore(r, f)
         /\ PhraseScore(FALSE, f) <= PhraseScore(r, f)
BY DEF PhraseScore, Full

LEMMA PaceIs ==
  ASSUME NEW x \in Int
  PROVE  /\ x <= 0 => PaceScore(x) = 1200
         /\ x \in 1 .. 59 => PaceScore(x) = 20 * x
         /\ x \in 60 .. 99 => PaceScore(x) = 1200 + 30 * (x - 60)
         /\ x \in 100 .. 160 => PaceScore(x) = 2400
         /\ x \in 161 .. 200 => PaceScore(x) = 2400 - 15 * (x - 160)
         /\ x > 200 => PaceScore(x) = IF 0 >= 2400 - 24 * (x - 200) THEN 0 ELSE 2400 - 24 * (x - 200)
<1>1. Full = 2400 /\ Full \div 2 = 1200
  BY DEF Full
<1>2. Max({0, 2400 - 24 * (x - 200)}) = IF 0 >= 2400 - 24 * (x - 200) THEN 0 ELSE 2400 - 24 * (x - 200)
  BY MaxOf
<1>3. CASE x <= 0
  BY <1>1, <1>3 DEF PaceScore
<1>4. CASE x \in 1 .. 59
  BY <1>4 DEF PaceScore
<1>5. CASE x \in 60 .. 99
  BY <1>1, <1>5 DEF PaceScore
<1>6. CASE x \in 100 .. 160
  BY <1>1, <1>6 DEF PaceScore
<1>7. CASE x \in 161 .. 200
  BY <1>1, <1>7 DEF PaceScore
<1>8. CASE x > 200
  BY <1>1, <1>2, <1>8 DEF PaceScore
<1>9. QED
  BY <1>3, <1>4, <1>5, <1>6, <1>7, <1>8

LEMMA PaceScored ==
  /\ \A x \in Int : PaceScore(x) \in 0 .. Full
  /\ \A x \in 1 .. 99 : PaceScore(x) <= PaceScore(x + 1)
  /\ \A x \in Int : x >= 160 /\ x # 200 => PaceScore(x) >= PaceScore(x + 1)
  /\ PaceScore(201) = PaceScore(200) + 24 * 24
<1>1. Full = 2400
  BY DEF Full
<1>2. \A x \in Int : PaceScore(x) \in 0 .. Full
  BY <1>1, PaceIs
<1>3. \A x \in 1 .. 99 : PaceScore(x) <= PaceScore(x + 1)
  BY PaceIs
<1>4. \A x \in Int : x >= 160 /\ x # 200 => PaceScore(x) >= PaceScore(x + 1)
  BY PaceIs
<1>5. PaceScore(201) = PaceScore(200) + 24 * 24
  BY PaceIs
<1>6. QED
  BY <1>2, <1>3, <1>4, <1>5

-----------------------------------------------------------------------------
(* When the agent answers.                                                 *)

LEMMA MinIs ==
  ASSUME NEW T, T \subseteq Nat, T # {}
  PROVE  Min(T) \in T /\ \A y \in T : Min(T) <= y
<1>1. \E x \in T : \A y \in T : x <= y
  BY LeastNatural
<1>2. QED
  BY <1>1 DEF Min

LEMMA LeastIs ==
  ASSUME NEW T, T \subseteq Nat, NEW x \in T, \A y \in T : x <= y
  PROVE  Min(T) = x
<1>1. Min(T) \in T /\ \A y \in T : Min(T) <= y
  BY MinIs
<1>2. Min(T) <= x /\ x <= Min(T) /\ x \in Nat /\ Min(T) \in Nat
  BY <1>1
<1>3. QED
  BY <1>2

LEMMA StartsAre ==
  ASSUME NEW segs \in Seq(Utterance)
  PROVE  /\ Starts(segs) \subseteq Nat
         /\ segs # <<>> => Starts(segs) # {}
<1>1. DOMAIN segs = 1 .. Len(segs) /\ \A i \in DOMAIN segs : segs[i] \in Utterance
  BY LenProperties, ElementOfSeq
<1>2. segs # <<>> => 1 \in DOMAIN segs
  BY <1>1, EmptySeq, LenProperties
<1>3. QED
  BY <1>1, <1>2 DEF Starts, Utterance

\* The agent's segments after the customer began.
After(agent, customer) == {s \in Starts(agent) : \E c \in Starts(customer) : c < s}

LEMMA FirstResponseIs ==
  ASSUME NEW s \in Seq(Utterance), NEW t \in Seq(Utterance)
  PROVE  /\ FirstResponse(s, t) \in Int
         /\ FirstResponse(s, t) =
              IF After(s, t) = {} THEN 0 ELSE Min(After(s, t)) - Min(Starts(t))
         /\ After(s, t) \subseteq Nat
         /\ After(s, t) # {} => Starts(t) # {} /\ Min(Starts(t)) \in Nat
<1>1. FirstResponse(s, t) = IF After(s, t) = {} THEN 0 ELSE Min(After(s, t)) - Min(Starts(t))
  BY DEF FirstResponse, After
<1>2. Starts(s) \subseteq Nat /\ Starts(t) \subseteq Nat /\ After(s, t) \subseteq Nat
  BY StartsAre DEF After
<1>3. ASSUME After(s, t) # {} PROVE Starts(t) # {} /\ Min(Starts(t)) \in Nat /\ Min(After(s, t)) \in Nat
  <2>1. Starts(t) # {}
    BY <1>3 DEF After
  <2>2. QED
    BY <1>2, <1>3, <2>1, MinIs
<1>4. QED
  BY <1>1, <1>2, <1>3

\* What the agent says later, the segments alone.
Moved(s, t, d) ==
  [i \in DOMAIN s |-> IF s[i].start > Min(Starts(t))
                      THEN [start |-> s[i].start + d, end |-> s[i].end + d] ELSE s[i]]

LEMMA MovedAre ==
  ASSUME NEW s \in Seq(Utterance), NEW t, NEW d \in Nat
  PROVE  /\ Moved(s, t, d) \in Seq(Utterance)
         /\ Len(Moved(s, t, d)) = Len(s)
         /\ Talk(Moved(s, t, d)) = Talk(s)
<1> DEFINE u == Moved(s, t, d)
<1>1. DOMAIN s = 1 .. Len(s) /\ Len(s) \in Nat /\ \A i \in DOMAIN s : s[i] \in Utterance
  BY LenProperties, ElementOfSeq
<1>2. \A i \in 1 .. Len(s) : u[i] = IF s[i].start > Min(Starts(t))
                                     THEN [start |-> s[i].start + d, end |-> s[i].end + d] ELSE s[i]
  BY <1>1 DEF Moved
<1> HIDE DEF u
<1>3. \A i \in 1 .. Len(s) : u[i] \in Utterance /\ u[i].end - u[i].start = s[i].end - s[i].start
  <2> TAKE i \in 1 .. Len(s)
  <2>1. s[i] \in Utterance /\ s[i].start \in Nat /\ s[i].end \in Nat
    BY <1>1 DEF Utterance
  <2>2. CASE u[i] = s[i]
    BY <2>1, <2>2
  <2>3. CASE u[i] = [start |-> s[i].start + d, end |-> s[i].end + d]
    <3>1. u[i].start = s[i].start + d /\ u[i].end = s[i].end + d
      BY <2>3
    <3>2. u[i] \in Utterance
      BY <2>1, <2>3 DEF Utterance
    <3>3. QED
      BY <2>1, <3>1, <3>2
  <2>4. QED
    BY <1>2, <2>2, <2>3
<1>4. u \in [1 .. Len(s) -> Utterance]
  BY <1>1, <1>3 DEF u, Moved
<1>5. u \in Seq(Utterance)
  BY <1>1, <1>4, SeqDef
<1>6. Len(u) = Len(s)
  BY <1>1, <1>4, <1>5, LenProperties
<1>8. Talk(u) = Talk(s)
  BY <1>3, <1>5, <1>6, TalkIsSame
<1>9. QED
  BY <1>5, <1>6, <1>8 DEF u

LEMMA AnswersLater ==
  ASSUME NEW s \in Seq(Utterance), NEW t \in Seq(Utterance), NEW d \in Nat, FirstResponse(s, t) > 0
  PROVE  FirstResponse(Moved(s, t, d), t) = FirstResponse(s, t) + d
<1> DEFINE u == Moved(s, t, d)
           m == Min(Starts(t))
           a == Min(After(s, t))
<1>1. /\ After(s, t) # {} /\ After(s, t) \subseteq Nat /\ Starts(t) # {} /\ m \in Nat
      /\ FirstResponse(s, t) = a - m
  BY FirstResponseIs
<1>2. u \in Seq(Utterance) /\ Len(u) = Len(s)
  BY MovedAre
<1>3. /\ Starts(t) \subseteq Nat /\ Starts(s) \subseteq Nat
      /\ m \in Starts(t) /\ \A c \in Starts(t) : m <= c
  BY <1>1, StartsAre, MinIs
<1>4. DOMAIN u = DOMAIN s /\ \A i \in DOMAIN s : s[i].start \in Nat
  <2>1. DOMAIN s = 1 .. Len(s) /\ \A i \in 1 .. Len(s) : s[i] \in Utterance
    BY LenProperties, ElementOfSeq
  <2>2. QED
    BY <2>1 DEF Moved, Utterance
<1>5. \A i \in DOMAIN s : u[i].start = IF s[i].start > m THEN s[i].start + d ELSE s[i].start
  BY DEF Moved
<1> HIDE DEF u, m
<1>6. \A x \in Nat : (\E c \in Starts(t) : c < x) <=> m < x
  BY <1>1, <1>3
<1>7. a \in After(s, t) /\ \A y \in After(s, t) : a <= y
  BY <1>1, MinIs
<1>8. PICK i \in DOMAIN s : s[i].start = a
  BY <1>7 DEF After, Starts
<1>9. a \in Nat /\ m < a
  BY <1>1, <1>6, <1>7 DEF After
<1>10. a + d \in After(u, t)
  <2>1. u[i].start = a + d
    BY <1>5, <1>8, <1>9
  <2>2. a + d \in Starts(u)
    BY <1>4, <2>1 DEF Starts
  <2>3. a + d \in Nat /\ m < a + d
    BY <1>1, <1>9
  <2>4. QED
    BY <1>6, <2>2, <2>3 DEF After
<1>11. ASSUME NEW y \in After(u, t) PROVE a + d <= y
  <2>1. PICK j \in DOMAIN s : u[j].start = y
    BY <1>4 DEF After, Starts
  <2>2. y \in Nat /\ m < y
    BY <1>2, <1>6, FirstResponseIs DEF After
  <2>3. s[j].start \in Nat /\ s[j].start \in Starts(s)
    BY <1>4 DEF Starts
  <2>4. s[j].start > m /\ y = s[j].start + d
    BY <1>1, <1>5, <2>1, <2>2, <2>3
  <2>5. s[j].start \in After(s, t)
    BY <1>1, <1>6, <2>3, <2>4 DEF After
  <2>6. QED
    BY <1>7, <1>9, <2>3, <2>4, <2>5
<1>12. After(u, t) \subseteq Nat
  BY <1>2, FirstResponseIs
<1>13. Min(After(u, t)) = a + d
  BY <1>10, <1>11, <1>12, LeastIs
<1>14. FirstResponse(u, t) = (a + d) - m
  BY <1>2, <1>10, <1>13, FirstResponseIs DEF m
<1>15. QED
  BY <1>1, <1>9, <1>14 DEF u

-----------------------------------------------------------------------------
(* A score of the three parts.                                             *)

Silence(c) == TalkRatios(c.agent, c.customer, c.duration).silence
Phrase(c) == PhraseScore(c.required, c.forbidden)
Mono(c) == c.customer = <<>> /\ c.agent # <<>>
First(c) == IF Mono(c) THEN 2 * PaceScore(SpeechPace(c.words, c.duration))
            ELSE 3 * ResponseScore(FirstResponse(c.agent, c.customer))

LEMMA ScoreIs ==
  ASSUME NEW c
  PROVE  Score(c) = First(c) + (IF Mono(c) THEN 5 ELSE 4) * Phrase(c) + 3 * SilenceScore(Silence(c))
BY DEF Score, First, Mono, Phrase, Silence

LEMMA RatioIs ==
  ASSUME NEW s, NEW t, NEW d \in Int, d > 0
  PROVE  TalkRatios(s, t, d).silence = Percent(Max({0, d - Talk(s) - Talk(t)}), d)
<1>1. ~(d <= 0)
  OBVIOUS
<1>2. QED
  BY <1>1 DEF TalkRatios

LEMMA RatioGrows ==
  ASSUME NEW s \in Seq(Utterance), NEW t \in Seq(Utterance), NEW d \in Nat, d > 0,
         NEW w \in Nat, w = d + 5
  PROVE  TalkRatios(s, t, d).silence <= TalkRatios(s, t, w).silence
<1> DEFINE a == Talk(s)
           b == Talk(t)
<1>1. w > 0
  OBVIOUS
<1>2. TalkRatios(s, t, d).silence = Percent(Max({0, d - a - b}), d)
  BY RatioIs
<1>3. TalkRatios(s, t, w).silence = Percent(Max({0, w - a - b}), w)
  BY <1>1, RatioIs
<1>4. a \in Int /\ b \in Int
  BY TalkIsNumber
<1> HIDE DEF a, b
<1>5. QED
  BY <1>2, <1>3, <1>4, SilenceGrows

LEMMA SilenceIs ==
  ASSUME NEW c \in ScoredCall
  PROVE  Silence(c) \in Int
<1>1. c.agent \in Seq(Utterance) /\ c.customer \in Seq(Utterance) /\ c.duration \in Nat
  BY DEF ScoredCall
<1>2. Talk(c.agent) \in Int /\ Talk(c.customer) \in Int
  BY <1>1, TalkIsNumber
<1>3. CASE c.duration = 0
  BY <1>3 DEF Silence, TalkRatios
<1>4. CASE c.duration > 0
  <2>1. PICK w \in Nat : w = c.duration + 5
    BY <1>1
  <2>2. Percent(Max({0, c.duration - Talk(c.agent) - Talk(c.customer)}), c.duration) \in Int
    BY <1>1, <1>2, <1>4, <2>1, SilenceGrows
  <2>3. QED
    BY <1>4, <1>1, <2>2 DEF Silence, TalkRatios
<1>5. QED
  BY <1>1, <1>3, <1>4

\* The weights are ten in all.
LEMMA Weighed ==
  ASSUME NEW x \in Nat, NEW y \in Nat, NEW z \in Nat, y <= 2400, z <= 2400
  PROVE  /\ x <= 4800 => x + 5 * y + 3 * z \in Nat /\ x + 5 * y + 3 * z <= 24000
         /\ x <= 7200 => x + 4 * y + 3 * z \in Nat /\ x + 4 * y + 3 * z <= 24000
OBVIOUS

LEMMA InRange == \A x \in Nat : x <= 2400 <=> x \in 0 .. Full
BY DEF Full

LEMMA PartsAre ==
  ASSUME NEW c \in ScoredCall
  PROVE  /\ First(c) \in Nat /\ Phrase(c) \in Nat /\ SilenceScore(Silence(c)) \in Nat
         /\ Score(c) \in 0 .. 10 * Full
<1>1. /\ c.agent \in Seq(Utterance) /\ c.customer \in Seq(Utterance) /\ c.duration \in Nat
      /\ c.words \in Nat /\ c.required \in BOOLEAN /\ c.forbidden \in BOOLEAN
  BY DEF ScoredCall
<1> DEFINE p == PaceScore(SpeechPace(c.words, c.duration))
           r == ResponseScore(FirstResponse(c.agent, c.customer))
           x == First(c)
           y == Phrase(c)
           z == SilenceScore(Silence(c))
<1>2. y \in 0 .. Full /\ z \in 0 .. Full
  BY <1>1, PhraseScored, SilenceIs, SilenceScored DEF Phrase
<1>3. p \in 0 .. Full /\ r \in 0 .. Full
  <2>1. SpeechPace(c.words, c.duration) \in Int
    BY <1>1 DEF SpeechPace
  <2>2. FirstResponse(c.agent, c.customer) \in Int
    BY <1>1, FirstResponseIs
  <2>3. QED
    BY <2>1, <2>2, PaceScored, ResponseScored
<1>4. /\ Mono(c) => x = 2 * p /\ Score(c) = x + 5 * y + 3 * z
      /\ ~Mono(c) => x = 3 * r /\ Score(c) = x + 4 * y + 3 * z
  BY ScoreIs DEF First
<1> HIDE DEF p, r, x, y, z
<1>5. /\ p \in Nat /\ p <= 2400 /\ r \in Nat /\ r <= 2400
      /\ y \in Nat /\ y <= 2400 /\ z \in Nat /\ z <= 2400
  BY <1>2, <1>3, InRange
<1>6. x \in Nat /\ Score(c) \in Nat /\ Score(c) <= 24000
  <2>1. CASE Mono(c)
    <3>1. x \in Nat /\ x <= 4800 /\ Score(c) = x + 5 * y + 3 * z
      BY <1>4, <1>5, <2>1
    <3>2. QED
      BY <1>5, <3>1, Weighed
  <2>2. CASE ~Mono(c)
    <3>1. x \in Nat /\ x <= 7200 /\ Score(c) = x + 4 * y + 3 * z
      BY <1>4, <1>5, <2>2
    <3>2. QED
      BY <1>5, <3>1, Weighed
  <2>3. QED
    BY <2>1, <2>2
<1>7. Score(c) \in 0 .. 10 * Full
  <2> DEFINE all == 10 * Full
  <2>1. all = 24000
    BY DEF Full
  <2> HIDE DEF all
  <2>2. Score(c) \in Nat /\ Score(c) <= all /\ all \in Int
    BY <1>6, <2>1
  <2>3. Score(c) \in 0 .. all
    BY <2>2
  <2>4. QED
    BY <2>3 DEF all
<1>8. QED
  BY <1>5, <1>6, <1>7 DEF x, y, z

\* A call is no better whose parts are not.
LEMMA PartsCompare ==
  ASSUME NEW c \in ScoredCall, NEW e \in ScoredCall, (Mono(e) <=> Mono(c)), First(e) <= First(c),
         Phrase(e) <= Phrase(c), SilenceScore(Silence(e)) <= SilenceScore(Silence(c))
  PROVE  Score(e) <= Score(c)
<1>1. /\ First(c) \in Nat /\ Phrase(c) \in Nat /\ SilenceScore(Silence(c)) \in Nat
      /\ First(e) \in Nat /\ Phrase(e) \in Nat /\ SilenceScore(Silence(e)) \in Nat
  BY PartsAre
<1>2. QED
  BY <1>1, ScoreIs

LEMMA ForbiddenIsWorse ==
  ASSUME NEW c \in ScoredCall
  PROVE  Score([c EXCEPT !.forbidden = TRUE]) <= Score(c)
<1> DEFINE e == [c EXCEPT !.forbidden = TRUE]
<1>1. /\ e \in ScoredCall /\ (Mono(e) <=> Mono(c)) /\ First(e) = First(c) /\ Silence(e) = Silence(c)
      /\ e.required = c.required /\ e.forbidden = TRUE
  BY DEF ScoredCall, Mono, First, Silence
<1>2. Phrase(e) <= Phrase(c)
  BY <1>1, PhraseScored DEF Phrase, ScoredCall
<1> HIDE DEF e
<1>3. First(e) <= First(c) /\ SilenceScore(Silence(e)) <= SilenceScore(Silence(c))
  BY <1>1, PartsAre
<1>4. QED
  BY <1>1, <1>2, <1>3, PartsCompare DEF e

LEMMA UnrequiredIsWorse ==
  ASSUME NEW c \in ScoredCall
  PROVE  Score([c EXCEPT !.required = FALSE]) <= Score(c)
<1> DEFINE e == [c EXCEPT !.required = FALSE]
<1>1. /\ e \in ScoredCall /\ (Mono(e) <=> Mono(c)) /\ First(e) = First(c) /\ Silence(e) = Silence(c)
      /\ e.required = FALSE /\ e.forbidden = c.forbidden
  BY DEF ScoredCall, Mono, First, Silence
<1>2. Phrase(e) <= Phrase(c)
  BY <1>1, PhraseScored DEF Phrase, ScoredCall
<1> HIDE DEF e
<1>3. First(e) <= First(c) /\ SilenceScore(Silence(e)) <= SilenceScore(Silence(c))
  BY <1>1, PartsAre
<1>4. QED
  BY <1>1, <1>2, <1>3, PartsCompare DEF e

LEMMA SilentIsWorse ==
  ASSUME NEW c \in ScoredCall, c.customer # <<>>
  PROVE  Score([c EXCEPT !.duration = @ + 5]) <= Score(c)
<1> DEFINE e == [c EXCEPT !.duration = @ + 5]
<1>1. /\ c.agent \in Seq(Utterance) /\ c.customer \in Seq(Utterance) /\ c.duration \in Nat
      /\ c.duration > 0
  BY DEF ScoredCall
<1>2. /\ e.agent = c.agent /\ e.customer = c.customer /\ e.duration = c.duration + 5
      /\ e.required = c.required /\ e.forbidden = c.forbidden
  BY DEF ScoredCall
<1>3. e \in ScoredCall
  BY <1>1 DEF ScoredCall
<1> HIDE DEF e
<1>4. ~Mono(c) /\ ~Mono(e)
  BY <1>2 DEF Mono
<1>5. First(e) = First(c) /\ Phrase(e) = Phrase(c)
  BY <1>2, <1>4 DEF First, Phrase
<1>6. Silence(c) <= Silence(e)
  <2>1. e.duration \in Nat /\ e.duration = c.duration + 5
    BY <1>1, <1>2
  <2>2. TalkRatios(c.agent, c.customer, c.duration).silence
          <= TalkRatios(c.agent, c.customer, e.duration).silence
    BY <1>1, <2>1, RatioGrows
  <2>3. QED
    BY <1>2, <2>2 DEF Silence
<1>7. SilenceScore(Silence(e)) <= SilenceScore(Silence(c))
  BY <1>3, <1>6, SilenceIs, SilenceScored
<1>8. First(e) <= First(c) /\ Phrase(e) <= Phrase(c)
  BY <1>3, <1>5, PartsAre
<1>9. Score(e) <= Score(c)
  BY <1>3, <1>4, <1>7, <1>8, PartsCompare
<1>10. QED
  BY <1>9 DEF e

LEMMA LaterIsWorse ==
  ASSUME NEW c \in ScoredCall, c.customer # <<>>, NEW d \in Nat,
         FirstResponse(c.agent, c.customer) > 0
  PROVE  Score(Later(c, d)) <= Score(c)
<1> DEFINE e == Later(c, d)
           u == Moved(c.agent, c.customer, d)
<1>1. c.agent \in Seq(Utterance) /\ c.customer \in Seq(Utterance)
  BY DEF ScoredCall
<1>2. /\ u \in Seq(Utterance) /\ Talk(u) = Talk(c.agent)
      /\ FirstResponse(u, c.customer) = FirstResponse(c.agent, c.customer) + d
      /\ FirstResponse(c.agent, c.customer) \in Int
  BY <1>1, MovedAre, AnswersLater, FirstResponseIs
<1>3. e = [c EXCEPT !.agent = u]
  BY DEF Later, Moved
<1> HIDE DEF e, u
<1>4. /\ e.agent = u /\ e.customer = c.customer /\ e.duration = c.duration
      /\ e.required = c.required /\ e.forbidden = c.forbidden
  BY <1>3 DEF ScoredCall
<1>5. e \in ScoredCall
  BY <1>2, <1>3 DEF ScoredCall
<1>6. ~Mono(c) /\ ~Mono(e)
  BY <1>4 DEF Mono
<1>7. Silence(e) = Silence(c) /\ Phrase(e) = Phrase(c)
  BY <1>2, <1>4 DEF Silence, Phrase, TalkRatios
<1>8. ResponseScore(FirstResponse(u, c.customer)) <= ResponseScore(FirstResponse(c.agent, c.customer))
  BY <1>2, ResponseScored
<1>9. First(e) <= First(c)
  <2> DEFINE first == ResponseScore(FirstResponse(c.agent, c.customer))
             second == ResponseScore(FirstResponse(u, c.customer))
  <2>1. first \in 0 .. Full /\ second \in 0 .. Full /\ second <= first
    BY <1>2, <1>8, ResponseScored
  <2>2. First(e) = 3 * second /\ First(c) = 3 * first
    BY <1>4, <1>6 DEF First
  <2>3. first \in Int /\ second \in Int /\ second <= first
    BY <2>1
  <2> HIDE DEF first, second
  <2>4. 3 * second <= 3 * first
    BY <2>3
  <2>5. QED
    BY <2>2, <2>4
<1>10. Phrase(e) <= Phrase(c) /\ SilenceScore(Silence(e)) <= SilenceScore(Silence(c))
  BY <1>5, <1>7, PartsAre
<1>11. Score(e) <= Score(c)
  BY <1>5, <1>6, <1>9, <1>10, PartsCompare
<1>12. QED
  BY <1>11 DEF e

LEMMA EveryWorseIsLess == \A c \in ScoredCall : WorseIsLess(c)
<1> SUFFICES ASSUME NEW c \in ScoredCall PROVE WorseIsLess(c)
  OBVIOUS
<1> DEFINE pace == SpeechPace(c.words, c.duration)
<1>1. Score(c) \in 0 .. 10 * Full
  BY PartsAre
<1>2. c.customer # <<>> =>
        /\ Score([c EXCEPT !.duration = @ + 5]) <= Score(c)
        /\ \A d \in 1 .. 6 : FirstResponse(c.agent, c.customer) > 0 => Score(Later(c, d)) <= Score(c)
  BY SilentIsWorse, LaterIsWorse
<1>3. pace \in Int
  BY DEF SpeechPace, ScoredCall
<1> HIDE DEF pace
<1>4. /\ pace \in 1 .. 99 => PaceScore(pace) <= PaceScore(pace + 1)
      /\ pace >= 160 /\ pace # 200 => PaceScore(pace) >= PaceScore(pace + 1)
      /\ PaceScore(201) = PaceScore(200) + 24 * 24
  BY <1>3, PaceScored
<1>5. QED
  BY <1>1, <1>2, <1>4, ForbiddenIsWorse, UnrequiredIsWorse DEF WorseIsLess, pace

\* Whatever call is scored, one that is worse in one way scores no more.
HeardInv == heard = NoInput \/ heard \in Heard

\* analyze_call_quality: of two calls that differ in one way only, the worse one never has
\* the higher score (but for the pace of 201 words), for any segments, lengths and texts.
THEOREM WorseIsScoredLess == HearSpec => []WorseScoresLess
<1>1. heard = NoInput => HeardInv
  BY DEF HeardInv
<1>2. HeardInv /\ [Hear]_heard => HeardInv'
  BY DEF HeardInv, Hear
<1>3. HeardInv => WorseScoresLess
  <2>1. heard = NoInput => heard.kind # "call"
    BY DEF NoInput
  <2>2. ASSUME heard \in Heard, heard.kind = "call" PROVE WorseIsLess(heard.of[1])
    <3>1. heard.of[1] \in ScoredCall
      BY <2>2, HeardAssumption
    <3>2. QED
      BY <3>1, EveryWorseIsLess
  <2>3. QED
    BY <2>1, <2>2 DEF HeardInv, WorseScoresLess
<1>4. QED
  BY <1>1, <1>2, <1>3, PTL DEF HearSpec

-----------------------------------------------------------------------------
(* Segments: sequences that are sorted, joined and cut.                    *)

\* A strict order of the elements of S.
StrictOrder(S, W) ==
  /\ \A x \in S : <<x, x>> \notin W
  /\ \A x, y \in S : x # y => <<x, y>> \in W \/ <<y, x>> \in W
  /\ \A x, y, z \in S : <<x, y>> \in W /\ <<y, z>> \in W => <<x, z>> \in W

\* The n elements of S in the order of W.
Ranks(f, n, S, W) ==
  /\ f \in [1 .. n -> S]
  /\ \A x \in S : \E i \in 1 .. n : f[i] = x
  /\ \A i, j \in 1 .. n : i < j => <<f[i], f[j]>> \in W

\* An element comes after as many as are below it: in the order, and every one.
LEMMA RankedIs ==
  ASSUME NEW S, IsFiniteSet(S), NEW W, StrictOrder(S, W)
  PROVE  Cardinality(S) \in Nat /\ Ranks(Ranked(S, W), Cardinality(S), S, W)
<1>0. /\ \A x \in S : <<x, x>> \notin W
      /\ \A x, y \in S : x # y => <<x, y>> \in W \/ <<y, x>> \in W
      /\ \A x, y, z \in S : <<x, y>> \in W /\ <<y, z>> \in W => <<x, z>> \in W
  BY DEF StrictOrder
<1> DEFINE N == Cardinality(S)
<1> DEFINE below(x) == {y \in S : <<y, x>> \in W}
<1> DEFINE rank == [x \in S |-> Cardinality(below(x)) + 1]
<1>1. N \in Nat
  BY FS_CardinalityType
<1>2. \A x \in S : IsFiniteSet(below(x)) /\ Cardinality(below(x)) \in Nat
  BY FS_Subset, FS_CardinalityType
<1>3. \A x, y \in S : <<x, y>> \in W => Cardinality(below(x)) < Cardinality(below(y))
  <2> SUFFICES ASSUME NEW x \in S, NEW y \in S, <<x, y>> \in W
               PROVE  Cardinality(below(x)) < Cardinality(below(y))
    OBVIOUS
  <2>1. below(x) \subseteq below(y)
    BY <1>0
  <2>2. x \in below(y) /\ x \notin below(x)
    BY <1>0
  <2>3. IsFiniteSet(below(y)) /\ Cardinality(below(x)) \in Nat /\ Cardinality(below(y)) \in Nat
    BY <1>2
  <2> HIDE DEF below
  <2>4. Cardinality(below(x)) <= Cardinality(below(y)) /\ Cardinality(below(y)) # Cardinality(below(x))
    BY <2>1, <2>2, <2>3, FS_Subset
  <2>5. QED
    BY <2>3, <2>4
<1>4. \A x \in S : Cardinality(below(x)) < N
  <2> SUFFICES ASSUME NEW x \in S PROVE Cardinality(below(x)) < N
    OBVIOUS
  <2>1. below(x) \subseteq S /\ x \notin below(x)
    BY <1>0
  <2>2. Cardinality(below(x)) \in Nat
    BY <1>2
  <2> HIDE DEF below
  <2>3. Cardinality(below(x)) <= N /\ N # Cardinality(below(x))
    BY <2>1, FS_Subset
  <2>4. QED
    BY <1>1, <2>2, <2>3
<1> HIDE DEF N, below
<1>5. rank \in [S -> 1 .. N]
  BY <1>1, <1>2, <1>4
<1>6. \A x, y \in S : rank[x] = rank[y] => x = y
  <2> SUFFICES ASSUME NEW x \in S, NEW y \in S, rank[x] = rank[y], x # y PROVE FALSE
    OBVIOUS
  <2>1. Cardinality(below(x)) \in Nat /\ Cardinality(below(y)) \in Nat
    BY <1>2
  <2>2. Cardinality(below(x)) = Cardinality(below(y))
    BY <2>1
  <2>3. <<x, y>> \notin W /\ <<y, x>> \notin W
    <3>1. ~(Cardinality(below(x)) < Cardinality(below(y))) /\ ~(Cardinality(below(y)) < Cardinality(below(x)))
      BY <2>1, <2>2
    <3>2. QED
      BY <1>3, <3>1
  <2>4. QED
    BY <1>0, <2>3
<1>7. rank \in Surjection(S, 1 .. N)
  <2>1. rank \in Injection(S, 1 .. N)
    BY <1>5, <1>6, Fun_IsInj
  <2>2. IsFiniteSet(1 .. N) /\ Cardinality(1 .. N) = N
    BY <1>1, FS_Interval
  <2>3. QED
    BY <2>1, <2>2, FS_Injection DEF N
<1>8. \A n \in 1 .. N : \E x \in S : rank[x] = n
  <2> HIDE DEF rank
  <2>1. QED
    BY <1>7 DEF Surjection
<1>9. \A n \in 1 .. N : Ranked(S, W)[n] \in S /\ rank[Ranked(S, W)[n]] = n
  <2> SUFFICES ASSUME NEW n \in 1 .. N PROVE Ranked(S, W)[n] \in S /\ rank[Ranked(S, W)[n]] = n
    OBVIOUS
  <2>1. PICK x \in S : rank[x] = n
    BY <1>8
  <2>2. Cardinality(below(x)) = n - 1
    BY <1>2, <2>1
  <2>3. Ranked(S, W)[n] = CHOOSE y \in S : Cardinality(below(y)) = n - 1
    BY DEF Ranked, N, below
  <2>4. Ranked(S, W)[n] \in S /\ Cardinality(below(Ranked(S, W)[n])) = n - 1
    BY <2>2, <2>3
  <2>5. QED
    BY <1>2, <2>4
<1>10. DOMAIN Ranked(S, W) = 1 .. N /\ Ranked(S, W) = [n \in 1 .. N |-> Ranked(S, W)[n]]
  <2> DEFINE r == Ranked(S, W)
  <2>1. r = [n \in 1 .. N |-> CHOOSE x \in S : Cardinality({y \in S : <<y, x>> \in W}) = n - 1]
    BY DEF Ranked, N
  <2>2. DOMAIN r = 1 .. N
    BY <2>1
  <2>3. QED
    BY <2>1, <2>2
<1>11. Ranked(S, W) \in [1 .. N -> S]
  BY <1>9, <1>10
<1>12. \A x \in S : \E n \in 1 .. N : Ranked(S, W)[n] = x
  BY <1>5, <1>6, <1>9
<1>13. \A m, n \in 1 .. N : m < n => <<Ranked(S, W)[m], Ranked(S, W)[n]>> \in W
  <2> SUFFICES ASSUME NEW m \in 1 .. N, NEW n \in 1 .. N, m < n
               PROVE  <<Ranked(S, W)[m], Ranked(S, W)[n]>> \in W
    OBVIOUS
  <2> DEFINE x == Ranked(S, W)[m]
  <2> DEFINE y == Ranked(S, W)[n]
  <2>1. x \in S /\ y \in S /\ rank[x] = m /\ rank[y] = n
    BY <1>9
  <2> HIDE DEF x, y
  <2>2. x # y
    BY <1>1, <2>1
  <2>3. ASSUME <<y, x>> \in W PROVE FALSE
    BY <1>1, <1>2, <1>3, <2>1, <2>3
  <2>4. <<x, y>> \in W
    BY <1>0, <2>1, <2>2, <2>3
  <2>5. QED
    BY <2>4 DEF x, y
<1>14. QED
  BY <1>1, <1>11, <1>12, <1>13 DEF N, Ranks

\* Induction over the numbers up to n, of a set.
LEMMA UpTo ==
  ASSUME NEW n \in Nat, NEW T, 0 \in T, \A i \in 1 .. n : i - 1 \in T => i \in T
  PROVE  \A i \in 0 .. n : i \in T
<1> DEFINE B == {i \in 0 .. n : i \notin T}
<1>1. ASSUME B # {} PROVE FALSE
  <2>1. B \subseteq Nat
    OBVIOUS
  <2>2. PICK i \in B : \A y \in B : i <= y
    BY <1>1, <2>1, LeastNatural
  <2>3. i \in 1 .. n /\ i - 1 \in 0 .. n /\ ~(i <= i - 1)
    OBVIOUS
  <2>4. i - 1 \in T
    BY <2>2, <2>3
  <2>5. QED
    BY <2>3, <2>4
<1>2. QED
  BY <1>1

\* A function each of whose values follows from the one before exists.
Follows(f, n, A, a, H) ==
  f \in [0 .. n -> A] /\ f[0] = a /\ \A i \in 1 .. n : f[i] = H[i][f[i - 1]]

LEMMA Recursion ==
  ASSUME NEW n \in Nat, NEW A, NEW a \in A, NEW H \in [1 .. n -> [A -> A]]
  PROVE  \E f : Follows(f, n, A, a, H)
<1> DEFINE Has(m) == \E f \in [0 .. m -> A] : f[0] = a /\ \A i \in 1 .. m : f[i] = H[i][f[i - 1]]
<1> DEFINE T == {m \in 0 .. n : Has(m)}
<1>1. 0 \in T
  <2> DEFINE g == [i \in 0 .. 0 |-> a]
  <2>1. g \in [0 .. 0 -> A] /\ g[0] = a
    OBVIOUS
  <2>2. \A i \in 1 .. 0 : FALSE
    OBVIOUS
  <2> HIDE DEF g
  <2>3. Has(0)
    BY <2>1, <2>2
  <2>4. 0 \in 0 .. n
    OBVIOUS
  <2> HIDE DEF Has
  <2>5. QED
    BY <2>3, <2>4
<1>2. ASSUME NEW m \in 1 .. n, m - 1 \in T PROVE m \in T
  <2>1. PICK f \in [0 .. m - 1 -> A] : f[0] = a /\ \A i \in 1 .. m - 1 : f[i] = H[i][f[i - 1]]
    BY <1>2
  <2> DEFINE g == [i \in 0 .. m |-> IF i = m THEN H[m][f[m - 1]] ELSE f[i]]
  <2>2. f[m - 1] \in A /\ H[m] \in [A -> A]
    OBVIOUS
  <2>3. H[m][f[m - 1]] \in A
    BY <2>2
  <2>4. g \in [0 .. m -> A]
    BY <2>3
  <2>5. g[0] = a
    BY <2>1
  <2>6. ASSUME NEW i \in 1 .. m PROVE g[i] = H[i][g[i - 1]]
    <3>1. i - 1 \in 0 .. m /\ i - 1 # m /\ i \in 0 .. m
      OBVIOUS
    <3>2. g[i - 1] = f[i - 1]
      BY <3>1
    <3>3. CASE i = m
      BY <3>1, <3>2, <3>3
    <3>4. CASE i # m
      <4>1. i \in 1 .. m - 1
        BY <3>4
      <4>2. g[i] = f[i]
        BY <3>1, <3>4
      <4>3. QED
        BY <2>1, <3>2, <4>1, <4>2
    <3>5. QED
      BY <3>3, <3>4
  <2> HIDE DEF g
  <2>7. Has(m)
    BY <2>4, <2>5, <2>6
  <2>8. m \in 0 .. n
    OBVIOUS
  <2> HIDE DEF Has
  <2>9. QED
    BY <2>7, <2>8
<1> HIDE DEF T, Has
<1>3. n \in T
  <2>1. \A i \in 0 .. n : i \in T
    BY <1>1, <1>2, UpTo
  <2>2. QED
    BY <2>1
<1>4. QED
  BY <1>3 DEF T, Has, Follows

-----------------------------------------------------------------------------

LEMMA FlattenIs ==
  ASSUME NEW S, NEW seqs \in Seq(Seq(S))
  PROVE  \E f \in [0 .. Len(seqs) -> Seq(S)] :
           /\ f[0] = <<>>
           /\ \A i \in 1 .. Len(seqs) : f[i] = f[i - 1] \o seqs[i]
           /\ FlattenSeq(seqs) = f[Len(seqs)]
<1> DEFINE n == Len(seqs)
<1>1. n \in Nat /\ \A i \in 1 .. n : seqs[i] \in Seq(S)
  BY LenProperties, ElementOfSeq
<1> HIDE DEF n
<1> DEFINE H == [i \in 1 .. n |-> [x \in Seq(S) |-> x \o seqs[i]]]
<1>2. n \in Nat /\ H \in [1 .. n -> [Seq(S) -> Seq(S)]]
  BY <1>1, ConcatProperties
<1>3. <<>> \in Seq(S)
  OBVIOUS
<1>4. PICK f \in [0 .. n -> Seq(S)] : f[0] = <<>> /\ \A i \in 1 .. n : f[i] = H[i][f[i - 1]]
  <2> HIDE DEF H
  <2>1. \E f : Follows(f, n, Seq(S), <<>>, H)
    BY <1>2, <1>3, Recursion
  <2>2. QED
    BY <2>1 DEF Follows
<1>5. \A i \in 1 .. n : i - 1 \in 0 .. n /\ f[i - 1] \in Seq(S)
  BY <1>1
<1>6. \A i \in 1 .. n : f[i] = f[i - 1] \o seqs[i]
  BY <1>4, <1>5
<1>61. ASSUME 1 \in 1 .. n PROVE f[1] = seqs[1]
  <2>1. 1 - 1 = 0
    OBVIOUS
  <2>2. f[1] = f[0] \o seqs[1]
    BY <1>6, <1>61, <2>1
  <2>3. QED
    BY <1>1, <1>4, <1>61, <2>2, ConcatEmptySeq
<1>7. FlattenSeq(seqs) = f[n]
  <2>1. CASE n = 0
    <3>1. seqs = <<>>
      BY <2>1, EmptySeq DEF n
    <3>2. QED
      BY <1>4, <2>1, <3>1 DEF FlattenSeq, n
  <2>2. CASE n # 0
    <3> DEFINE Eqn(g) == g = [i \in 1 .. n |-> IF i = 1 THEN seqs[i] ELSE g[i - 1] \o seqs[i]]
    <3> DEFINE g == CHOOSE g : Eqn(g)
    <3>1. FlattenSeq(seqs) = g[n]
      BY <2>2 DEF FlattenSeq, n
    <3> DEFINE h == [i \in 1 .. n |-> f[i]]
    <3>2. Eqn(h)
      <4>1. ASSUME NEW i \in 1 .. n
            PROVE  h[i] = IF i = 1 THEN seqs[i] ELSE h[i - 1] \o seqs[i]
        <5>1. CASE i = 1
          BY <1>61, <5>1
        <5>2. CASE i # 1
          <6>1. i - 1 \in 1 .. n
            BY <1>1, <5>2
          <6>2. h[i - 1] = f[i - 1] /\ h[i] = f[i]
            BY <6>1
          <6> HIDE DEF h
          <6>3. QED
            BY <1>6, <5>2, <6>2
        <5>3. QED
          BY <5>1, <5>2
      <4>2. h = [i \in 1 .. n |-> h[i]]
        OBVIOUS
      <4> HIDE DEF h
      <4>3. QED
        BY <4>1, <4>2
    <3>3. Eqn(g)
      <4> HIDE DEF h, Eqn
      <4>1. QED
        BY <3>2
    <3>4. \A i \in 1 .. n : g[i] = IF i = 1 THEN seqs[i] ELSE g[i - 1] \o seqs[i]
      <4> HIDE DEF g
      <4>1. QED
        BY <3>3
    <3> HIDE DEF g
    <3> DEFINE T == {i \in 0 .. n : i = 0 \/ g[i] = f[i]}
    <3>5. ASSUME NEW i \in 1 .. n, i - 1 \in T PROVE i \in T
      <4>1. CASE i = 1
        <5>1. f[1] = h[1] /\ g[1] = seqs[1]
          BY <3>4, <4>1
        <5>2. f[1] = seqs[1]
          BY <1>61, <4>1
        <5>3. QED
          BY <4>1, <5>1, <5>2
      <4>2. CASE i # 1
        <5>1. g[i - 1] = f[i - 1]
          BY <3>5, <4>2
        <5>2. g[i] = g[i - 1] \o seqs[i]
          BY <3>4, <4>2
        <5>3. f[i] = f[i - 1] \o seqs[i]
          BY <1>6
        <5>4. g[i] = f[i] /\ i \in 0 .. n
          <6>1. g[i] = f[i]
            BY <5>1, <5>2, <5>3
          <6>2. QED
            BY <6>1
        <5>5. QED
          BY <5>4
      <4>3. QED
        BY <4>1, <4>2
    <3>6. 0 \in T
      BY <1>1
    <3>7. n \in T
      <4> HIDE DEF T
      <4>1. \A i \in 0 .. n : i \in T
        BY <1>1, <3>5, <3>6, UpTo
      <4>2. QED
        BY <1>1, <4>1
    <3>8. QED
      BY <2>2, <3>1, <3>7
  <2>3. QED
    BY <2>1, <2>2
<1>8. QED
  BY <1>4, <1>6, <1>7 DEF n

\* The p-th of s is the col[p]-th of the row[p]-th of seqs, up to the m-th of them.
PlacesOf(row, col, s, seqs, m) ==
  /\ row \in [1 .. Len(s) -> 1 .. m] /\ col \in [1 .. Len(s) -> Nat]
  /\ \A p \in 1 .. Len(s) : col[p] \in 1 .. Len(seqs[row[p]]) /\ s[p] = seqs[row[p]][col[p]]
  /\ \A p, q \in 1 .. Len(s) : p < q => row[p] < row[q] \/ (row[p] = row[q] /\ col[p] < col[q])
  /\ \A i \in 1 .. m : \A j \in 1 .. Len(seqs[i]) : \E p \in 1 .. Len(s) : row[p] = i /\ col[p] = j

LEMMA PlacesMore ==
  ASSUME NEW S, NEW s \in Seq(S), NEW t \in Seq(S), NEW seqs, NEW m \in Nat \ {0}, seqs[m] = t,
         NEW row, NEW col, PlacesOf(row, col, s, seqs, m - 1)
  PROVE  \E r, c : PlacesOf(r, c, s \o t, seqs, m)
<1> DEFINE n == Len(s)
<1> DEFINE k == Len(t)
<1> DEFINE u == s \o t
<1>1. n \in Nat /\ k \in Nat
  BY LenProperties
<1>2. Len(u) = n + k
  BY ConcatProperties
<1>3. \A p \in 1 .. n + k : u[p] = IF p <= n THEN s[p] ELSE t[p - n]
  BY ConcatProperties
<1> HIDE DEF n, k, u
<1> DEFINE r == [p \in 1 .. n + k |-> IF p <= n THEN row[p] ELSE m]
<1> DEFINE c == [p \in 1 .. n + k |-> IF p <= n THEN col[p] ELSE p - n]
<1>4. /\ row \in [1 .. n -> 1 .. m - 1] /\ col \in [1 .. n -> Nat]
      /\ \A p \in 1 .. n : col[p] \in 1 .. Len(seqs[row[p]]) /\ s[p] = seqs[row[p]][col[p]]
      /\ \A p, q \in 1 .. n : p < q => row[p] < row[q] \/ (row[p] = row[q] /\ col[p] < col[q])
      /\ \A i \in 1 .. m - 1 : \A j \in 1 .. Len(seqs[i]) : \E p \in 1 .. n : row[p] = i /\ col[p] = j
  BY DEF PlacesOf, n
<1>5. \A p \in 1 .. n : p \in 1 .. n + k /\ r[p] = row[p] /\ c[p] = col[p]
  BY <1>1
<1>6. \A p \in 1 .. n + k : p > n => r[p] = m /\ c[p] = p - n /\ p - n \in 1 .. k
  BY <1>1
<1>7. \A p \in 1 .. n + k : p > n \/ p \in 1 .. n
  BY <1>1
<1>8. \A p \in 1 .. n : row[p] \in 1 .. m - 1 /\ col[p] \in Nat
  BY <1>4
<1>9. r \in [1 .. n + k -> 1 .. m] /\ c \in [1 .. n + k -> Nat]
  <2>1. \A p \in 1 .. n + k : r[p] \in 1 .. m /\ c[p] \in Nat
    BY <1>1, <1>5, <1>6, <1>7, <1>8
  <2>2. QED
    BY <2>1
<1> HIDE DEF r, c
<1>10. ASSUME NEW p \in 1 .. n + k
       PROVE  c[p] \in 1 .. Len(seqs[r[p]]) /\ u[p] = seqs[r[p]][c[p]]
  <2>1. CASE p > n
    <3>1. r[p] = m /\ c[p] = p - n /\ p - n \in 1 .. k /\ seqs[r[p]] = t
      BY <1>6, <2>1
    <3>2. u[p] = t[p - n]
      BY <1>1, <1>3, <2>1
    <3>3. QED
      BY <3>1, <3>2 DEF k
  <2>2. CASE p \in 1 .. n
    <3>1. u[p] = s[p]
      BY <1>1, <1>3, <2>2
    <3>2. QED
      BY <1>4, <1>5, <2>2, <3>1
  <2>3. QED
    BY <1>7, <2>1, <2>2
<1>11. ASSUME NEW p \in 1 .. n + k, NEW q \in 1 .. n + k, p < q
       PROVE  r[p] < r[q] \/ (r[p] = r[q] /\ c[p] < c[q])
  <2>1. CASE p > n
    <3>1. q > n
      BY <1>1, <1>11, <2>1
    <3>2. r[p] = m /\ c[p] = p - n /\ r[q] = m /\ c[q] = q - n
      BY <1>6, <2>1, <3>1
    <3>3. QED
      BY <1>1, <1>11, <3>2
  <2>2. CASE p \in 1 .. n /\ q > n
    <3>1. r[q] = m /\ r[p] \in 1 .. m - 1
      BY <1>5, <1>6, <1>8, <2>2
    <3>2. QED
      BY <3>1
  <2>3. CASE p \in 1 .. n /\ q \in 1 .. n
    BY <1>4, <1>5, <1>11, <2>3
  <2>4. QED
    BY <1>7, <2>1, <2>2, <2>3
<1>12. ASSUME NEW i \in 1 .. m, NEW j \in 1 .. Len(seqs[i])
       PROVE  \E p \in 1 .. n + k : r[p] = i /\ c[p] = j
  <2>1. CASE i = m
    <3>1. j \in 1 .. k
      BY <2>1 DEF k
    <3>2. n + j \in 1 .. n + k /\ n + j > n /\ (n + j) - n = j
      BY <1>1, <3>1
    <3>3. r[n + j] = m /\ c[n + j] = j
      BY <1>6, <3>2
    <3>4. QED
      BY <2>1, <3>2, <3>3
  <2>2. CASE i # m
    <3>1. i \in 1 .. m - 1
      BY <2>2
    <3>2. PICK p \in 1 .. n : row[p] = i /\ col[p] = j
      BY <1>4, <3>1
    <3>3. QED
      BY <1>5, <3>2
  <2>3. QED
    BY <2>1, <2>2
<1>13. PlacesOf(r, c, u, seqs, m)
  BY <1>2, <1>9, <1>10, <1>11, <1>12 DEF PlacesOf
<1>14. QED
  BY <1>13 DEF u

\* What is put one after the other stands where it stood, and nothing else does.
LEMMA FlatPlaces ==
  ASSUME NEW S, NEW seqs \in Seq(Seq(S))
  PROVE  /\ FlattenSeq(seqs) \in Seq(S)
         /\ \E row, col : PlacesOf(row, col, FlattenSeq(seqs), seqs, Len(seqs))
<1> DEFINE n == Len(seqs)
<1>1. n \in Nat /\ \A i \in 1 .. n : seqs[i] \in Seq(S)
  BY LenProperties, ElementOfSeq
<1>2. PICK f \in [0 .. n -> Seq(S)] :
        f[0] = <<>> /\ (\A i \in 1 .. n : f[i] = f[i - 1] \o seqs[i]) /\ FlattenSeq(seqs) = f[n]
  BY FlattenIs
<1> HIDE DEF n
<1> DEFINE T == {m \in 0 .. n : \E row, col : PlacesOf(row, col, f[m], seqs, m)}
<1>3. 0 \in T
  <2> DEFINE z == [p \in 1 .. 0 |-> 0]
  <2>1. Len(f[0]) = 0 /\ \A p \in 1 .. 0 : FALSE
    BY <1>2
  <2>2. z \in [1 .. 0 -> 1 .. 0] /\ z \in [1 .. 0 -> Nat]
    BY <2>1
  <2> HIDE DEF z
  <2>3. PlacesOf(z, z, f[0], seqs, 0)
    BY <2>1, <2>2 DEF PlacesOf
  <2>4. QED
    BY <1>1, <2>3
<1>4. ASSUME NEW m \in 1 .. n, m - 1 \in T PROVE m \in T
  <2>1. PICK row, col : PlacesOf(row, col, f[m - 1], seqs, m - 1)
    BY <1>4
  <2>2. f[m - 1] \in Seq(S) /\ seqs[m] \in Seq(S) /\ m \in Nat \ {0} /\ m \in 0 .. n
    BY <1>1
  <2>3. \E r, c : PlacesOf(r, c, f[m - 1] \o seqs[m], seqs, m)
    BY <2>1, <2>2, PlacesMore
  <2>4. f[m] = f[m - 1] \o seqs[m]
    BY <1>2
  <2>5. \E r, c : PlacesOf(r, c, f[m], seqs, m)
    BY <2>3, <2>4
  <2>6. QED
    BY <2>2, <2>5
<1> HIDE DEF T
<1>5. n \in T
  <2>1. \A i \in 0 .. n : i \in T
    BY <1>1, <1>3, <1>4, UpTo
  <2>2. QED
    BY <1>1, <2>1
<1>6. QED
  BY <1>1, <1>2, <1>5 DEF n, T

-----------------------------------------------------------------------------

LEMMA AscendingIs ==
  ASSUME NEW S, S \subseteq Int, IsFiniteSet(S)
  PROVE  /\ Cardinality(S) \in Nat
         /\ Ascending(S) \in [1 .. Cardinality(S) -> S]
         /\ \A x \in S : \E n \in 1 .. Cardinality(S) : Ascending(S)[n] = x
         /\ \A m, n \in 1 .. Cardinality(S) : m < n => Ascending(S)[m] < Ascending(S)[n]
<1> DEFINE W == {p \in S \X S : p[1] < p[2]}
<1>1. \A x, y \in S : <<x, y>> \in W <=> x < y
  OBVIOUS
<1>2. \A x, y \in S : x \in Int /\ y \in Int
  OBVIOUS
<1>3. Ascending(S) = Ranked(S, W)
  BY DEF Ascending
<1> HIDE DEF W
<1>4. StrictOrder(S, W)
  BY <1>1, <1>2 DEF StrictOrder
<1>5. /\ Cardinality(S) \in Nat
      /\ Ranked(S, W) \in [1 .. Cardinality(S) -> S]
      /\ \A x \in S : \E n \in 1 .. Cardinality(S) : Ranked(S, W)[n] = x
      /\ \A m, n \in 1 .. Cardinality(S) : m < n => <<Ranked(S, W)[m], Ranked(S, W)[n]>> \in W
  BY <1>4, RankedIs DEF Ranks
<1>6. \A m, n \in 1 .. Cardinality(S) : m < n => Ranked(S, W)[m] < Ranked(S, W)[n]
  BY <1>1, <1>5
<1>7. QED
  BY <1>3, <1>5, <1>6

\* Numbers in order are in order already.
LEMMA RankedSame ==
  ASSUME NEW n \in Nat, NEW W, \A i, j \in 1 .. n : <<i, j>> \in W <=> i < j
  PROVE  \A i \in 1 .. n : Ranked(1 .. n, W)[i] = i
<1> SUFFICES ASSUME NEW i \in 1 .. n PROVE Ranked(1 .. n, W)[i] = i
  OBVIOUS
<1>1. Cardinality(1 .. n) = n
  BY FS_Interval
<1>2. ASSUME NEW x \in 1 .. n
      PROVE  Cardinality({y \in 1 .. n : <<y, x>> \in W}) = x - 1
  <2>1. {y \in 1 .. n : <<y, x>> \in W} = 1 .. x - 1
    OBVIOUS
  <2>2. Cardinality(1 .. x - 1) = x - 1
    BY FS_Interval
  <2>3. QED
    BY <2>1, <2>2
<1>3. Ranked(1 .. n, W)[i] = CHOOSE x \in 1 .. n : Cardinality({y \in 1 .. n : <<y, x>> \in W}) = i - 1
  BY <1>1 DEF Ranked
<1>4. \A x \in 1 .. n : Cardinality({y \in 1 .. n : <<y, x>> \in W}) = i - 1 <=> x = i
  BY <1>2
<1>5. QED
  BY <1>3, <1>4

LEMMA SortedSame ==
  ASSUME NEW s \in Seq([start : Int, end : Int, stops : BOOLEAN]),
         \A i, j \in 1 .. Len(s) : i < j => s[i].start <= s[j].start
  PROVE  Sorted(s, LAMBDA v, w : v.start < w.start) = s
<1> DEFINE n == Len(s)
<1> DEFINE D == DOMAIN s
<1> DEFINE W == {p \in D \X D : s[p[1]].start < s[p[2]].start
                               \/ (~(s[p[2]].start < s[p[1]].start) /\ p[1] < p[2])}
<1>1. n \in Nat /\ DOMAIN s = 1 .. n /\ \A i \in 1 .. n : s[i].start \in Int
  <2>1. n \in Nat /\ DOMAIN s = 1 .. n /\ \A i \in 1 .. n : s[i] \in [start : Int, end : Int, stops : BOOLEAN]
    BY LenProperties, ElementOfSeq
  <2>2. QED
    BY <2>1
<1>2. Sorted(s, LAMBDA v, w : v.start < w.start) = [i \in D |-> s[Ranked(D, W)[i]]]
  BY DEF Sorted
<1>3. \A i, j \in 1 .. n :
        <<i, j>> \in W <=> s[i].start < s[j].start \/ (~(s[j].start < s[i].start) /\ i < j)
  BY <1>1
<1> HIDE DEF W
<1>4. ASSUME NEW i \in 1 .. n, NEW j \in 1 .. n PROVE <<i, j>> \in W <=> i < j
  <2>1. s[i].start \in Int /\ s[j].start \in Int /\ (i < j => s[i].start <= s[j].start)
        /\ (j < i => s[j].start <= s[i].start)
    BY <1>1
  <2>2. <<i, j>> \in W <=> s[i].start < s[j].start \/ (~(s[j].start < s[i].start) /\ i < j)
    BY <1>3
  <2> HIDE DEF n
  <2>3. CASE i < j
    <3>1. ~(s[j].start < s[i].start)
      BY <2>1, <2>3
    <3>2. QED
      BY <2>2, <2>3, <3>1
  <2>4. CASE i = j
    BY <2>1, <2>2, <2>4
  <2>5. CASE j < i
    <3>1. s[j].start <= s[i].start /\ ~(i < j)
      BY <1>1, <2>1, <2>5
    <3>2. ~(s[i].start < s[j].start)
      BY <2>1, <3>1
    <3>3. QED
      BY <2>2, <3>1, <3>2
  <2>6. i < j \/ i = j \/ j < i
    BY <1>1
  <2>7. QED
    BY <2>3, <2>4, <2>5, <2>6
<1> HIDE DEF n
<1>5. \A i \in 1 .. n : Ranked(1 .. n, W)[i] = i
  BY <1>1, <1>4, RankedSame
<1>6. [i \in 1 .. n |-> s[Ranked(1 .. n, W)[i]]] = [i \in 1 .. n |-> s[i]]
  BY <1>5
<1>7. [i \in 1 .. n |-> s[i]] = s
  BY <1>1
<1>8. QED
  BY <1>1, <1>2, <1>6, <1>7

-----------------------------------------------------------------------------

Word == [start : Int, end : Int, stops : BOOLEAN]
Piece == [start : Int, end : Int, words : Seq(Word)]

\* The words ws are cut after the numbers of ends, of which the first is nothing and the
\* last all of them, into n pieces.
CutAt(ends, n, ws, pieces) ==
  /\ n \in Nat \ {0} /\ pieces \in Seq(Piece) /\ Len(pieces) = n
  /\ ends \in [1 .. n + 1 -> 0 .. Len(ws)]
  /\ \A i, j \in 1 .. n + 1 : i < j => ends[i] < ends[j]
  /\ \A i \in 1 .. n : /\ pieces[i].words = SubSeq(ws, ends[i] + 1, ends[i + 1])
                       /\ pieces[i].start = ws[ends[i] + 1].start
                       /\ pieces[i].end = ws[ends[i + 1]].end
  /\ \A k \in 1 .. Len(ws) : \E i \in 1 .. n : ends[i] < k /\ k <= ends[i + 1]

\* Increasing numbers from 0 to the last have every other between two of them.
LEMMA Between ==
  ASSUME NEW n \in Nat \ {0}, NEW m \in Nat, NEW ends \in [1 .. n + 1 -> 0 .. m],
         ends[1] = 0, ends[n + 1] = m, NEW k \in 1 .. m
  PROVE  \E i \in 1 .. n : ends[i] < k /\ k <= ends[i + 1]
<1> DEFINE T == {i \in 1 .. n + 1 : k <= ends[i]}
<1>1. T \subseteq Nat /\ n + 1 \in T
  OBVIOUS
<1>2. PICK i \in T : \A y \in T : i <= y
  BY <1>1, LeastNatural
<1>3. i # 1 /\ i \in 1 .. n + 1 /\ k <= ends[i]
  OBVIOUS
<1>4. i - 1 \in 1 .. n /\ i - 1 \in 1 .. n + 1 /\ ~(i <= i - 1) /\ (i - 1) + 1 = i
  BY <1>3
<1>5. i - 1 \notin T
  BY <1>2, <1>4
<1>6. ends[i - 1] < k
  BY <1>4, <1>5
<1>7. QED
  BY <1>3, <1>4, <1>6

LEMMA CutIs ==
  ASSUME NEW ws \in Seq(Word), ws # <<>>, NEW C, C \subseteq 1 .. Len(ws)
  PROVE  \E ends, n : CutAt(ends, n, ws, Cut(ws, C))
<1> DEFINE K == Len(ws)
<1> DEFINE E == C \cup {0, K}
<1> DEFINE N == Cardinality(E)
<1> DEFINE ends == Ascending(E)
<1> DEFINE pieces == Cut(ws, C)
<1>1. K \in Nat \ {0} /\ \A i \in 1 .. K : ws[i] \in Word
  BY LenProperties, ElementOfSeq, EmptySeq
<1> HIDE DEF K
<1>2. IsFiniteSet(E) /\ E \subseteq Int /\ E \subseteq 0 .. K
  <2>1. E \subseteq 0 .. K
    <3>1. C \subseteq 1 .. K
      BY DEF K
    <3>2. QED
      BY <1>1, <3>1
  <2>2. IsFiniteSet(0 .. K)
    BY <1>1, FS_Interval
  <2>3. QED
    BY <2>1, <2>2, FS_Subset
<1>3. 0 \in E /\ K \in E
  OBVIOUS
<1> HIDE DEF E
<1>4. /\ N \in Nat /\ ends \in [1 .. N -> E]
      /\ \A x \in E : \E n \in 1 .. N : ends[n] = x
      /\ \A m, n \in 1 .. N : m < n => ends[m] < ends[n]
  BY <1>2, AscendingIs
<1>5. pieces = [i \in 1 .. Len(ends) - 1 |->
                  LET piece == SubSeq(ws, ends[i] + 1, ends[i + 1])
                  IN [start |-> Head(piece).start, end |-> Last(piece).end, words |-> piece]]
  BY DEF Cut, E, K
<1> HIDE DEF N, ends, pieces
<1>6. ends \in Seq(E) /\ Len(ends) = N
  <2>1. ends \in Seq(E)
    BY <1>4, IsASeq
  <2>2. DOMAIN ends = 1 .. N /\ DOMAIN ends = 1 .. Len(ends) /\ Len(ends) \in Nat
    BY <1>4, <2>1, LenProperties
  <2>3. QED
    BY <1>4, <2>1, <2>2
<1>7. PICK a \in 1 .. N : ends[a] = 0
  BY <1>3, <1>4
<1>8. PICK b \in 1 .. N : ends[b] = K
  BY <1>3, <1>4
<1>9. \A m \in 1 .. N : ends[m] \in 0 .. K
  BY <1>2, <1>4
<1>10. 1 \in 1 .. N /\ N \in 1 .. N
  BY <1>4, <1>7
<1>11. ends[1] = 0
  <2>1. CASE a = 1
    BY <1>7, <2>1
  <2>2. CASE a # 1
    <3>1. 1 < a
      BY <2>2
    <3>2. ends[1] < ends[a]
      BY <1>4, <1>10, <3>1
    <3>3. ends[1] \in Nat
      BY <1>9, <1>10
    <3>4. QED
      BY <1>7, <3>2, <3>3
  <2>3. QED
    BY <2>1, <2>2
<1>12. ends[N] = K
  <2>1. CASE b = N
    BY <1>8, <2>1
  <2>2. CASE b # N
    <3>1. b < N
      BY <1>4, <2>2
    <3>2. ends[b] < ends[N]
      BY <1>4, <1>10, <3>1
    <3>3. ends[N] \in 0 .. K
      BY <1>9, <1>10
    <3>4. QED
      BY <1>1, <1>8, <3>2, <3>3
  <2>3. QED
    BY <2>1, <2>2
<1>13. N # 1
  BY <1>1, <1>11, <1>12
<1> DEFINE n == N - 1
<1>14. n \in Nat \ {0} /\ n + 1 = N
  BY <1>4, <1>10, <1>13
<1> HIDE DEF n
<1>15. ends \in [1 .. n + 1 -> 0 .. K]
  BY <1>2, <1>4, <1>14
<1>16. \A k \in 1 .. K : \E i \in 1 .. n : ends[i] < k /\ k <= ends[i + 1]
  BY <1>1, <1>11, <1>12, <1>14, <1>15, Between
<1>17. ASSUME NEW i \in 1 .. n
       PROVE  /\ pieces[i] \in Piece
              /\ pieces[i].words = SubSeq(ws, ends[i] + 1, ends[i + 1])
              /\ pieces[i].start = ws[ends[i] + 1].start
              /\ pieces[i].end = ws[ends[i + 1]].end
  <2> DEFINE x == ends[i] + 1
  <2> DEFINE y == ends[i + 1]
  <2> DEFINE piece == SubSeq(ws, x, y)
  <2>1. i \in 1 .. N /\ i + 1 \in 1 .. N /\ i < i + 1 /\ i \in 1 .. Len(ends) - 1
    BY <1>6, <1>14 DEF n
  <2>2. x \in 1 .. K /\ y \in 1 .. K /\ x <= y
    <3>1. ends[i] < ends[i + 1] /\ ends[i] \in 0 .. K /\ ends[i + 1] \in 0 .. K
      BY <1>4, <1>9, <2>1
    <3>2. QED
      BY <1>1, <3>1
  <2>3. pieces[i] = [start |-> Head(piece).start, end |-> Last(piece).end, words |-> piece]
    BY <1>5, <2>1
  <2> HIDE DEF x, y
  <2>4. piece \in Seq(Word) /\ Len(piece) = y - x + 1 /\ \A j \in 1 .. y - x + 1 : piece[j] = ws[x + j - 1]
    BY <1>1, <2>2, SubSeqProperties DEF K
  <2> HIDE DEF piece
  <2>5. piece[1] = ws[x] /\ piece[Len(piece)] = ws[y] /\ Len(piece) \in Nat \ {0}
    <3>1. /\ 1 \in 1 .. y - x + 1 /\ y - x + 1 \in 1 .. y - x + 1 /\ y - x + 1 \in Nat \ {0}
          /\ x + 1 - 1 = x /\ x + (y - x + 1) - 1 = y
      BY <2>2
    <3>2. piece[1] = ws[x]
      BY <2>4, <3>1
    <3>3. piece[Len(piece)] = ws[y]
      BY <2>4, <3>1
    <3>4. QED
      BY <2>4, <3>1, <3>2, <3>3
  <2>6. Head(piece) = piece[1] /\ Last(piece) = piece[Len(piece)]
    <3>1. Head(piece) = piece[1]
      BY <2>4, <2>5
    <3>2. QED
      BY <3>1 DEF Last
  <2>7. ws[x].start \in Int /\ ws[y].end \in Int
    BY <1>1, <2>2 DEF Word
  <2>8. pieces[i] = [start |-> ws[x].start, end |-> ws[y].end, words |-> piece]
    BY <2>3, <2>5, <2>6
  <2>9. /\ pieces[i] \in Piece /\ pieces[i].words = piece
        /\ pieces[i].start = ws[x].start /\ pieces[i].end = ws[y].end
    BY <2>4, <2>7, <2>8 DEF Piece
  <2>10. QED
    BY <2>9 DEF x, y, piece
<1>18. pieces \in Seq(Piece) /\ Len(pieces) = n
  <2>1. DOMAIN pieces = 1 .. n
    BY <1>5, <1>6 DEF n
  <2>2. pieces = [i \in 1 .. n |-> pieces[i]]
    BY <1>5, <2>1
  <2>3. pieces \in [1 .. n -> Piece]
    BY <1>17, <2>2
  <2>4. pieces \in Seq(Piece)
    BY <1>14, <2>3, IsASeq
  <2>5. QED
    BY <1>14, <2>1, <2>4, LenProperties
<1>19. CutAt(ends, n, ws, pieces)
  BY <1>4, <1>14, <1>15, <1>16, <1>17, <1>18 DEF CutAt, K
<1>20. QED
  BY <1>19 DEF pieces

-----------------------------------------------------------------------------

\* Words that are spoken one after the other.
OneByOne(ws) ==
  /\ ws \in Seq(Word)
  /\ \A i \in 1 .. Len(ws) : ws[i].start <= ws[i].end
  /\ \A i, j \in 1 .. Len(ws) : i < j => ws[i].end <= ws[j].start

Lasting == {w \in Word : w.end - w.start > CutTol}

Holds(pieces, w) ==
  \E i \in 1 .. Len(pieces) : \E j \in 1 .. Len(pieces[i].words) : pieces[i].words[j] = w

\* The words of T come in the order spoken, and once.
InTurn(pieces, T) ==
  \A i, r \in 1 .. Len(pieces) :
    \A j \in 1 .. Len(pieces[i].words), k \in 1 .. Len(pieces[r].words) :
      /\ i < r \/ (i = r /\ j < k)
      /\ pieces[i].words[j] \in T /\ pieces[r].words[k] \in T
      => pieces[i].words[j].end <= pieces[r].words[k].start

Kept(ws, pieces) ==
  /\ pieces \in Seq(Piece)
  /\ \A k \in 1 .. Len(ws) : Holds(pieces, ws[k])
  /\ \A w : Holds(pieces, w) => \E k \in 1 .. Len(ws) : w = ws[k]
  /\ InTurn(pieces, Lasting)

LEMMA CutWords ==
  ASSUME NEW ws \in Seq(Word), NEW ends, NEW n, NEW pieces, CutAt(ends, n, ws, pieces),
         NEW i \in 1 .. n
  PROVE  /\ ends[i] \in 0 .. Len(ws) /\ ends[i + 1] \in 0 .. Len(ws) /\ ends[i] < ends[i + 1]
         /\ pieces[i].words \in Seq(Word)
         /\ Len(pieces[i].words) = ends[i + 1] - ends[i]
         /\ \A j \in 1 .. ends[i + 1] - ends[i] : pieces[i].words[j] = ws[ends[i] + j]
         /\ \A k \in 1 .. Len(ws) : ends[i] < k /\ k <= ends[i + 1] =>
              k - ends[i] \in 1 .. Len(pieces[i].words) /\ pieces[i].words[k - ends[i]] = ws[k]
<1> DEFINE K == Len(ws)
<1>1. K \in Nat /\ n \in Nat
  BY LenProperties DEF CutAt
<1>2. i \in 1 .. n + 1 /\ i + 1 \in 1 .. n + 1 /\ i < i + 1
  BY <1>1
<1>3. ends[i] \in 0 .. K /\ ends[i + 1] \in 0 .. K /\ ends[i] < ends[i + 1]
  BY <1>2 DEF CutAt
<1> DEFINE x == ends[i]
<1> DEFINE y == ends[i + 1]
<1>4. pieces[i].words = SubSeq(ws, x + 1, y)
  BY DEF CutAt
<1> DEFINE p == pieces[i].words
<1>5. x \in Nat /\ y \in Nat /\ x + 1 \in 1 .. K /\ y \in 1 .. K /\ x + 1 <= y
  BY <1>1, <1>3
<1> HIDE DEF x, y
<1>6. /\ SubSeq(ws, x + 1, y) \in Seq(Word)
      /\ Len(SubSeq(ws, x + 1, y)) = y - (x + 1) + 1
      /\ \A j \in 1 .. y - (x + 1) + 1 : SubSeq(ws, x + 1, y)[j] = ws[x + 1 + j - 1]
  BY <1>1, <1>5, SubSeqProperties
<1>7. y - (x + 1) + 1 = y - x /\ \A j \in Int : x + 1 + j - 1 = x + j
  BY <1>5
<1>8. p \in Seq(Word) /\ Len(p) = y - x /\ \A j \in 1 .. y - x : p[j] = ws[x + j]
  <2> DEFINE q == SubSeq(ws, x + 1, y)
  <2>1. p = q
    BY <1>4
  <2>2. q \in Seq(Word) /\ Len(q) = y - x /\ \A j \in 1 .. y - x : q[j] = ws[x + 1 + j - 1]
    BY <1>6, <1>7
  <2> HIDE DEF p, q
  <2>3. \A j \in 1 .. y - x : q[j] = ws[x + j]
    <3>1. x \in Int /\ y \in Int
      BY <1>5, <1>7
    <3>2. \A j \in 1 .. y - x : x + 1 + j - 1 = x + j
      BY <3>1
    <3>3. QED
      BY <2>2, <3>2
  <2>4. QED
    BY <2>1, <2>2, <2>3
<1> HIDE DEF p
<1>9. ASSUME NEW k \in 1 .. K, x < k, k <= y PROVE k - x \in 1 .. y - x /\ p[k - x] = ws[k]
  <2>1. k - x \in 1 .. y - x /\ x + (k - x) = k
    BY <1>5, <1>9
  <2>2. QED
    BY <1>8, <2>1
<1>10. QED
  BY <1>3, <1>8, <1>9 DEF p, x, y

LEMMA Below ==
  ASSUME NEW a \in Nat, NEW j \in Nat, NEW b \in Nat, NEW c \in Nat, NEW k \in Nat \ {0},
         a + j <= b, b <= c
  PROVE  a + j < c + k
OBVIOUS

LEMMA CutKept ==
  ASSUME NEW ws, OneByOne(ws), ws # <<>>, NEW C, C \subseteq 1 .. Len(ws)
  PROVE  Kept(ws, Cut(ws, C))
<1> DEFINE pieces == Cut(ws, C)
<1>1. ws \in Seq(Word)
  BY DEF OneByOne
<1>2. PICK ends, n : CutAt(ends, n, ws, pieces)
  BY <1>1, CutIs
<1> HIDE DEF pieces
<1>3. n \in Nat /\ pieces \in Seq(Piece) /\ Len(pieces) = n /\ Len(ws) \in Nat
  BY <1>1, <1>2, LenProperties DEF CutAt
<1>4. ASSUME NEW k \in 1 .. Len(ws) PROVE Holds(pieces, ws[k])
  <2>1. PICK i \in 1 .. n : ends[i] < k /\ k <= ends[i + 1]
    BY <1>2 DEF CutAt
  <2>2. k - ends[i] \in 1 .. Len(pieces[i].words) /\ pieces[i].words[k - ends[i]] = ws[k]
    BY <1>1, <1>2, <2>1, CutWords
  <2>3. QED
    BY <1>3, <2>2 DEF Holds
<1>5. ASSUME NEW i \in 1 .. n, NEW j \in 1 .. Len(pieces[i].words)
      PROVE  /\ ends[i] \in Nat /\ ends[i + 1] \in Nat
             /\ ends[i] + j \in 1 .. Len(ws) /\ ends[i] + j <= ends[i + 1]
             /\ pieces[i].words[j] = ws[ends[i] + j]
  <2>1. /\ ends[i] \in 0 .. Len(ws) /\ ends[i + 1] \in 0 .. Len(ws)
        /\ Len(pieces[i].words) = ends[i + 1] - ends[i]
    BY <1>1, <1>2, CutWords
  <2>2. j \in 1 .. ends[i + 1] - ends[i]
    BY <2>1
  <2>3. pieces[i].words[j] = ws[ends[i] + j]
    BY <1>1, <1>2, <2>2, CutWords
  <2>4. Len(ws) \in Nat
    BY <1>3
  <2>5. ends[i] \in Nat /\ ends[i + 1] \in Nat
    BY <2>1, <2>4
  <2>6. ends[i] + j \in 1 .. Len(ws) /\ ends[i] + j <= ends[i + 1]
    BY <2>1, <2>2, <2>4, <2>5
  <2>7. QED
    BY <2>3, <2>5, <2>6
<1>6. ASSUME NEW w, Holds(pieces, w) PROVE \E k \in 1 .. Len(ws) : w = ws[k]
  <2>1. PICK i \in 1 .. n : \E j \in 1 .. Len(pieces[i].words) : pieces[i].words[j] = w
    BY <1>3, <1>6 DEF Holds
  <2>2. PICK j \in 1 .. Len(pieces[i].words) : pieces[i].words[j] = w
    BY <2>1
  <2>3. QED
    BY <1>5, <2>2
<1>7. ASSUME NEW i \in 1 .. n, NEW r \in 1 .. n, NEW j \in 1 .. Len(pieces[i].words),
             NEW k \in 1 .. Len(pieces[r].words), i < r \/ (i = r /\ j < k)
      PROVE  pieces[i].words[j].end <= pieces[r].words[k].start
  <2>1. /\ ends[i] \in Nat /\ ends[i + 1] \in Nat
        /\ ends[i] + j \in 1 .. Len(ws) /\ ends[i] + j <= ends[i + 1]
        /\ pieces[i].words[j] = ws[ends[i] + j]
    BY <1>5
  <2>2. ends[r] \in Nat /\ ends[r] + k \in 1 .. Len(ws) /\ pieces[r].words[k] = ws[ends[r] + k]
    BY <1>5
  <2>3. i < r => ends[i + 1] <= ends[r]
    <3>1. ASSUME i < r PROVE ends[i + 1] <= ends[r]
      <4>1. i + 1 \in 1 .. n + 1 /\ r \in 1 .. n + 1 /\ (i + 1 = r \/ i + 1 < r)
        BY <1>3, <3>1
      <4>2. i + 1 < r => ends[i + 1] < ends[r]
        BY <1>2, <4>1 DEF CutAt
      <4>3. QED
        BY <2>1, <2>2, <4>1, <4>2
    <3>2. QED
      BY <3>1
  <2>4. j \in Nat /\ k \in Nat \ {0}
    <3>1. Len(pieces[i].words) \in Int /\ Len(pieces[r].words) \in Int
      BY <1>1, <1>2, CutWords, LenProperties
    <3>2. QED
      BY <3>1
  <2>5. ends[i] + j < ends[r] + k
    <3>1. CASE i < r
      <4>1. /\ ends[i + 1] \in Nat /\ ends[r] \in Nat /\ k \in Nat \ {0}
            /\ ends[i] + j <= ends[i + 1] /\ ends[i + 1] <= ends[r]
        BY <2>1, <2>2, <2>3, <2>4, <3>1
      <4>2. ends[i] \in Nat /\ j \in Nat
        BY <2>1, <2>4
      <4>3. QED
        BY <4>1, <4>2, Below
    <3>2. CASE i = r /\ j < k
      BY <2>1, <2>2, <2>4, <3>2
    <3>3. QED
      BY <1>7, <3>1, <3>2
  <2>6. ws[ends[i] + j].end <= ws[ends[r] + k].start
    BY <2>1, <2>2, <2>5 DEF OneByOne
  <2>7. QED
    BY <2>1, <2>2, <2>6
<1>8. InTurn(pieces, Lasting)
  BY <1>3, <1>7 DEF InTurn
<1>9. Kept(ws, pieces)
  BY <1>3, <1>4, <1>6, <1>8 DEF Kept
<1>10. QED
  BY <1>9 DEF pieces

LEMMA TimeCuts ==
  ASSUME NEW ws \in Seq(Word), NEW segment
  PROVE  \E C : C \subseteq 1 .. Len(ws) /\ SplitByTime(segment, ws) = Cut(ws, C)
<1> DEFINE silent == {i \in 1 .. Len(ws) - 1 : ws[i + 1].start - ws[i].end >= Gap}
<1> DEFINE n == Max({2, (2 * Length(segment) + MaxLength) \div (2 * MaxLength)})
<1>1. Len(ws) \in Nat /\ DOMAIN ws = 1 .. Len(ws)
  BY LenProperties
<1>2. silent \subseteq 1 .. Len(ws)
  BY <1>1
<1>3. QED
  BY <1>1, <1>2 DEF SplitByTime

\* The words near a piece, in order.
LEMMA CollectedIs ==
  ASSUME NEW ws, OneByOne(ws), NEW piece
  PROVE  /\ OneByOne(Collected(ws, piece))
         /\ \A k \in 1 .. Len(Collected(ws, piece)) : \E m \in 1 .. Len(ws) :
              /\ Collected(ws, piece)[k] = ws[m]
              /\ ws[m].start >= piece.start - CutTol /\ ws[m].end <= piece.end + CutTol
         /\ \A m \in 1 .. Len(ws) :
              ws[m].start >= piece.start - CutTol /\ ws[m].end <= piece.end + CutTol =>
                \E k \in 1 .. Len(Collected(ws, piece)) : Collected(ws, piece)[k] = ws[m]
<1> DEFINE near == {i \in DOMAIN ws : /\ ws[i].start >= piece.start - CutTol
                                      /\ ws[i].end <= piece.end + CutTol}
<1> DEFINE c == Collected(ws, piece)
<1> DEFINE a == Ascending(near)
<1> DEFINE n == Cardinality(near)
<1>1. ws \in Seq(Word) /\ Len(ws) \in Nat /\ DOMAIN ws = 1 .. Len(ws)
  BY LenProperties DEF OneByOne
<1>2. c = [k \in 1 .. n |-> ws[a[k]]]
  BY DEF Collected
<1>3. \A i \in near : /\ i \in 1 .. Len(ws) /\ ws[i].start >= piece.start - CutTol
                      /\ ws[i].end <= piece.end + CutTol
  BY <1>1
<1>4. \A i \in 1 .. Len(ws) : ws[i].start >= piece.start - CutTol /\ ws[i].end <= piece.end + CutTol
        => i \in near
  BY <1>1
<1> HIDE DEF near
<1>5. IsFiniteSet(near) /\ near \subseteq Int
  <2>1. near \in SUBSET (1 .. Len(ws))
    BY <1>3
  <2>2. IsFiniteSet(1 .. Len(ws))
    BY <1>1, FS_Interval
  <2>3. IsFiniteSet(near)
    BY <2>1, <2>2, FS_Subset
  <2>4. QED
    BY <2>1, <2>3
<1>6. /\ n \in Nat /\ a \in [1 .. n -> near]
      /\ \A x \in near : \E k \in 1 .. n : a[k] = x
      /\ \A k, l \in 1 .. n : k < l => a[k] < a[l]
  BY <1>5, AscendingIs
<1> HIDE DEF c, a, n
<1>7. \A k \in 1 .. n : a[k] \in near /\ a[k] \in 1 .. Len(ws) /\ c[k] = ws[a[k]]
  BY <1>2, <1>3, <1>6
<1>8. c \in Seq(Word) /\ Len(c) = n
  <2>1. \A i \in 1 .. Len(ws) : ws[i] \in Word
    BY <1>1, ElementOfSeq
  <2>2. \A k \in 1 .. n : ws[a[k]] \in Word
    BY <1>7, <2>1
  <2>3. c \in [1 .. n -> Word]
    BY <1>2, <2>2
  <2>4. c \in Seq(Word) /\ DOMAIN c = 1 .. n
    BY <1>6, <2>3, IsASeq
  <2>5. QED
    BY <1>6, <2>4, LenProperties
<1>9. OneByOne(c)
  <2>1. \A k \in 1 .. n : c[k].start <= c[k].end
    BY <1>7 DEF OneByOne
  <2>2. ASSUME NEW k \in 1 .. n, NEW l \in 1 .. n, k < l PROVE c[k].end <= c[l].start
    <3>1. a[k] < a[l]
      BY <1>6, <2>2
    <3>2. ws[a[k]].end <= ws[a[l]].start
      BY <1>7, <3>1 DEF OneByOne
    <3>3. QED
      BY <1>7, <3>2
  <2>3. QED
    BY <1>8, <2>1, <2>2 DEF OneByOne
<1>10. ASSUME NEW m \in 1 .. Len(ws), m \in near PROVE \E k \in 1 .. Len(c) : c[k] = ws[m]
  <2>1. PICK k \in 1 .. n : a[k] = m
    BY <1>6, <1>10
  <2>2. QED
    BY <1>7, <1>8, <2>1
<1>11. \A k \in 1 .. Len(c) : \E m \in 1 .. Len(ws) : c[k] = ws[m] /\ m \in near
  BY <1>7, <1>8
<1>12. QED
  BY <1>3, <1>4, <1>9, <1>10, <1>11 DEF c

\* Groups of pieces put one after the other.
LEMMA Joined ==
  ASSUME NEW groups \in Seq(Seq(Piece))
  PROVE  /\ FlattenSeq(groups) \in Seq(Piece)
         /\ \A w : Holds(FlattenSeq(groups), w) <=>
                     \E g \in 1 .. Len(groups) : Holds(groups[g], w)
<1> DEFINE H == FlattenSeq(groups)
<1>1. H \in Seq(Piece) /\ \E row, col : PlacesOf(row, col, H, groups, Len(groups))
  BY FlatPlaces
<1> HIDE DEF H
<1>2. PICK row, col : PlacesOf(row, col, H, groups, Len(groups))
  BY <1>1
<1>3. ASSUME NEW w, Holds(H, w) PROVE \E g \in 1 .. Len(groups) : Holds(groups[g], w)
  <2>1. PICK p \in 1 .. Len(H) : \E j \in 1 .. Len(H[p].words) : H[p].words[j] = w
    BY <1>3 DEF Holds
  <2>2. /\ row[p] \in 1 .. Len(groups) /\ col[p] \in 1 .. Len(groups[row[p]])
        /\ H[p] = groups[row[p]][col[p]]
    BY <1>2 DEF PlacesOf
  <2>3. Holds(groups[row[p]], w)
    BY <2>1, <2>2 DEF Holds
  <2>4. QED
    BY <2>2, <2>3
<1>4. ASSUME NEW w, NEW g \in 1 .. Len(groups), Holds(groups[g], w) PROVE Holds(H, w)
  <2>1. PICK i \in 1 .. Len(groups[g]) : \E j \in 1 .. Len(groups[g][i].words) : groups[g][i].words[j] = w
    BY <1>4 DEF Holds
  <2>2. PICK p \in 1 .. Len(H) : row[p] = g /\ col[p] = i
    BY <1>2 DEF PlacesOf
  <2>3. H[p] = groups[g][i]
    BY <1>2, <2>2 DEF PlacesOf
  <2>4. QED
    BY <2>1, <2>3 DEF Holds
<1>5. QED
  BY <1>1, <1>3, <1>4 DEF H

LEMMA JoinedInTurn ==
  ASSUME NEW groups \in Seq(Seq(Piece)), NEW T,
         \A g \in 1 .. Len(groups) : InTurn(groups[g], T),
         \A g, h \in 1 .. Len(groups) : \A v, w \in T :
           g < h /\ Holds(groups[g], v) /\ Holds(groups[h], w) => v.end <= w.start
  PROVE  InTurn(FlattenSeq(groups), T)
<1> DEFINE H == FlattenSeq(groups)
<1>1. \E row, col : PlacesOf(row, col, H, groups, Len(groups))
  BY FlatPlaces
<1> HIDE DEF H
<1>2. PICK row, col : PlacesOf(row, col, H, groups, Len(groups))
  BY <1>1
<1>3. ASSUME NEW i \in 1 .. Len(H), NEW r \in 1 .. Len(H), NEW j \in 1 .. Len(H[i].words),
             NEW k \in 1 .. Len(H[r].words), i < r \/ (i = r /\ j < k),
             H[i].words[j] \in T, H[r].words[k] \in T
      PROVE  H[i].words[j].end <= H[r].words[k].start
  <2>1. /\ row[i] \in 1 .. Len(groups) /\ col[i] \in 1 .. Len(groups[row[i]])
        /\ H[i] = groups[row[i]][col[i]]
    BY <1>2 DEF PlacesOf
  <2>2. /\ row[r] \in 1 .. Len(groups) /\ col[r] \in 1 .. Len(groups[row[r]])
        /\ H[r] = groups[row[r]][col[r]]
    BY <1>2 DEF PlacesOf
  <2>3. \/ row[i] < row[r]
        \/ row[i] = row[r] /\ (col[i] < col[r] \/ (col[i] = col[r] /\ j < k))
    <3>1. CASE i < r
      <4>1. row[i] < row[r] \/ (row[i] = row[r] /\ col[i] < col[r])
        BY <1>2, <3>1 DEF PlacesOf
      <4>2. QED
        BY <4>1
    <3>2. CASE i = r /\ j < k
      BY <3>2
    <3>3. QED
      BY <1>3, <3>1, <3>2
  <2>4. CASE row[i] < row[r]
    <3>1. Holds(groups[row[i]], H[i].words[j]) /\ Holds(groups[row[r]], H[r].words[k])
      BY <2>1, <2>2 DEF Holds
    <3>2. QED
      BY <1>3, <2>1, <2>2, <2>4, <3>1
  <2>5. CASE row[i] = row[r] /\ (col[i] < col[r] \/ (col[i] = col[r] /\ j < k))
    <3> DEFINE G == groups[row[i]]
    <3>1. InTurn(G, T)
      BY <2>1
    <3>2. H[i] = G[col[i]] /\ H[r] = G[col[r]] /\ col[i] \in 1 .. Len(G) /\ col[r] \in 1 .. Len(G)
      BY <2>1, <2>2, <2>5
    <3> HIDE DEF G
    <3>3. QED
      BY <1>3, <2>5, <3>1, <3>2 DEF InTurn
  <2>6. QED
    BY <2>3, <2>4, <2>5
<1>4. InTurn(H, T)
  BY <1>3 DEF InTurn
<1>5. QED
  BY <1>4 DEF H

\* A piece that is too long is split again, of the words that are found near it: the words
\* that last longer than the tolerance are those of the piece.
LEMMA GroupIs ==
  ASSUME NEW ws, OneByOne(ws), NEW pieces, NEW ends, NEW n, CutAt(ends, n, ws, pieces),
         NEW i \in 1 .. n, NEW group,
         group = IF Length(pieces[i]) > MaxLength
                 THEN SplitByTime(pieces[i], Collected(ws, pieces[i])) ELSE <<pieces[i]>>
  PROVE  /\ group \in Seq(Piece) /\ InTurn(group, Lasting)
         /\ \A k \in 1 .. Len(ws) : ends[i] < k /\ k <= ends[i + 1] => Holds(group, ws[k])
         /\ \A w : Holds(group, w) => \E k \in 1 .. Len(ws) : w = ws[k]
         /\ \A w \in Lasting : Holds(group, w) =>
              \E k \in 1 .. Len(ws) : w = ws[k] /\ ends[i] < k /\ k <= ends[i + 1]
<1> DEFINE x == ends[i]
<1> DEFINE y == ends[i + 1]
<1> DEFINE piece == pieces[i]
<1>1. ws \in Seq(Word) /\ Len(ws) \in Nat /\ CutTol \in Nat
  BY LenProperties, ToleranceAssumption DEF OneByOne
<1>2. /\ x \in 0 .. Len(ws) /\ y \in 0 .. Len(ws) /\ x < y
      /\ piece.words \in Seq(Word) /\ Len(piece.words) = y - x
      /\ \A j \in 1 .. y - x : piece.words[j] = ws[x + j]
      /\ \A k \in 1 .. Len(ws) : x < k /\ k <= y =>
           k - x \in 1 .. Len(piece.words) /\ piece.words[k - x] = ws[k]
  BY <1>1, CutWords
<1>3. n \in Nat /\ piece \in Piece /\ piece.start = ws[x + 1].start /\ piece.end = ws[y].end
  <2>1. n \in Nat /\ pieces \in Seq(Piece) /\ Len(pieces) = n
    BY DEF CutAt
  <2>2. piece \in Piece
    BY <2>1, ElementOfSeq
  <2>3. QED
    BY <2>1, <2>2 DEF CutAt
<1>4. group = IF Length(piece) > MaxLength
              THEN SplitByTime(piece, Collected(ws, piece)) ELSE <<piece>>
  OBVIOUS
<1>5. \A k \in 1 .. Len(ws) : ws[k].start \in Int /\ ws[k].end \in Int /\ ws[k].start <= ws[k].end
  <2>1. \A k \in 1 .. Len(ws) : ws[k] \in Word
    BY <1>1, ElementOfSeq
  <2>2. \A k \in 1 .. Len(ws) : ws[k].start <= ws[k].end
    BY DEF OneByOne
  <2>3. QED
    BY <2>1, <2>2 DEF Word
<1>6. \A k, l \in 1 .. Len(ws) : k < l => ws[k].end <= ws[l].start
  BY DEF OneByOne
<1> HIDE DEF x, y, piece
<1>7. x + 1 \in 1 .. Len(ws) /\ y \in 1 .. Len(ws) /\ x \in Int
  BY <1>1, <1>2
<1>8. CASE Length(piece) > MaxLength
  <2> DEFINE c == Collected(ws, piece)
  <2>1. /\ OneByOne(c)
        /\ \A k \in 1 .. Len(c) : \E m \in 1 .. Len(ws) :
             c[k] = ws[m] /\ ws[m].start >= piece.start - CutTol /\ ws[m].end <= piece.end + CutTol
        /\ \A m \in 1 .. Len(ws) :
             ws[m].start >= piece.start - CutTol /\ ws[m].end <= piece.end + CutTol =>
               \E k \in 1 .. Len(c) : c[k] = ws[m]
    BY CollectedIs
  <2> HIDE DEF c
  <2>2. ASSUME NEW k \in 1 .. Len(ws), x < k, k <= y PROVE \E m \in 1 .. Len(c) : c[m] = ws[k]
    <3>1. ws[k].start >= piece.start
      <4>1. CASE k = x + 1
        BY <1>3, <1>5, <4>1
      <4>2. CASE k # x + 1
        <5>1. x + 1 < k
          BY <1>7, <2>2, <4>2
        <5>2. ws[x + 1].end <= ws[k].start
          BY <1>6, <1>7, <5>1
        <5>3. QED
          BY <1>3, <1>5, <1>7, <5>2
      <4>3. QED
        BY <4>1, <4>2
    <3>2. ws[k].end <= piece.end
      <4>1. CASE k = y
        BY <1>3, <1>5, <4>1
      <4>2. CASE k # y
        <5>1. k < y
          BY <1>7, <2>2, <4>2
        <5>2. ws[k].end <= ws[y].start
          BY <1>6, <1>7, <5>1
        <5>3. QED
          BY <1>3, <1>5, <1>7, <5>2
      <4>3. QED
        BY <4>1, <4>2
    <3>3. piece.start \in Int /\ piece.end \in Int
      BY <1>3, <1>5, <1>7
    <3>4. ws[k].start >= piece.start - CutTol /\ ws[k].end <= piece.end + CutTol
      BY <1>1, <1>5, <3>1, <3>2, <3>3
    <3>5. QED
      BY <2>1, <3>4
  <2>3. c # <<>> /\ c \in Seq(Word)
    <3>1. PICK m \in 1 .. Len(c) : c[m] = ws[y]
      BY <1>2, <1>7, <2>2
    <3>2. c \in Seq(Word)
      BY <2>1 DEF OneByOne
    <3>3. c # <<>>
      BY <3>1, <3>2, EmptySeq
    <3>4. QED
      BY <3>2, <3>3
  <2>4. Kept(c, group)
    <3>1. PICK C : C \subseteq 1 .. Len(c) /\ SplitByTime(piece, c) = Cut(c, C)
      BY <2>3, TimeCuts
    <3>2. group = Cut(c, C)
      BY <1>4, <1>8, <3>1 DEF c
    <3>3. QED
      BY <2>1, <2>3, <3>1, <3>2, CutKept
  <2>5. group \in Seq(Piece) /\ InTurn(group, Lasting)
    BY <2>4 DEF Kept
  <2>6. ASSUME NEW k \in 1 .. Len(ws), x < k, k <= y PROVE Holds(group, ws[k])
    <3>1. PICK m \in 1 .. Len(c) : c[m] = ws[k]
      BY <2>2, <2>6
    <3>2. Holds(group, c[m])
      BY <2>4 DEF Kept
    <3>3. QED
      BY <3>1, <3>2
  <2>7. ASSUME NEW w, Holds(group, w)
        PROVE  \E m \in 1 .. Len(ws) :
                 w = ws[m] /\ ws[m].start >= piece.start - CutTol /\ ws[m].end <= piece.end + CutTol
    <3>1. PICK k \in 1 .. Len(c) : w = c[k]
      BY <2>4, <2>7 DEF Kept
    <3>2. QED
      BY <2>1, <3>1
  <2>8. ASSUME NEW w \in Lasting, Holds(group, w)
        PROVE  \E k \in 1 .. Len(ws) : w = ws[k] /\ x < k /\ k <= y
    <3>1. PICK m \in 1 .. Len(ws) :
            w = ws[m] /\ ws[m].start >= piece.start - CutTol /\ ws[m].end <= piece.end + CutTol
      BY <2>7, <2>8
    <3>2. ws[m].end - ws[m].start > CutTol
      BY <2>8, <3>1 DEF Lasting
    <3>3. ASSUME m < x + 1 PROVE FALSE
      <4>1. ws[m].end <= piece.start
        BY <1>3, <1>6, <1>7, <3>3
      <4>2. piece.start \in Int
        BY <1>3, <1>5, <1>7
      <4>3. QED
        BY <1>1, <1>5, <3>1, <3>2, <4>1, <4>2
    <3>4. ASSUME y < m PROVE FALSE
      <4>1. piece.end <= ws[m].start
        BY <1>3, <1>6, <1>7, <3>4
      <4>2. piece.end \in Int
        BY <1>3, <1>5, <1>7
      <4>3. QED
        BY <1>1, <1>5, <3>1, <3>2, <4>1, <4>2
    <3>5. x < m /\ m <= y
      BY <1>7, <3>3, <3>4
    <3>6. QED
      BY <3>1, <3>5
  <2>9. QED
    BY <2>5, <2>6, <2>7, <2>8 DEF x, y
<1>9. CASE ~(Length(piece) > MaxLength)
  <2>1. group = <<piece>>
    BY <1>4, <1>9
  <2>2. group \in Seq(Piece) /\ Len(group) = 1 /\ group[1] = piece
    <3>1. <<piece>> \in Seq(Piece)
      BY <1>3
    <3>2. Len(<<piece>>) = 1 /\ <<piece>>[1] = piece
      OBVIOUS
    <3>3. QED
      BY <2>1, <3>1, <3>2
  <2>3. \A w : Holds(group, w) <=> \E j \in 1 .. y - x : piece.words[j] = w
    <3>1. \A g \in 1 .. 1 : g = 1
      OBVIOUS
    <3>2. 1 \in 1 .. 1
      OBVIOUS
    <3> SUFFICES ASSUME NEW w PROVE Holds(group, w) <=> \E j \in 1 .. y - x : piece.words[j] = w
      OBVIOUS
    <3>3. Holds(group, w) <=> \E a \in 1 .. 1 : \E j \in 1 .. Len(group[a].words) : group[a].words[j] = w
      BY <2>2 DEF Holds
    <3>4. Holds(group, w) <=> \E j \in 1 .. Len(group[1].words) : group[1].words[j] = w
      BY <3>1, <3>2, <3>3
    <3>5. QED
      BY <1>2, <2>2, <3>4
  <2>4. \A j \in 1 .. y - x : x + j \in 1 .. Len(ws) /\ x < x + j /\ x + j <= y
    BY <1>1, <1>2
  <2>5. ASSUME NEW w, Holds(group, w)
        PROVE  \E k \in 1 .. Len(ws) : w = ws[k] /\ x < k /\ k <= y
    <3>1. PICK j \in 1 .. y - x : piece.words[j] = w
      BY <2>3, <2>5
    <3>2. w = ws[x + j]
      BY <1>2, <3>1
    <3>3. QED
      BY <2>4, <3>2
  <2>6. InTurn(group, Lasting)
    <3>1. ASSUME NEW a \in 1 .. 1, NEW r \in 1 .. 1,
                 NEW j \in 1 .. Len(group[a].words), NEW k \in 1 .. Len(group[r].words),
                 a < r \/ (a = r /\ j < k)
          PROVE  group[a].words[j].end <= group[r].words[k].start
      <4>1. a = 1 /\ r = 1 /\ j < k
        BY <3>1
      <4>2. j \in 1 .. y - x /\ k \in 1 .. y - x
        BY <1>2, <2>2, <4>1
      <4>3. x + j < x + k
        BY <1>7, <4>1, <4>2
      <4>4. ws[x + j].end <= ws[x + k].start
        BY <1>6, <2>4, <4>2, <4>3
      <4>5. group[a].words[j] = ws[x + j] /\ group[r].words[k] = ws[x + k]
        BY <1>2, <2>2, <4>1, <4>2
      <4>6. QED
        BY <4>4, <4>5
    <3>2. QED
      BY <2>2, <3>1 DEF InTurn
  <2>7. ASSUME NEW k \in 1 .. Len(ws), x < k, k <= y PROVE Holds(group, ws[k])
    BY <1>2, <2>3, <2>7
  <2>8. QED
    BY <2>2, <2>5, <2>6, <2>7 DEF x, y
<1>10. QED
  BY <1>8, <1>9

LEMMA SentenceCutsAre ==
  ASSUME NEW ws \in Seq(Word)
  PROVE  SentenceCuts(ws) \subseteq 1 .. Len(ws)
<1>1. Len(ws) \in Nat
  BY LenProperties
<1>2. SentenceCuts(ws) \subseteq 2 .. Len(ws)
  BY DEF SentenceCuts
<1>3. QED
  BY <1>1, <1>2

\* What is split keeps its words.
LEMMA SplitKept ==
  ASSUME NEW ws, OneByOne(ws), ws # <<>>, NEW segment
  PROVE  Kept(ws, SplitByWords(segment, ws))
<1> DEFINE cuts == SentenceCuts(ws)
<1> DEFINE pieces == Cut(ws, cuts)
<1> DEFINE groups == [i \in DOMAIN pieces |->
                        IF Length(pieces[i]) > MaxLength
                        THEN SplitByTime(pieces[i], Collected(ws, pieces[i]))
                        ELSE <<pieces[i]>>]
<1>1. ws \in Seq(Word) /\ Len(ws) \in Nat
  BY LenProperties DEF OneByOne
<1>2. CASE cuts = {}
  <2>1. SplitByWords(segment, ws) = SplitByTime(segment, ws)
    BY <1>2 DEF SplitByWords
  <2>2. PICK C : C \subseteq 1 .. Len(ws) /\ SplitByTime(segment, ws) = Cut(ws, C)
    BY <1>1, TimeCuts
  <2>3. QED
    BY <2>1, <2>2, CutKept
<1>3. CASE cuts # {}
  <2>1. SplitByWords(segment, ws) = FlattenSeq(groups)
    BY <1>3 DEF SplitByWords
  <2>2. cuts \subseteq 1 .. Len(ws)
    BY <1>1, SentenceCutsAre
  <2> HIDE DEF cuts
  <2>3. PICK ends, n : CutAt(ends, n, ws, pieces)
    BY <1>1, <2>2, CutIs
  <2> HIDE DEF pieces
  <2>4. n \in Nat /\ DOMAIN pieces = 1 .. n /\ ends \in [1 .. n + 1 -> 0 .. Len(ws)]
    BY <2>3, LenProperties DEF CutAt
  <2>5. DOMAIN groups = 1 .. n /\ groups = [i \in 1 .. n |-> groups[i]]
    BY <2>4
  <2>6. \A i \in 1 .. n : groups[i] = IF Length(pieces[i]) > MaxLength
                                      THEN SplitByTime(pieces[i], Collected(ws, pieces[i]))
                                      ELSE <<pieces[i]>>
    BY <2>4
  <2> HIDE DEF groups
  <2>7. ASSUME NEW i \in 1 .. n
        PROVE  /\ groups[i] \in Seq(Piece) /\ InTurn(groups[i], Lasting)
               /\ \A k \in 1 .. Len(ws) : ends[i] < k /\ k <= ends[i + 1] => Holds(groups[i], ws[k])
               /\ \A w : Holds(groups[i], w) => \E k \in 1 .. Len(ws) : w = ws[k]
               /\ \A w \in Lasting : Holds(groups[i], w) =>
                    \E k \in 1 .. Len(ws) : w = ws[k] /\ ends[i] < k /\ k <= ends[i + 1]
    <3> DEFINE group == groups[i]
    <3>1. group = IF Length(pieces[i]) > MaxLength
                  THEN SplitByTime(pieces[i], Collected(ws, pieces[i])) ELSE <<pieces[i]>>
      BY <2>6
    <3> HIDE DEF group
    <3>2. /\ group \in Seq(Piece) /\ InTurn(group, Lasting)
          /\ \A k \in 1 .. Len(ws) : ends[i] < k /\ k <= ends[i + 1] => Holds(group, ws[k])
          /\ \A w : Holds(group, w) => \E k \in 1 .. Len(ws) : w = ws[k]
          /\ \A w \in Lasting : Holds(group, w) =>
               \E k \in 1 .. Len(ws) : w = ws[k] /\ ends[i] < k /\ k <= ends[i + 1]
      BY <2>3, <3>1, GroupIs
    <3>3. QED
      BY <3>2 DEF group
  <2>8. groups \in Seq(Seq(Piece)) /\ Len(groups) = n
    <3>1. groups \in [1 .. n -> Seq(Piece)]
      BY <2>5, <2>7
    <3>2. groups \in Seq(Seq(Piece))
      BY <2>4, <3>1, IsASeq
    <3>3. QED
      BY <2>4, <2>5, <3>2, LenProperties
  <2>9. ASSUME NEW g \in 1 .. n, NEW h \in 1 .. n, NEW v \in Lasting, NEW w \in Lasting,
               g < h, Holds(groups[g], v), Holds(groups[h], w)
        PROVE  v.end <= w.start
    <3>1. PICK k \in 1 .. Len(ws) : v = ws[k] /\ ends[g] < k /\ k <= ends[g + 1]
      BY <2>7, <2>9
    <3>2. PICK l \in 1 .. Len(ws) : w = ws[l] /\ ends[h] < l /\ l <= ends[h + 1]
      BY <2>7, <2>9
    <3>3. g + 1 \in 1 .. n + 1 /\ h \in 1 .. n + 1 /\ (g + 1 = h \/ g + 1 < h)
      BY <2>4, <2>9
    <3>4. ends[g + 1] \in 0 .. Len(ws) /\ ends[h] \in 0 .. Len(ws)
      BY <2>4, <3>3
    <3>5. ends[g + 1] <= ends[h]
      <4>1. g + 1 < h => ends[g + 1] < ends[h]
        BY <2>3, <3>3 DEF CutAt
      <4>2. QED
        BY <3>3, <3>4, <4>1
    <3>6. k < l
      BY <1>1, <3>1, <3>2, <3>4, <3>5
    <3>7. QED
      BY <3>1, <3>2, <3>6 DEF OneByOne
  <2> DEFINE H == FlattenSeq(groups)
  <2>10. H \in Seq(Piece) /\ \A w : Holds(H, w) <=> \E g \in 1 .. n : Holds(groups[g], w)
    BY <2>8, Joined
  <2>11. InTurn(H, Lasting)
    BY <2>7, <2>8, <2>9, JoinedInTurn
  <2> HIDE DEF H
  <2>12. ASSUME NEW k \in 1 .. Len(ws) PROVE Holds(H, ws[k])
    <3>1. PICK i \in 1 .. n : ends[i] < k /\ k <= ends[i + 1]
      BY <2>3 DEF CutAt
    <3>2. Holds(groups[i], ws[k])
      BY <2>7, <3>1
    <3>3. QED
      BY <2>10, <3>2
  <2>13. ASSUME NEW w, Holds(H, w) PROVE \E k \in 1 .. Len(ws) : w = ws[k]
    BY <2>7, <2>10, <2>13
  <2>14. Kept(ws, H)
    BY <2>10, <2>11, <2>12, <2>13 DEF Kept
  <2>15. QED
    BY <2>1, <2>14 DEF H
<1>4. QED
  BY <1>2, <1>3

-----------------------------------------------------------------------------

\* own[k] is the segment that the k-th of the words is of.
Owned(own, words, segs) ==
  /\ own \in [1 .. Len(words) -> 1 .. Len(segs)]
  /\ \A k \in 1 .. Len(words) :
       \E j \in 1 .. Len(segs[own[k]].words) : words[k] = segs[own[k]].words[j]
  /\ \A k, l \in 1 .. Len(words) : k < l => own[k] <= own[l]
  /\ \A s \in 1 .. Len(segs) : \A j \in 1 .. Len(segs[s].words) :
       \E k \in 1 .. Len(words) : own[k] = s /\ words[k] = segs[s].words[j]

LEMMA SegmentsAre ==
  ASSUME NEW segs, Recognized(segs)
  PROVE  /\ segs \in Seq(Piece) /\ Len(segs) \in Nat /\ DOMAIN segs = 1 .. Len(segs)
         /\ \A s \in 1 .. Len(segs) :
              /\ segs[s] \in Piece /\ OneByOne(segs[s].words)
              /\ \A i \in 1 .. Len(segs[s].words) :
                   LET w == segs[s].words[i]
                   IN /\ w \in Word /\ w.start \in Int /\ w.end \in Int /\ segs[s].end \in Int
                      /\ w.start <= w.end /\ w.end <= segs[s].end
                      /\ \A r \in 1 .. s - 1 : segs[r].end <= w.start
<1>1. segs \in Seq(Piece) /\ Len(segs) \in Nat /\ DOMAIN segs = 1 .. Len(segs)
  <2>1. segs \in Seq(Piece)
    BY DEF Recognized, Piece, Word
  <2>2. QED
    BY <2>1, LenProperties
<1>2. ASSUME NEW s \in 1 .. Len(segs)
      PROVE  /\ segs[s] \in Piece /\ OneByOne(segs[s].words)
             /\ \A i \in 1 .. Len(segs[s].words) :
                  LET w == segs[s].words[i]
                  IN /\ w \in Word /\ w.start \in Int /\ w.end \in Int /\ segs[s].end \in Int
                     /\ w.start <= w.end /\ w.end <= segs[s].end
                     /\ \A r \in 1 .. s - 1 : segs[r].end <= w.start
  <2> DEFINE ws == segs[s].words
  <2>1. segs[s] \in Piece
    BY <1>1, ElementOfSeq
  <2>2. ws \in Seq(Word) /\ segs[s].end \in Int
    BY <2>1 DEF Piece
  <2>3. Len(ws) \in Nat /\ DOMAIN ws = 1 .. Len(ws) /\ \A i \in 1 .. Len(ws) : ws[i] \in Word
    BY <2>2, LenProperties, ElementOfSeq
  <2>4. ASSUME NEW i \in 1 .. Len(ws)
        PROVE  /\ ws[i].start <= ws[i].end /\ ws[i].end <= segs[s].end
               /\ \A j \in i + 1 .. Len(ws) : ws[i].end <= ws[j].start
               /\ \A r \in 1 .. s - 1 : segs[r].end <= ws[i].start
    BY <1>1, <2>3 DEF Recognized
  <2> HIDE DEF ws
  <2>5. OneByOne(ws)
    <3>1. \A i, j \in 1 .. Len(ws) : i < j => j \in i + 1 .. Len(ws)
      BY <2>3
    <3>2. QED
      BY <2>2, <2>4, <3>1 DEF OneByOne
  <2>6. \A i \in 1 .. Len(ws) : ws[i].start \in Int /\ ws[i].end \in Int
    BY <2>3 DEF Word
  <2>7. QED
    BY <2>1, <2>2, <2>3, <2>4, <2>5, <2>6 DEF ws
<1>3. QED
  BY <1>1, <1>2

LEMMA SpokenIs ==
  ASSUME NEW segs, Recognized(segs)
  PROVE  LET words == FlattenSeq([s \in DOMAIN segs |-> segs[s].words])
         IN OneByOne(words) /\ \E own : Owned(own, words, segs)
<1> DEFINE N == Len(segs)
<1> DEFINE lists == [s \in DOMAIN segs |-> segs[s].words]
<1> DEFINE words == FlattenSeq(lists)
<1>1. segs \in Seq(Piece) /\ N \in Nat /\ DOMAIN segs = 1 .. N
  BY SegmentsAre
<1>2. \A s \in 1 .. N :
        /\ segs[s] \in Piece /\ OneByOne(segs[s].words)
        /\ \A i \in 1 .. Len(segs[s].words) :
             LET w == segs[s].words[i]
             IN /\ w \in Word /\ w.start \in Int /\ w.end \in Int /\ segs[s].end \in Int
                /\ w.start <= w.end /\ w.end <= segs[s].end
                /\ \A r \in 1 .. s - 1 : segs[r].end <= w.start
  BY SegmentsAre
<1> HIDE DEF N
<1>3. lists \in Seq(Seq(Word)) /\ Len(lists) = N /\ \A s \in 1 .. N : lists[s] = segs[s].words
  <2>1. \A s \in 1 .. N : segs[s].words \in Seq(Word)
    BY <1>2 DEF Piece
  <2>2. lists \in [1 .. N -> Seq(Word)]
    BY <1>1, <2>1
  <2>3. lists \in Seq(Seq(Word)) /\ DOMAIN lists = 1 .. N
    BY <1>1, <2>2, IsASeq
  <2>4. QED
    BY <1>1, <2>3, LenProperties
<1> HIDE DEF lists
<1>4. words \in Seq(Word) /\ \E row, col : PlacesOf(row, col, words, lists, N)
  BY <1>3, FlatPlaces
<1>5. PICK row, col : PlacesOf(row, col, words, lists, N)
  BY <1>4
<1> HIDE DEF words
<1>6. Len(words) \in Nat
  BY <1>4, LenProperties
<1>7. ASSUME NEW p \in 1 .. Len(words)
      PROVE  /\ row[p] \in 1 .. N /\ col[p] \in 1 .. Len(segs[row[p]].words)
             /\ words[p] = segs[row[p]].words[col[p]]
  BY <1>3, <1>5 DEF PlacesOf
<1>8. ASSUME NEW p \in 1 .. Len(words)
      PROVE  /\ words[p] \in Word /\ words[p].start \in Int /\ words[p].end \in Int
             /\ words[p].start <= words[p].end /\ words[p].end <= segs[row[p]].end
             /\ segs[row[p]].end \in Int
             /\ \A r \in 1 .. row[p] - 1 : segs[r].end <= words[p].start
  BY <1>2, <1>7
<1>9. ASSUME NEW p \in 1 .. Len(words), NEW q \in 1 .. Len(words), p < q
      PROVE  row[p] <= row[q] /\ words[p].end <= words[q].start
  <2>1. row[p] < row[q] \/ (row[p] = row[q] /\ col[p] < col[q])
    BY <1>5, <1>9 DEF PlacesOf
  <2>2. row[p] \in 1 .. N /\ row[q] \in 1 .. N
    BY <1>7
  <2>3. CASE row[p] < row[q]
    <3>1. row[p] \in 1 .. row[q] - 1
      BY <2>2, <2>3
    <3>2. segs[row[p]].end <= words[q].start
      BY <1>8, <3>1
    <3>3. words[p].end <= words[q].start
      BY <1>8, <3>2
    <3>4. QED
      BY <2>2, <2>3, <3>3
  <2>4. CASE row[p] = row[q] /\ col[p] < col[q]
    <3>1. OneByOne(segs[row[p]].words)
      BY <1>2, <2>2
    <3>2. words[p].end <= words[q].start
      BY <1>7, <2>4, <3>1 DEF OneByOne
    <3>3. QED
      BY <2>2, <2>4, <3>2
  <2>5. QED
    BY <2>1, <2>3, <2>4
<1>10. OneByOne(words)
  BY <1>4, <1>8, <1>9 DEF OneByOne
<1>11. Owned(row, words, segs)
  <2>1. row \in [1 .. Len(words) -> 1 .. N]
    BY <1>5 DEF PlacesOf
  <2>2. ASSUME NEW s \in 1 .. N, NEW j \in 1 .. Len(segs[s].words)
        PROVE  \E k \in 1 .. Len(words) : row[k] = s /\ words[k] = segs[s].words[j]
    <3>1. j \in 1 .. Len(lists[s])
      BY <1>3
    <3>2. PICK k \in 1 .. Len(words) : row[k] = s /\ col[k] = j
      BY <1>5, <3>1 DEF PlacesOf
    <3>3. QED
      BY <1>7, <3>2
  <2>3. QED
    BY <1>7, <1>9, <2>1, <2>2 DEF Owned, N
<1>12. QED
  BY <1>10, <1>11 DEF words, lists

-----------------------------------------------------------------------------

LEMMA LeastOf ==
  ASSUME NEW T, T \subseteq Nat, T # {}
  PROVE  Min(T) \in T /\ \A y \in T : Min(T) <= y
<1>1. \E x \in T : \A y \in T : x <= y
  BY LeastNatural
<1>2. QED
  BY <1>1 DEF Min

LEMMA GreatestOf ==
  ASSUME NEW n \in Nat, NEW T, T \subseteq 0 .. n, T # {}
  PROVE  Max(T) \in T /\ \A y \in T : Max(T) >= y
<1> DEFINE U == {n - y : y \in T}
<1>1. U \subseteq Nat /\ U # {}
  OBVIOUS
<1>2. PICK x \in U : \A y \in U : x <= y
  BY <1>1, LeastNatural
<1>3. PICK z \in T : x = n - z
  OBVIOUS
<1>4. ASSUME NEW y \in T PROVE z >= y
  <2>1. n - y \in U
    OBVIOUS
  <2>2. n - z <= n - y
    BY <1>2, <1>3, <2>1
  <2>3. y \in Int /\ z \in Int
    OBVIOUS
  <2>4. QED
    BY <2>2, <2>3
<1>5. \E a \in T : \A y \in T : a >= y
  BY <1>4
<1>6. QED
  BY <1>5 DEF Max

\* of[k] is the segment that the k-th of the words is given to: the first that ends after
\* its middle, from that of the word before.
Fits(w, s, segs) == w.start + w.end <= 2 * (segs[s].end + MapTol) \/ s = Len(segs)

Given(of, words, segs) ==
  /\ of \in [0 .. Len(words) -> 1 .. Len(segs)]
  /\ of[0] = 1
  /\ \A k \in 1 .. Len(words) :
       /\ Fits(words[k], of[k], segs) /\ of[k - 1] <= of[k]
       /\ \A s \in of[k - 1] .. Len(segs) : Fits(words[k], s, segs) => of[k] <= s

MappedBy(of, words, s) ==
  LET mine == {k \in DOMAIN words : of[k] = s}
  IN IF mine = {} THEN <<>> ELSE SubSeq(words, Min(mine), Max(mine))

MapsBy(of, words, segs) ==
  /\ Given(of, words, segs)
  /\ MapWords(segs) = [s \in DOMAIN segs |-> MappedBy(of, words, s)]

LEMMA MapIs ==
  ASSUME NEW segs, Recognized(segs), segs # <<>>, NEW words,
         words = FlattenSeq([s \in DOMAIN segs |-> segs[s].words])
  PROVE  \E of : MapsBy(of, words, segs)
<1> DEFINE N == Len(segs)
<1> DEFINE K == Len(words)
<1>1. segs \in Seq(Piece) /\ N \in Nat \ {0} /\ DOMAIN segs = 1 .. N
  BY SegmentsAre, EmptySeq
<1>2. OneByOne(words)
  BY SpokenIs
<1>3. words \in Seq(Word) /\ K \in Nat
  BY <1>2, LenProperties DEF OneByOne
<1>4. Sorted(words, LAMBDA v, w : v.start < w.start) = words
  <2>1. \A i \in 1 .. K : words[i] \in Word
    BY <1>3, ElementOfSeq
  <2>2. \A i \in 1 .. K : words[i].start \in Int /\ words[i].end \in Int
    BY <2>1 DEF Word
  <2>3. \A i, j \in 1 .. K : i < j => words[i].start <= words[j].start
    BY <1>2, <2>2 DEF OneByOne
  <2>4. words \in Seq([start : Int, end : Int, stops : BOOLEAN])
    BY <1>3 DEF Word
  <2>5. QED
    BY <2>3, <2>4, SortedSame
<1> DEFINE Eqn(of) ==
      of = [k \in 0 .. K |-> IF k = 0 THEN 1
                             ELSE Min({s \in of[k - 1] .. N :
                                         words[k].start + words[k].end <= 2 * (segs[s].end + MapTol) \/ s = N})]
<1> DEFINE of == CHOOSE of : Eqn(of)
<1>5. MapWords(segs) = [s \in DOMAIN segs |-> MappedBy(of, words, s)]
  <2> DEFINE Chosen(ws) ==
        CHOOSE g : g = [k \in 0 .. Len(ws) |->
          IF k = 0 THEN 1
          ELSE Min({s \in g[k - 1] .. Len(segs) :
                      ws[k].start + ws[k].end <= 2 * (segs[s].end + MapTol) \/ s = Len(segs)})]
  <2> DEFINE flat == FlattenSeq([s \in DOMAIN segs |-> segs[s].words])
  <2> DEFINE ws == Sorted(flat, LAMBDA v, w : v.start < w.start)
  <2>1. MapWords(segs) = [s \in DOMAIN segs |-> MappedBy(Chosen(ws), ws, s)]
    BY DEF MapWords, MappedBy
  <2>2. ws = words
    BY <1>4
  <2> HIDE DEF ws
  <2>3. Chosen(ws) = of
    BY <2>2
  <2>4. QED
    BY <2>1, <2>2, <2>3
<1> HIDE DEF N, K
<1> DEFINE Fitting(k, x) == {s \in x .. N : Fits(words[k], s, segs)}
<1> DEFINE H == [k \in 1 .. K |-> [x \in 1 .. N |-> Min(Fitting(k, x))]]
<1>6. ASSUME NEW k \in 1 .. K, NEW x \in 1 .. N
      PROVE  Min(Fitting(k, x)) \in Fitting(k, x) /\ \A s \in Fitting(k, x) : Min(Fitting(k, x)) <= s
  <2>1. Fitting(k, x) \subseteq Nat
    BY <1>1
  <2>2. N \in Fitting(k, x)
    BY <1>1 DEF Fits, N
  <2> HIDE DEF Fitting
  <2>3. QED
    BY <2>1, <2>2, LeastOf
<1>7. \A k \in 1 .. K : \A x \in 1 .. N : Fitting(k, x) \subseteq 1 .. N
  BY <1>1
<1>8. H \in [1 .. K -> [1 .. N -> 1 .. N]]
  BY <1>6, <1>7
<1>9. PICK f : Follows(f, K, 1 .. N, 1, H)
  <2> HIDE DEF H
  <2>1. 1 \in 1 .. N
    BY <1>1
  <2>2. QED
    BY <1>3, <1>8, <2>1, Recursion DEF K
<1>10. f \in [0 .. K -> 1 .. N] /\ f[0] = 1
  BY <1>9 DEF Follows
<1>11. ASSUME NEW k \in 1 .. K PROVE f[k - 1] \in 1 .. N /\ f[k] = Min(Fitting(k, f[k - 1]))
  <2>1. k - 1 \in 0 .. K
    BY <1>3 DEF K
  <2>2. f[k - 1] \in 1 .. N
    BY <1>10, <2>1
  <2>3. f[k] = H[k][f[k - 1]]
    BY <1>9 DEF Follows
  <2>4. QED
    BY <2>2, <2>3
<1>12. \A k \in 1 .. K : \A g : Fitting(k, g[k - 1]) =
         {s \in g[k - 1] .. N : words[k].start + words[k].end <= 2 * (segs[s].end + MapTol) \/ s = N}
  BY DEF Fits, N
<1>13. Eqn(f)
  <2>1. f = [k \in 0 .. K |-> f[k]]
    BY <1>10
  <2>2. ASSUME NEW k \in 0 .. K
        PROVE  f[k] = IF k = 0 THEN 1
                      ELSE Min({s \in f[k - 1] .. N :
                                  words[k].start + words[k].end <= 2 * (segs[s].end + MapTol) \/ s = N})
    <3>1. CASE k = 0
      BY <1>10, <3>1
    <3>2. CASE k # 0
      <4>1. k \in 1 .. K
        BY <3>2
      <4>2. f[k] = Min(Fitting(k, f[k - 1]))
        BY <1>11, <4>1
      <4>3. QED
        BY <1>12, <3>2, <4>1, <4>2
    <3>3. QED
      BY <3>1, <3>2
  <2>3. QED
    BY <2>1, <2>2
<1>14. Eqn(of)
  <2> HIDE DEF Eqn
  <2>1. QED
    BY <1>13
<1>15. DOMAIN of = 0 .. K /\ of = [k \in 0 .. K |-> of[k]] /\ \A k \in 0 .. K : of[k] = IF k = 0 THEN 1 ELSE Min(Fitting(k, of[k - 1]))
  <2> HIDE DEF of
  <2>1. DOMAIN of = 0 .. K /\ of = [k \in 0 .. K |-> of[k]]
    BY <1>14
  <2>2. ASSUME NEW k \in 0 .. K PROVE of[k] = IF k = 0 THEN 1 ELSE Min(Fitting(k, of[k - 1]))
    <3>1. of[k] = IF k = 0 THEN 1
                  ELSE Min({s \in of[k - 1] .. N :
                              words[k].start + words[k].end <= 2 * (segs[s].end + MapTol) \/ s = N})
      BY <1>14
    <3>2. QED
      BY <3>1 DEF Fits, N
  <2>3. QED
    BY <2>1, <2>2
<1> HIDE DEF of, Fitting
<1> DEFINE T == {k \in 0 .. K : of[k] \in 1 .. N}
<1>16. \A k \in 0 .. K : of[k] \in 1 .. N
  <2>1. 0 \in T
    <3>1. 0 \in 0 .. K /\ 1 \in 1 .. N
      BY <1>1, <1>3 DEF K
    <3>2. of[0] = 1
      BY <1>15, <3>1
    <3>3. QED
      BY <3>1, <3>2
  <2>2. ASSUME NEW k \in 1 .. K, k - 1 \in T PROVE k \in T
    <3>1. k \in 0 .. K /\ k # 0
      BY <1>3 DEF K
    <3>2. of[k] = Min(Fitting(k, of[k - 1]))
      BY <1>15, <3>1
    <3>3. of[k] \in 1 .. N
      BY <1>6, <1>7, <2>2, <3>2
    <3>4. QED
      BY <3>1, <3>3
  <2>3. K \in Nat
    BY <1>3 DEF K
  <2> HIDE DEF T
  <2>4. \A k \in 0 .. K : k \in T
    BY <2>1, <2>2, <2>3, UpTo
  <2>5. QED
    BY <2>4 DEF T
<1>17. ASSUME NEW k \in 1 .. K
       PROVE  /\ Fits(words[k], of[k], segs) /\ of[k - 1] <= of[k]
              /\ \A s \in of[k - 1] .. N : Fits(words[k], s, segs) => of[k] <= s
  <2>1. k \in 0 .. K /\ k # 0 /\ k - 1 \in 0 .. K
    BY <1>3 DEF K
  <2>2. of[k] = Min(Fitting(k, of[k - 1])) /\ of[k - 1] \in 1 .. N
    BY <1>15, <1>16, <2>1
  <2>3. of[k] \in Fitting(k, of[k - 1]) /\ \A s \in Fitting(k, of[k - 1]) : of[k] <= s
    BY <1>6, <2>2
  <2>4. QED
    BY <2>2, <2>3 DEF Fitting
<1>18. Given(of, words, segs)
  <2>1. of \in [0 .. K -> 1 .. N]
    BY <1>15, <1>16
  <2>2. of[0] = 1
    BY <1>3, <1>15 DEF K
  <2>3. QED
    BY <1>17, <2>1, <2>2 DEF Given, K, N
<1>19. MapsBy(of, words, segs)
  BY <1>5, <1>18 DEF MapsBy
<1>20. QED
  BY <1>19

LEMMA Middle ==
  ASSUME NEW a \in Int, NEW b \in Int, NEW e \in Int, NEW t \in Nat, a <= b, b <= e
  PROVE  a + b <= 2 * (e + t)
OBVIOUS

LEMMA OwnFits ==
  ASSUME NEW segs, Recognized(segs), NEW words, OneByOne(words),
         NEW own, Owned(own, words, segs), NEW of, Given(of, words, segs)
  PROVE  \A k \in 1 .. Len(words) :
           /\ of[k] \in 1 .. Len(segs) /\ own[k] \in 1 .. Len(segs) /\ of[k] <= own[k]
           /\ segs[own[k]].end \in Int /\ words[k].start \in Int /\ words[k].end \in Int
           /\ words[k].start <= words[k].end /\ words[k].end <= segs[own[k]].end
           /\ \A r \in 1 .. own[k] - 1 : segs[r].end <= words[k].start
<1> DEFINE N == Len(segs)
<1> DEFINE K == Len(words)
<1>1. K \in Nat /\ N \in Nat /\ MapTol \in Nat
  BY SegmentsAre, LenProperties, ToleranceAssumption DEF OneByOne
<1>2. ASSUME NEW k \in 1 .. K
      PROVE  /\ own[k] \in 1 .. N
             /\ segs[own[k]].end \in Int /\ words[k].start \in Int /\ words[k].end \in Int
             /\ words[k].start <= words[k].end /\ words[k].end <= segs[own[k]].end
             /\ \A r \in 1 .. own[k] - 1 : segs[r].end <= words[k].start
  <2>1. own[k] \in 1 .. N
    BY DEF Owned
  <2>2. PICK j \in 1 .. Len(segs[own[k]].words) : words[k] = segs[own[k]].words[j]
    BY DEF Owned
  <2>3. QED
    BY <2>1, <2>2, SegmentsAre
<1> DEFINE T == {k \in 0 .. K : k = 0 \/ of[k] <= own[k]}
<1>3. 0 \in T
  BY <1>1
<1>4. ASSUME NEW k \in 1 .. K, k - 1 \in T PROVE k \in T
  <2>1. k - 1 \in 0 .. K /\ k \in 0 .. K
    BY <1>1
  <2>2. of[k - 1] \in 1 .. N /\ own[k] \in 1 .. N
    BY <1>2, <2>1 DEF Given
  <2>3. of[k - 1] <= own[k]
    <3>1. CASE k = 1
      <4>1. k - 1 = 0
        BY <3>1
      <4>2. of[k - 1] = 1
        BY <4>1 DEF Given
      <4>3. QED
        BY <2>2, <4>2
    <3>2. CASE k # 1
      <4>1. k - 1 \in 1 .. K /\ k - 1 < k /\ k - 1 # 0
        BY <1>1, <3>2
      <4>2. own[k - 1] <= own[k]
        BY <4>1 DEF Owned
      <4>3. of[k - 1] <= own[k - 1] /\ own[k - 1] \in 1 .. N
        BY <1>2, <1>4, <4>1
      <4>4. QED
        BY <2>2, <4>2, <4>3
    <3>3. QED
      BY <3>1, <3>2
  <2>4. own[k] \in of[k - 1] .. N
    BY <2>2, <2>3
  <2>5. Fits(words[k], own[k], segs)
    <3>1. /\ segs[own[k]].end \in Int /\ words[k].start \in Int /\ words[k].end \in Int
          /\ words[k].start <= words[k].end /\ words[k].end <= segs[own[k]].end
      BY <1>2
    <3>2. words[k].start + words[k].end <= 2 * (segs[own[k]].end + MapTol)
      BY <3>1, ToleranceAssumption, Middle
    <3>3. QED
      BY <3>2 DEF Fits
  <2>6. of[k] <= own[k]
    BY <2>4, <2>5 DEF Given
  <2>7. QED
    BY <2>1, <2>6
<1>5. \A k \in 0 .. K : k \in T
  <2> HIDE DEF T
  <2>1. QED
    BY <1>1, <1>3, <1>4, UpTo
<1>6. ASSUME NEW k \in 1 .. K PROVE of[k] <= own[k] /\ of[k] \in 1 .. N
  <2>1. k \in 0 .. K /\ k # 0
    BY <1>1
  <2>2. of[k] <= own[k]
    BY <1>5, <2>1
  <2>3. of[k] \in 1 .. N
    BY <2>1 DEF Given
  <2>4. QED
    BY <2>2, <2>3
<1>7. QED
  BY <1>2, <1>6

MapsTo(m, of, words, s) ==
  /\ OneByOne(m)
  /\ \A w : (\E j \in 1 .. Len(m) : m[j] = w) <=> \E k \in 1 .. Len(words) : of[k] = s /\ words[k] = w

LEMMA MappedIs ==
  ASSUME NEW segs, Len(segs) \in Nat, NEW words, OneByOne(words),
         NEW of, Given(of, words, segs), NEW s
  PROVE  MapsTo(MappedBy(of, words, s), of, words, s)
<1> DEFINE N == Len(segs)
<1> DEFINE K == Len(words)
<1> DEFINE mine == {k \in DOMAIN words : of[k] = s}
<1> DEFINE m == MappedBy(of, words, s)
<1>1. words \in Seq(Word) /\ K \in Nat /\ DOMAIN words = 1 .. K
  BY LenProperties DEF OneByOne
<1>2. m = IF mine = {} THEN <<>> ELSE SubSeq(words, Min(mine), Max(mine))
  BY DEF MappedBy
<1>3. \A k : k \in mine <=> k \in 1 .. K /\ of[k] = s
  BY <1>1
<1> HIDE DEF mine, m
<1>4. \A k \in 0 .. K : of[k] \in 1 .. N
  BY DEF Given
<1> DEFINE T == {k \in 0 .. K : \A i \in 0 .. k : of[i] <= of[k]}
<1>5. \A k \in 0 .. K : k \in T
  <2>1. 0 \in T
    <3>1. \A i \in 0 .. 0 : i = 0
      OBVIOUS
    <3>2. 0 \in 0 .. K /\ of[0] \in Int
      BY <1>1, <1>4
    <3>3. QED
      BY <3>1, <3>2
  <2>2. ASSUME NEW k \in 1 .. K, k - 1 \in T PROVE k \in T
    <3>1. k \in 0 .. K /\ k - 1 \in 0 .. K
      BY <1>1
    <3>2. of[k - 1] <= of[k]
      BY DEF Given
    <3>3. ASSUME NEW i \in 0 .. k PROVE of[i] <= of[k]
      <4>1. i \in 0 .. K
        BY <1>1
      <4>2. of[i] \in Int /\ of[k] \in Int /\ of[k - 1] \in Int
        BY <1>4, <3>1, <4>1
      <4>3. CASE i = k
        BY <4>2, <4>3
      <4>4. CASE i # k
        <5>1. i \in 0 .. k - 1
          BY <4>4
        <5>2. of[i] <= of[k - 1]
          BY <2>2, <5>1
        <5>3. QED
          BY <3>2, <4>2, <5>2
      <4>5. QED
        BY <4>3, <4>4
    <3>4. QED
      BY <3>1, <3>3
  <2> HIDE DEF T
  <2>3. QED
    BY <1>1, <2>1, <2>2, UpTo
<1>6. \A i, k \in 1 .. K : i <= k => of[i] <= of[k] /\ of[i] \in Int /\ of[k] \in Int
  <2> SUFFICES ASSUME NEW i \in 1 .. K, NEW k \in 1 .. K, i <= k
               PROVE  of[i] <= of[k] /\ of[i] \in Int /\ of[k] \in Int
    OBVIOUS
  <2>1. i \in 0 .. k /\ k \in 0 .. K /\ i \in 0 .. K
    BY <1>1
  <2>2. of[i] <= of[k]
    BY <1>5, <2>1
  <2>3. QED
    BY <1>4, <2>1, <2>2
<1> HIDE DEF T, K, N
<1>7. CASE mine = {}
  <2>1. m = <<>> /\ m \in Seq(Word) /\ Len(m) = 0
    BY <1>2, <1>7
  <2>2. \A j \in 1 .. 0 : FALSE
    OBVIOUS
  <2>3. OneByOne(m)
    BY <2>1, <2>2 DEF OneByOne
  <2>4. MapsTo(m, of, words, s)
    BY <1>3, <1>7, <2>1, <2>2, <2>3 DEF MapsTo, K
  <2>5. QED
    BY <2>4 DEF m
<1>8. CASE mine # {}
  <2> DEFINE x == Min(mine)
  <2> DEFINE y == Max(mine)
  <2>1. mine \subseteq 0 .. K /\ mine \subseteq Nat
    BY <1>1, <1>3
  <2>2. x \in mine /\ \A k \in mine : x <= k
    BY <1>8, <2>1, LeastOf
  <2>3. y \in mine /\ \A k \in mine : y >= k
    BY <1>1, <1>8, <2>1, GreatestOf DEF K
  <2>4. m = SubSeq(words, x, y)
    BY <1>2, <1>8
  <2> HIDE DEF x, y
  <2>5. x \in 1 .. K /\ y \in 1 .. K /\ x <= y /\ of[x] = s /\ of[y] = s
    BY <1>3, <2>2, <2>3
  <2>6. m \in Seq(Word) /\ Len(m) = y - x + 1 /\ \A j \in 1 .. y - x + 1 : m[j] = words[x + j - 1]
    BY <1>1, <2>4, <2>5, SubSeqProperties DEF K
  <2>7. ASSUME NEW j \in 1 .. Len(m)
        PROVE  x + j - 1 \in 1 .. K /\ of[x + j - 1] = s /\ m[j] = words[x + j - 1] /\ j \in Int
    <3>1. j \in 1 .. y - x + 1
      BY <2>6
    <3>2. x + j - 1 \in 1 .. K /\ x <= x + j - 1 /\ x + j - 1 <= y
      BY <1>1, <2>5, <3>1 DEF K
    <3> DEFINE k == x + j - 1
    <3> HIDE DEF k
    <3>3. k \in 1 .. K /\ x <= k /\ k <= y
      BY <3>2 DEF k
    <3>4. of[x] <= of[k] /\ of[k] <= of[y] /\ of[k] \in Int /\ of[x] \in Int /\ of[y] \in Int
      BY <1>6, <2>5, <3>3
    <3>5. of[k] = s
      BY <2>5, <3>4
    <3>6. QED
      BY <2>6, <3>1, <3>2, <3>5 DEF k
  <2>8. ASSUME NEW k \in 1 .. K, of[k] = s PROVE \E j \in 1 .. Len(m) : m[j] = words[k]
    <3>1. x <= k /\ k <= y
      BY <1>3, <2>2, <2>3, <2>8
    <3>2. k - x + 1 \in 1 .. y - x + 1 /\ x + (k - x + 1) - 1 = k
      BY <2>5, <3>1
    <3>3. m[k - x + 1] = words[k]
      BY <2>6, <3>2
    <3>4. QED
      BY <2>6, <3>2, <3>3
  <2>9. OneByOne(m)
    <3>1. \A j \in 1 .. Len(m) : m[j].start <= m[j].end
      BY <2>7 DEF OneByOne, K
    <3>2. ASSUME NEW i \in 1 .. Len(m), NEW j \in 1 .. Len(m), i < j PROVE m[i].end <= m[j].start
      <4>1. x + i - 1 < x + j - 1
        BY <2>5, <2>7, <3>2
      <4>2. words[x + i - 1].end <= words[x + j - 1].start
        BY <2>7, <4>1 DEF OneByOne, K
      <4>3. QED
        BY <2>7, <4>2
    <3>3. QED
      BY <2>6, <3>1, <3>2 DEF OneByOne
  <2>10. MapsTo(m, of, words, s)
    BY <2>7, <2>8, <2>9 DEF MapsTo, K
  <2>11. QED
    BY <2>10 DEF m
<1>9. QED
  BY <1>7, <1>8

\* What is written of pieces.
LEMMA WrittenIs ==
  ASSUME NEW pieces \in Seq(Piece)
  PROVE  LET written == FlattenSeq([i \in DOMAIN pieces |-> pieces[i].words])
         IN /\ written \in Seq(Word)
            /\ \A w : w \in ToSet(written) <=> Holds(pieces, w)
            /\ \A T : InTurn(pieces, T) =>
                 \A i, j \in DOMAIN written :
                   i < j /\ written[i] \in T /\ written[j] \in T => written[i].end <= written[j].start
<1> DEFINE lists == [i \in DOMAIN pieces |-> pieces[i].words]
<1> DEFINE written == FlattenSeq(lists)
<1> DEFINE n == Len(pieces)
<1>1. n \in Nat /\ DOMAIN pieces = 1 .. n /\ \A i \in 1 .. n : pieces[i].words \in Seq(Word)
  <2>1. n \in Nat /\ DOMAIN pieces = 1 .. n /\ \A i \in 1 .. n : pieces[i] \in Piece
    BY LenProperties, ElementOfSeq
  <2>2. QED
    BY <2>1 DEF Piece
<1> HIDE DEF n
<1>2. lists \in Seq(Seq(Word)) /\ Len(lists) = n /\ \A i \in 1 .. n : lists[i] = pieces[i].words
  <2>1. lists \in [1 .. n -> Seq(Word)]
    BY <1>1
  <2>2. lists \in Seq(Seq(Word)) /\ DOMAIN lists = 1 .. n
    BY <1>1, <2>1, IsASeq
  <2>3. QED
    BY <1>1, <2>2, LenProperties
<1> HIDE DEF lists
<1>3. written \in Seq(Word) /\ \E row, col : PlacesOf(row, col, written, lists, n)
  BY <1>2, FlatPlaces
<1>4. PICK row, col : PlacesOf(row, col, written, lists, n)
  BY <1>3
<1> HIDE DEF written
<1>5. DOMAIN written = 1 .. Len(written)
  BY <1>3, LenProperties
<1>6. ASSUME NEW p \in 1 .. Len(written)
      PROVE  /\ row[p] \in 1 .. n /\ col[p] \in 1 .. Len(pieces[row[p]].words)
             /\ written[p] = pieces[row[p]].words[col[p]]
  <2>1. row[p] \in 1 .. n /\ col[p] \in 1 .. Len(lists[row[p]]) /\ written[p] = lists[row[p]][col[p]]
    BY <1>4 DEF PlacesOf
  <2>2. lists[row[p]] = pieces[row[p]].words
    BY <1>2, <2>1
  <2>3. QED
    BY <2>1, <2>2
<1>7. ASSUME NEW w, Holds(pieces, w) PROVE w \in ToSet(written)
  <2>1. PICK i \in 1 .. n : \E j \in 1 .. Len(pieces[i].words) : pieces[i].words[j] = w
    BY <1>7 DEF Holds, n
  <2>2. PICK j \in 1 .. Len(lists[i]) : lists[i][j] = w
    BY <1>2, <2>1
  <2>3. PICK p \in 1 .. Len(written) : row[p] = i /\ col[p] = j
    BY <1>4, <2>2 DEF PlacesOf
  <2>4. written[p] = w
    BY <1>2, <1>6, <2>2, <2>3
  <2>5. QED
    BY <1>5, <2>4 DEF ToSet
<1>8. ASSUME NEW w \in ToSet(written) PROVE Holds(pieces, w)
  <2>1. PICK p \in 1 .. Len(written) : written[p] = w
    BY <1>5 DEF ToSet
  <2>2. QED
    BY <1>6, <2>1 DEF Holds, n
<1>9. ASSUME NEW T, InTurn(pieces, T), NEW i \in DOMAIN written, NEW j \in DOMAIN written,
             i < j, written[i] \in T, written[j] \in T
      PROVE  written[i].end <= written[j].start
  <2>1. i \in 1 .. Len(written) /\ j \in 1 .. Len(written)
    BY <1>5
  <2>2. row[i] < row[j] \/ (row[i] = row[j] /\ col[i] < col[j])
    BY <1>4, <1>9, <2>1 DEF PlacesOf
  <2>3. /\ row[i] \in 1 .. Len(pieces) /\ col[i] \in 1 .. Len(pieces[row[i]].words)
        /\ written[i] = pieces[row[i]].words[col[i]]
    BY <1>6, <2>1 DEF n
  <2>4. /\ row[j] \in 1 .. Len(pieces) /\ col[j] \in 1 .. Len(pieces[row[j]].words)
        /\ written[j] = pieces[row[j]].words[col[j]]
    BY <1>6, <2>1 DEF n
  <2>5. QED
    BY <1>9, <2>2, <2>3, <2>4 DEF InTurn
<1>10. QED
  BY <1>3, <1>7, <1>8, <1>9 DEF written, lists

LEMMA OneInTurn ==
  ASSUME NEW piece \in Piece, OneByOne(piece.words), NEW T
  PROVE  InTurn(<<piece>>, T)
<1> DEFINE group == <<piece>>
<1>1. Len(group) = 1 /\ group[1] = piece
  OBVIOUS
<1> HIDE DEF group
<1>2. ASSUME NEW i \in 1 .. Len(group), NEW r \in 1 .. Len(group),
             NEW j \in 1 .. Len(group[i].words), NEW k \in 1 .. Len(group[r].words),
             i < r \/ (i = r /\ j < k)
      PROVE  group[i].words[j].end <= group[r].words[k].start
  <2>1. i = 1 /\ r = 1 /\ j < k
    BY <1>1, <1>2
  <2>2. QED
    BY <1>1, <2>1 DEF OneByOne
<1>3. InTurn(group, T)
  BY <1>2 DEF InTurn
<1>4. QED
  BY <1>3 DEF group

GroupFrom(group, words, own, of, s) ==
  /\ group \in Seq(Piece) /\ InTurn(group, Lasting)
  /\ \A k \in 1 .. Len(words) : own[k] = s /\ of[k] = s => Holds(group, words[k])
  /\ \A w : Holds(group, w) => \E k \in 1 .. Len(words) : words[k] = w /\ (own[k] = s \/ of[k] = s)

\* What becomes of one segment and the words that are given to it.
LEMMA GroupOf ==
  ASSUME NEW segs, Recognized(segs), NEW words, OneByOne(words),
         NEW own, Owned(own, words, segs), NEW of, Given(of, words, segs),
         NEW s \in 1 .. Len(segs), NEW group,
         group = IF Length(segs[s]) <= MaxLength \/ MappedBy(of, words, s) = <<>>
                 THEN <<segs[s]>> ELSE SplitByWords(segs[s], MappedBy(of, words, s))
  PROVE  GroupFrom(group, words, own, of, s)
<1>1. /\ Len(segs) \in Nat /\ segs[s] \in Piece /\ OneByOne(segs[s].words)
  BY SegmentsAre
<1> DEFINE m == MappedBy(of, words, s)
<1>2. /\ OneByOne(m)
      /\ \A w : (\E j \in 1 .. Len(m) : m[j] = w) <=> \E k \in 1 .. Len(words) : of[k] = s /\ words[k] = w
  <2>1. Len(segs) \in Nat
    BY <1>1
  <2>2. MapsTo(m, of, words, s)
    BY <2>1, MappedIs
  <2> HIDE DEF m
  <2>3. QED
    BY <2>2 DEF MapsTo
<1> HIDE DEF m
<1>3. CASE group = <<segs[s]>>
  <2>1. group \in Seq(Piece) /\ Len(group) = 1 /\ group[1] = segs[s]
    <3>1. segs[s] \in Piece
      BY <1>1
    <3> DEFINE x == segs[s]
    <3> HIDE DEF x
    <3>2. <<x>> \in Seq(Piece) /\ Len(<<x>>) = 1 /\ <<x>>[1] = x
      BY <3>1 DEF x
    <3>3. QED
      BY <1>3, <3>2 DEF x
  <2>2. InTurn(group, Lasting)
    BY <1>1, <1>3, OneInTurn
  <2>3. ASSUME NEW k \in 1 .. Len(words), own[k] = s PROVE Holds(group, words[k])
    <3>1. PICK j \in 1 .. Len(segs[own[k]].words) : words[k] = segs[own[k]].words[j]
      BY DEF Owned
    <3>2. 1 \in 1 .. Len(group) /\ j \in 1 .. Len(group[1].words) /\ group[1].words[j] = words[k]
      BY <2>1, <2>3, <3>1
    <3>3. QED
      BY <3>2 DEF Holds
  <2>4. ASSUME NEW w, Holds(group, w) PROVE \E k \in 1 .. Len(words) : words[k] = w /\ own[k] = s
    <3>1. PICK i \in 1 .. Len(group) : \E j \in 1 .. Len(group[i].words) : group[i].words[j] = w
      BY <2>4 DEF Holds
    <3>2. group[i] = segs[s]
      BY <2>1, <3>1
    <3>3. PICK j \in 1 .. Len(segs[s].words) : segs[s].words[j] = w
      BY <3>1, <3>2
    <3>4. QED
      BY <3>3 DEF Owned
  <2>5. QED
    BY <2>1, <2>2, <2>3, <2>4 DEF GroupFrom
<1>4. CASE group # <<segs[s]>>
  <2>1. m # <<>> /\ group = SplitByWords(segs[s], m)
    BY <1>4 DEF m
  <2>2. Kept(m, group)
    BY <1>2, <2>1, SplitKept
  <2>3. group \in Seq(Piece) /\ InTurn(group, Lasting)
    BY <2>2 DEF Kept
  <2>4. ASSUME NEW k \in 1 .. Len(words), of[k] = s PROVE Holds(group, words[k])
    <3>1. PICK j \in 1 .. Len(m) : m[j] = words[k]
      BY <1>2, <2>4
    <3>2. Holds(group, m[j])
      BY <2>2 DEF Kept
    <3>3. QED
      BY <3>1, <3>2
  <2>5. ASSUME NEW w, Holds(group, w) PROVE \E k \in 1 .. Len(words) : words[k] = w /\ of[k] = s
    <3>1. PICK j \in 1 .. Len(m) : w = m[j]
      BY <2>2, <2>5 DEF Kept
    <3>2. QED
      BY <1>2, <3>1
  <2>6. QED
    BY <2>3, <2>4, <2>5 DEF GroupFrom
<1>5. QED
  BY <1>3, <1>4

\* A word that is given to a segment before its own lies at the border.
AtBorderOf(w, segs) ==
  \E s \in DOMAIN segs : /\ w \notin ToSet(segs[s].words)
                             /\ w.start >= segs[s].end
                             /\ w.start + w.end <= 2 * (segs[s].end + MapTol)

SureOf(segs) == {w \in Word : ~AtBorderOf(w, segs) /\ w.end - w.start > CutTol}

LEMMA GivenEarlier ==
  ASSUME NEW segs, Recognized(segs), NEW words, OneByOne(words),
         NEW own, Owned(own, words, segs), NEW of, Given(of, words, segs),
         NEW k \in 1 .. Len(words), of[k] < own[k],
         words[k] \notin ToSet(segs[of[k]].words)
  PROVE  AtBorderOf(words[k], segs)
<1> DEFINE s == of[k]
<1>1. /\ s \in 1 .. Len(segs) /\ own[k] \in 1 .. Len(segs) /\ s < own[k]
      /\ words[k].start \in Int /\ words[k].end \in Int
      /\ \A r \in 1 .. own[k] - 1 : segs[r].end <= words[k].start
  BY OwnFits
<1>2. Len(segs) \in Nat /\ DOMAIN segs = 1 .. Len(segs) /\ segs[s] \in Piece
  BY <1>1, SegmentsAre
<1>3. segs[s].end \in Int
  BY <1>2 DEF Piece
<1>4. Fits(words[k], s, segs)
  BY DEF Given
<1>5. words[k] \notin ToSet(segs[s].words)
  OBVIOUS
<1> HIDE DEF s
<1>6. s # Len(segs) /\ s \in 1 .. own[k] - 1
  <2>1. s \in 1 .. Len(segs) /\ own[k] \in 1 .. Len(segs) /\ s < own[k] /\ Len(segs) \in Nat
    BY <1>1, <1>2
  <2> HIDE DEF s
  <2>2. QED
    BY <2>1
<1>7. words[k].start + words[k].end <= 2 * (segs[s].end + MapTol)
  BY <1>4, <1>6 DEF Fits
<1>8. words[k].start >= segs[s].end
  BY <1>1, <1>3, <1>6
<1>9. QED
  BY <1>1, <1>2, <1>5, <1>7, <1>8 DEF AtBorderOf

\* A sure word is given to its own segment.
LEMMA SureGiven ==
  ASSUME NEW segs, Recognized(segs), NEW words, OneByOne(words),
         NEW own, Owned(own, words, segs), NEW of, Given(of, words, segs),
         NEW k \in 1 .. Len(words), words[k] \in SureOf(segs)
  PROVE  of[k] = own[k]
<1>1. /\ of[k] \in 1 .. Len(segs) /\ own[k] \in 1 .. Len(segs) /\ of[k] <= own[k]
      /\ words[k].start \in Int /\ words[k].end \in Int
      /\ \A r \in 1 .. own[k] - 1 : segs[r].end <= words[k].start
  BY OwnFits
<1>2. SUFFICES ASSUME of[k] < own[k] PROVE FALSE
  BY <1>1
<1>3. words[k].end - words[k].start > CutTol /\ ~AtBorderOf(words[k], segs) /\ CutTol \in Nat
  BY ToleranceAssumption DEF SureOf
<1>4. ASSUME words[k] \in ToSet(segs[of[k]].words) PROVE FALSE
  <2>1. /\ segs[of[k]] \in Piece
        /\ \A i \in 1 .. Len(segs[of[k]].words) :
             segs[of[k]].words[i].end <= segs[of[k]].end /\ segs[of[k]].end \in Int
    BY <1>1, SegmentsAre
  <2>2. PICK i \in 1 .. Len(segs[of[k]].words) : words[k] = segs[of[k]].words[i]
    <3>1. segs[of[k]].words \in Seq(Word)
      BY <2>1 DEF Piece
    <3>2. DOMAIN segs[of[k]].words = 1 .. Len(segs[of[k]].words)
      BY <3>1, LenProperties
    <3>3. QED
      BY <1>4, <3>2 DEF ToSet
  <2>3. words[k].end <= segs[of[k]].end /\ segs[of[k]].end \in Int
    BY <2>1, <2>2
  <2>4. of[k] \in 1 .. own[k] - 1
    BY <1>1, <1>2
  <2>5. segs[of[k]].end <= words[k].start
    BY <1>1, <2>4
  <2>6. words[k].start \in Int /\ words[k].end \in Int
    BY <1>1
  <2>7. QED
    BY <1>3, <2>3, <2>5, <2>6
<1>5. QED
  BY <1>2, <1>3, <1>4, GivenEarlier

LEMMA LessInTurn ==
  ASSUME NEW pieces, NEW T, InTurn(pieces, T), NEW U, U \subseteq T
  PROVE  InTurn(pieces, U)
BY DEF InTurn

\* The pieces of all segs.
LEMMA AllGroups ==
  ASSUME NEW segs, Recognized(segs), NEW words, OneByOne(words),
         NEW own, Owned(own, words, segs), NEW of, Given(of, words, segs),
         NEW groups, groups = [s \in DOMAIN segs |->
           IF Length(segs[s]) <= MaxLength \/ MappedBy(of, words, s) = <<>>
           THEN <<segs[s]>> ELSE SplitByWords(segs[s], MappedBy(of, words, s))]
  PROVE  /\ FlattenSeq(groups) \in Seq(Piece) /\ InTurn(FlattenSeq(groups), SureOf(segs))
         /\ \A w : Holds(FlattenSeq(groups), w) => \E k \in 1 .. Len(words) : words[k] = w
         /\ \A k \in 1 .. Len(words) : own[k] = of[k] => Holds(FlattenSeq(groups), words[k])
<1> DEFINE N == Len(segs)
<1> DEFINE Sure == SureOf(segs)
<1>1. N \in Nat /\ DOMAIN segs = 1 .. N
  BY SegmentsAre
<1>2. \A k \in 1 .. Len(words) : own[k] \in 1 .. N /\ of[k] \in 1 .. N
  BY OwnFits
<1>3. Len(words) \in Nat /\ \A k \in 1 .. Len(words) : words[k] \in Word
  BY LenProperties, ElementOfSeq DEF OneByOne
<1>4. Sure \subseteq Lasting
  BY DEF SureOf, Lasting
<1> HIDE DEF N, Sure
<1>5. ASSUME NEW s \in 1 .. N
      PROVE  /\ groups[s] \in Seq(Piece) /\ InTurn(groups[s], Lasting)
             /\ \A k \in 1 .. Len(words) : own[k] = s /\ of[k] = s => Holds(groups[s], words[k])
             /\ \A w : Holds(groups[s], w) => \E k \in 1 .. Len(words) : words[k] = w /\ (own[k] = s \/ of[k] = s)
  <2>1. s \in DOMAIN segs /\ s \in 1 .. Len(segs)
    BY <1>1 DEF N
  <2>2. groups[s] = IF Length(segs[s]) <= MaxLength \/ MappedBy(of, words, s) = <<>>
                    THEN <<segs[s]>> ELSE SplitByWords(segs[s], MappedBy(of, words, s))
    BY <2>1
  <2>3. GroupFrom(groups[s], words, own, of, s)
    BY <2>1, <2>2, GroupOf
  <2>4. QED
    BY <2>3 DEF GroupFrom
<1>6. groups \in Seq(Seq(Piece)) /\ Len(groups) = N
  <2> DEFINE g == [s \in 1 .. N |-> groups[s]]
  <2>1. groups = g
    BY <1>1
  <2>2. g \in [1 .. N -> Seq(Piece)]
    BY <1>5
  <2> HIDE DEF g
  <2>3. g \in Seq(Seq(Piece)) /\ DOMAIN g = 1 .. N
    BY <1>1, <2>2, IsASeq
  <2>4. Len(g) = N
    BY <1>1, <2>3, LenProperties
  <2>5. QED
    BY <2>1, <2>3, <2>4
<1>7. \A s \in 1 .. Len(groups) : InTurn(groups[s], Sure)
  BY <1>4, <1>5, <1>6, LessInTurn
<1>8. ASSUME NEW s \in 1 .. N, NEW w \in Sure, Holds(groups[s], w)
      PROVE  \E k \in 1 .. Len(words) : words[k] = w /\ own[k] = s
  <2>1. PICK k \in 1 .. Len(words) : words[k] = w /\ (own[k] = s \/ of[k] = s)
    BY <1>5, <1>8
  <2>2. of[k] = own[k]
    BY <2>1, SureGiven DEF Sure
  <2>3. QED
    BY <2>1, <2>2
<1>9. ASSUME NEW g \in 1 .. Len(groups), NEW h \in 1 .. Len(groups), NEW v \in Sure, NEW w \in Sure,
             g < h, Holds(groups[g], v), Holds(groups[h], w)
      PROVE  v.end <= w.start
  <2>1. PICK k \in 1 .. Len(words) : words[k] = v /\ own[k] = g
    BY <1>6, <1>8, <1>9
  <2>2. PICK l \in 1 .. Len(words) : words[l] = w /\ own[l] = h
    BY <1>6, <1>8, <1>9
  <2>3. k < l
    <3>1. l < k => own[l] <= own[k]
      BY DEF Owned
    <3>2. k # l /\ ~(l < k)
      BY <1>6, <1>1, <1>9, <2>1, <2>2, <3>1
    <3>3. QED
      BY <1>3, <3>2
  <2>4. QED
    BY <2>1, <2>2, <2>3 DEF OneByOne
<1>10. InTurn(FlattenSeq(groups), Sure)
  BY <1>6, <1>7, <1>9, JoinedInTurn
<1>11. /\ FlattenSeq(groups) \in Seq(Piece)
       /\ \A w : Holds(FlattenSeq(groups), w) <=> \E g \in 1 .. Len(groups) : Holds(groups[g], w)
  BY <1>6, Joined
<1>12. ASSUME NEW w, Holds(FlattenSeq(groups), w) PROVE \E k \in 1 .. Len(words) : words[k] = w
  <2>1. PICK g \in 1 .. N : Holds(groups[g], w)
    BY <1>6, <1>11, <1>12
  <2>2. \E k \in 1 .. Len(words) : words[k] = w /\ (own[k] = g \/ of[k] = g)
    BY <1>5, <2>1
  <2>3. QED
    BY <2>2
<1>13. ASSUME NEW k \in 1 .. Len(words), own[k] = of[k] PROVE Holds(FlattenSeq(groups), words[k])
  <2>1. own[k] \in 1 .. N
    BY <1>2
  <2>2. Holds(groups[own[k]], words[k])
    BY <1>5, <1>13, <2>1
  <2>3. QED
    BY <1>6, <1>11, <2>1, <2>2
<1>14. QED
  BY <1>10, <1>11, <1>12, <1>13 DEF Sure

\* A word that does not lie at the border is given to the first of the segs it is of.
LEMMA FirstOwner ==
  ASSUME NEW segs, Recognized(segs), NEW words, OneByOne(words),
         NEW own, Owned(own, words, segs), NEW of, Given(of, words, segs),
         NEW s \in 1 .. Len(segs), NEW w \in ToSet(segs[s].words), ~AtBorderOf(w, segs)
  PROVE  \E k \in 1 .. Len(words) : words[k] = w /\ own[k] = of[k]
<1> DEFINE T == {r \in 1 .. Len(segs) : w \in ToSet(segs[r].words)}
<1>1. Len(segs) \in Nat
  BY SegmentsAre
<1>2. T \subseteq Nat /\ T # {}
  OBVIOUS
<1>3. PICK r \in T : \A q \in T : r <= q
  BY <1>2, LeastNatural
<1>4. r \in 1 .. Len(segs) /\ w \in ToSet(segs[r].words)
  BY <1>3
<1>5. \A q \in 1 .. Len(segs) : w \in ToSet(segs[q].words) => r <= q
  BY <1>3
<1> HIDE DEF T
<1>6. PICK j \in 1 .. Len(segs[r].words) : w = segs[r].words[j]
  <2>1. segs[r] \in Piece
    BY <1>4, SegmentsAre
  <2>2. segs[r].words \in Seq(Word)
    BY <2>1 DEF Piece
  <2>3. DOMAIN segs[r].words = 1 .. Len(segs[r].words)
    BY <2>2, LenProperties
  <2>4. QED
    BY <1>4, <2>3 DEF ToSet
<1>7. PICK k \in 1 .. Len(words) : own[k] = r /\ words[k] = w
  BY <1>4, <1>6 DEF Owned
<1>8. of[k] \in 1 .. Len(segs) /\ of[k] <= own[k]
  BY OwnFits
<1>9. ASSUME of[k] < own[k] PROVE FALSE
  <2>1. w \notin ToSet(segs[of[k]].words)
    <3>1. of[k] < r /\ r \in Int /\ of[k] \in Int
      BY <1>1, <1>4, <1>7, <1>8, <1>9
    <3>2. ~(r <= of[k])
      BY <3>1
    <3>3. QED
      BY <1>5, <1>8, <3>2
  <2>2. AtBorderOf(words[k], segs)
    BY <1>7, <1>9, <2>1, GivenEarlier
  <2>3. QED
    BY <1>7, <2>2
<1>10. of[k] = own[k]
  BY <1>1, <1>4, <1>7, <1>8, <1>9
<1>11. QED
  BY <1>7, <1>10

\* What SpeechKept says of pieces.
KeptIn(segs, pieces) ==
  /\ pieces \in Seq(Piece) /\ InTurn(pieces, SureOf(segs))
  /\ \A w : Holds(pieces, w) => \E s \in 1 .. Len(segs) : w \in ToSet(segs[s].words)
  /\ \A s \in 1 .. Len(segs) : \A w \in ToSet(segs[s].words) :
       ~AtBorderOf(w, segs) => Holds(pieces, w)

LEMMA PiecesKept ==
  ASSUME NEW segs, Recognized(segs)
  PROVE  KeptIn(segs, SplitLong(segs))
<1>1. Len(segs) \in Nat /\ DOMAIN segs = 1 .. Len(segs)
  BY SegmentsAre
<1> DEFINE pieces == SplitLong(segs)
<1>2. CASE segs = <<>>
  <2>1. DOMAIN segs = {} /\ Len(segs) = 0
    BY <1>2
  <2> DEFINE g == [i \in DOMAIN segs |->
       IF Length(segs[i]) <= MaxLength \/ MapWords(segs)[i] = <<>> THEN <<segs[i]>>
       ELSE SplitByWords(segs[i], MapWords(segs)[i])]
  <2>2. g = <<>>
    BY <2>1
  <2>3. pieces = FlattenSeq(g)
    BY DEF SplitLong
  <2> HIDE DEF g, pieces
  <2>4. <<>> \in Seq(Seq(Piece)) /\ Len(<<>>) = 0
    OBVIOUS
  <2>5. pieces \in Seq(Piece) /\ \A w : ~Holds(pieces, w)
    <3>1. /\ FlattenSeq(g) \in Seq(Piece)
          /\ \A w : Holds(FlattenSeq(g), w) <=> \E r \in 1 .. Len(g) : Holds(g[r], w)
      BY <2>2, <2>4, Joined
    <3>2. \A r \in 1 .. Len(g) : FALSE
      BY <2>2, <2>4
    <3>3. QED
      BY <2>3, <3>1, <3>2
  <2>6. InTurn(pieces, SureOf(segs))
    <3>1. ASSUME NEW i \in 1 .. Len(pieces), NEW j \in 1 .. Len(pieces[i].words) PROVE FALSE
      <4>1. Holds(pieces, pieces[i].words[j])
        BY DEF Holds
      <4>2. QED
        BY <2>5, <4>1
    <3>2. QED
      BY <3>1 DEF InTurn
  <2>7. \A s \in 1 .. Len(segs) : FALSE
    BY <2>1
  <2>8. KeptIn(segs, pieces)
    BY <2>5, <2>6, <2>7 DEF KeptIn
  <2>9. QED
    BY <2>8 DEF pieces
<1>3. CASE segs # <<>>
  <2> DEFINE words == FlattenSeq([s \in DOMAIN segs |-> segs[s].words])
  <2>1. OneByOne(words) /\ \E own : Owned(own, words, segs)
    BY SpokenIs
  <2>2. PICK own : Owned(own, words, segs)
    BY <2>1
  <2>3. \E of : MapsBy(of, words, segs)
    <3>1. words = FlattenSeq([s \in DOMAIN segs |-> segs[s].words])
      OBVIOUS
    <3> HIDE DEF words
    <3>2. QED
      BY <1>3, <3>1, MapIs
  <2> HIDE DEF words
  <2>4. PICK of : Given(of, words, segs)
                  /\ MapWords(segs) = [s \in DOMAIN segs |-> MappedBy(of, words, s)]
    BY <2>3 DEF MapsBy
  <2> DEFINE groups == [s \in DOMAIN segs |->
           IF Length(segs[s]) <= MaxLength \/ MappedBy(of, words, s) = <<>>
           THEN <<segs[s]>> ELSE SplitByWords(segs[s], MappedBy(of, words, s))]
  <2>5. pieces = FlattenSeq(groups)
    <3> DEFINE g == [i \in DOMAIN segs |->
         IF Length(segs[i]) <= MaxLength \/ MapWords(segs)[i] = <<>> THEN <<segs[i]>>
         ELSE SplitByWords(segs[i], MapWords(segs)[i])]
    <3>1. pieces = FlattenSeq(g)
      BY DEF SplitLong
    <3>2. \A s \in DOMAIN segs : MapWords(segs)[s] = MappedBy(of, words, s)
      BY <2>4
    <3>3. g = groups
      BY <3>2
    <3>4. QED
      BY <3>1, <3>3
  <2>6. /\ FlattenSeq(groups) \in Seq(Piece) /\ InTurn(FlattenSeq(groups), SureOf(segs))
        /\ \A w : Holds(FlattenSeq(groups), w) => \E k \in 1 .. Len(words) : words[k] = w
        /\ \A k \in 1 .. Len(words) : own[k] = of[k] => Holds(FlattenSeq(groups), words[k])
    BY <2>1, <2>2, <2>4, AllGroups
  <2> HIDE DEF groups, pieces
  <2>7. ASSUME NEW w, Holds(pieces, w)
        PROVE  \E s \in 1 .. Len(segs) : w \in ToSet(segs[s].words)
    <3>1. PICK k \in 1 .. Len(words) : words[k] = w
      BY <2>5, <2>6, <2>7
    <3>2. own[k] \in 1 .. Len(segs)
      BY <2>2 DEF Owned
    <3>3. PICK j \in 1 .. Len(segs[own[k]].words) : words[k] = segs[own[k]].words[j]
      BY <2>2 DEF Owned
    <3>4. segs[own[k]].words \in Seq(Word)
      <4>1. segs[own[k]] \in Piece
        BY <3>2, SegmentsAre
      <4>2. QED
        BY <4>1 DEF Piece
    <3>5. DOMAIN segs[own[k]].words = 1 .. Len(segs[own[k]].words)
      BY <3>4, LenProperties
    <3>6. w \in ToSet(segs[own[k]].words)
      BY <3>1, <3>3, <3>5 DEF ToSet
    <3>7. QED
      BY <3>2, <3>6
  <2>8. ASSUME NEW s \in 1 .. Len(segs), NEW w \in ToSet(segs[s].words),
               ~AtBorderOf(w, segs)
        PROVE  Holds(pieces, w)
    <3>1. PICK k \in 1 .. Len(words) : words[k] = w /\ own[k] = of[k]
      BY <2>1, <2>2, <2>4, <2>8, FirstOwner
    <3>2. QED
      BY <2>5, <2>6, <3>1
  <2>9. KeptIn(segs, pieces)
    BY <2>5, <2>6, <2>7, <2>8 DEF KeptIn
  <2>10. QED
    BY <2>9 DEF pieces
<1>4. QED
  BY <1>2, <1>3

LEMMA EveryWordKept ==
  ASSUME NEW segs, Recognized(segs)
  PROVE  SpeechKept(segs)
<1> DEFINE pieces == SplitLong(segs)
<1> DEFINE spoken == UNION {ToSet(segs[s].words) : s \in DOMAIN segs}
<1> DEFINE written == FlattenSeq([i \in DOMAIN pieces |-> pieces[i].words])
<1>1. Len(segs) \in Nat /\ DOMAIN segs = 1 .. Len(segs)
  BY SegmentsAre
<1>2. KeptIn(segs, pieces)
  BY PiecesKept
<1> HIDE DEF pieces
<1>3. /\ written \in Seq(Word)
      /\ \A w : w \in ToSet(written) <=> Holds(pieces, w)
      /\ \A T : InTurn(pieces, T) =>
           \A i, j \in DOMAIN written :
             i < j /\ written[i] \in T /\ written[j] \in T => written[i].end <= written[j].start
  BY <1>2, WrittenIs DEF KeptIn
<1> HIDE DEF written
<1>4. \A w : w \in spoken <=> \E s \in 1 .. Len(segs) : w \in ToSet(segs[s].words)
  BY <1>1
<1> HIDE DEF spoken
<1>5. ToSet(written) \subseteq spoken
  BY <1>2, <1>3, <1>4 DEF KeptIn
<1>6. \A w \in spoken : ~AtBorderOf(w, segs) => w \in ToSet(written)
  BY <1>2, <1>3, <1>4 DEF KeptIn
<1>7. ASSUME NEW i \in DOMAIN written, NEW j \in DOMAIN written, i < j,
             ~AtBorderOf(written[i], segs), written[i].end - written[i].start > CutTol,
             ~AtBorderOf(written[j], segs), written[j].end - written[j].start > CutTol
      PROVE  written[i].end <= written[j].start
  <2>1. written[i] \in Word /\ written[j] \in Word
    BY <1>3, LenProperties, ElementOfSeq
  <2>2. written[i] \in SureOf(segs) /\ written[j] \in SureOf(segs)
    BY <1>7, <2>1 DEF SureOf
  <2>3. InTurn(pieces, SureOf(segs))
    BY <1>2 DEF KeptIn
  <2>4. QED
    BY <1>3, <1>7, <2>2, <2>3
<1>8. QED
  BY <1>5, <1>6, <1>7 DEF SpeechKept, AtBorderOf, pieces, spoken, written

-----------------------------------------------------------------------------

LEMMA ChunksAre ==
  ASSUME NEW frames \in Nat, NEW size \in Nat \ {0}
  PROVE  Chunks(frames, size) \in Seq([start : Int, end : Int])
<1> DEFINE n == (frames + size - 1) \div size
<1>1. n \in Nat
  <2>1. frames + size - 1 \in Nat /\ size \in Nat /\ size > 0
    OBVIOUS
  <2>2. QED
    BY <2>1, SMTT(30)
<1>2. Chunks(frames, size) = [i \in 1 .. n |-> [start |-> (i - 1) * size, end |-> Min({i * size, frames})]]
  BY DEF Chunks
<1> HIDE DEF n
<1>3. ASSUME NEW i \in 1 .. n
      PROVE  [start |-> (i - 1) * size, end |-> Min({i * size, frames})] \in [start : Int, end : Int]
  <2>1. i * size \in Nat /\ (i - 1) * size \in Nat
    BY <1>1
  <2>2. {i * size, frames} \subseteq Nat /\ {i * size, frames} # {}
    BY <2>1
  <2>3. Min({i * size, frames}) \in {i * size, frames}
    BY <2>2, LeastOf
  <2>4. Min({i * size, frames}) \in Int
    BY <2>2, <2>3
  <2>5. QED
    BY <2>1, <2>4
<1>4. Chunks(frames, size) \in [1 .. n -> [start : Int, end : Int]]
  BY <1>2, <1>3
<1> DEFINE W == [start : Int, end : Int]
<1>5. Chunks(frames, size) \in [1 .. n -> W]
  BY <1>4
<1> HIDE DEF W
<1>6. Chunks(frames, size) \in Seq(W)
  BY <1>1, <1>5, IsASeq
<1>7. QED
  BY <1>6 DEF W

\* As many, when there are as many in each.
LEMMA SameLengths ==
  ASSUME NEW S, NEW T, NEW s \in Seq(Seq(S)), NEW t \in Seq(Seq(T)), Len(s) = Len(t),
         \A i \in 1 .. Len(s) : Len(s[i]) = Len(t[i])
  PROVE  Len(FlattenSeq(s)) = Len(FlattenSeq(t))
<1> DEFINE n == Len(s)
<1>1. n \in Nat /\ \A i \in 1 .. n : s[i] \in Seq(S) /\ t[i] \in Seq(T)
  BY LenProperties, ElementOfSeq
<1>2. PICK f \in [0 .. n -> Seq(S)] :
        /\ f[0] = <<>> /\ \A i \in 1 .. n : f[i] = f[i - 1] \o s[i]
        /\ FlattenSeq(s) = f[n]
  BY FlattenIs
<1>3. PICK g \in [0 .. n -> Seq(T)] :
        /\ g[0] = <<>> /\ \A i \in 1 .. n : g[i] = g[i - 1] \o t[i]
        /\ FlattenSeq(t) = g[n]
  <2>1. n = Len(t)
    OBVIOUS
  <2>2. QED
    BY <2>1, FlattenIs
<1>4. \A i \in 1 .. n : Len(s[i]) = Len(t[i])
  OBVIOUS
<1> HIDE DEF n
<1> DEFINE Q == {i \in 0 .. n : Len(f[i]) = Len(g[i])}
<1>5. 0 \in Q
  BY <1>1, <1>2, <1>3
<1>6. ASSUME NEW i \in 1 .. n, i - 1 \in Q PROVE i \in Q
  <2>1. i \in 0 .. n /\ i - 1 \in 0 .. n
    BY <1>1
  <2>2. f[i - 1] \in Seq(S) /\ g[i - 1] \in Seq(T) /\ s[i] \in Seq(S) /\ t[i] \in Seq(T)
    BY <1>1, <1>2, <1>3, <2>1
  <2>3. Len(f[i - 1] \o s[i]) = Len(f[i - 1]) + Len(s[i]) /\ Len(g[i - 1] \o t[i]) = Len(g[i - 1]) + Len(t[i])
    BY <2>2, ConcatProperties
  <2>4. QED
    BY <1>2, <1>3, <1>4, <1>6, <2>1, <2>3
<1>7. \A i \in 0 .. n : i \in Q
  <2> HIDE DEF Q
  <2>1. QED
    BY <1>1, <1>5, <1>6, UpTo
<1>8. n \in Q
  BY <1>1, <1>7
<1>9. QED
  BY <1>2, <1>3, <1>8

LEMMA OrderIs ==
  ASSUME NEW n \in Nat, NEW W, StrictOrder(1 .. n, W)
  PROVE  Ranks(Ranked(1 .. n, W), n, 1 .. n, W)
<1>1. IsFiniteSet(1 .. n) /\ Cardinality(1 .. n) = n
  BY FS_Interval
<1>2. Ranks(Ranked(1 .. n, W), Cardinality(1 .. n), 1 .. n, W)
  BY <1>1, RankedIs
<1>3. QED
  BY <1>1, <1>2

\* The same elements, in the order of their starts.
SortedBy(t, s) ==
  /\ DOMAIN t = DOMAIN s
  /\ \A i \in DOMAIN t : \E k \in DOMAIN s : t[i] = s[k]
  /\ \A k \in DOMAIN s : \E i \in DOMAIN t : t[i] = s[k]

StartsInOrder(t) == \A i, j \in DOMAIN t : i < j => t[i].start <= t[j].start

ByStart(s) == Sorted(s, LAMBDA v, w : v.start < w.start)

LEMMA SortedByStart ==
  ASSUME NEW s, NEW n \in Nat, DOMAIN s = 1 .. n, \A i \in 1 .. n : s[i].start \in Int
  PROVE  SortedBy(ByStart(s), s) /\ StartsInOrder(ByStart(s))
<1> DEFINE D == 1 .. n
<1> DEFINE W == {p \in D \X D : \/ s[p[1]].start < s[p[2]].start
                                \/ ~(s[p[2]].start < s[p[1]].start) /\ p[1] < p[2]}
<1> DEFINE r == Ranked(1 .. n, W)
<1> DEFINE t == [i \in 1 .. n |-> s[r[i]]]
<1>0. ByStart(s) = t
  BY DEF Sorted, ByStart
<1>1. t = [i \in 1 .. n |-> s[r[i]]]
  OBVIOUS
<1>2. \A i, j \in 1 .. n : <<i, j>> \in W <=>
         \/ s[i].start < s[j].start
         \/ ~(s[j].start < s[i].start) /\ i < j
  OBVIOUS
<1> HIDE DEF W, t
<1>3. StrictOrder(1 .. n, W)
  <2>1. \A i \in 1 .. n : s[i].start \in Int /\ i \in Int
    OBVIOUS
  <2>2. \A i \in 1 .. n : <<i, i>> \notin W
    BY <1>2, <2>1
  <2>3. \A i, j \in 1 .. n : i # j => <<i, j>> \in W \/ <<j, i>> \in W
    BY <1>2, <2>1
  <2>4. \A i, j, k \in 1 .. n : <<i, j>> \in W /\ <<j, k>> \in W => <<i, k>> \in W
    BY <1>2, <2>1
  <2>5. QED
    BY <2>2, <2>3, <2>4 DEF StrictOrder
<1>4. /\ r \in [1 .. n -> 1 .. n]
      /\ \A i \in 1 .. n : \E k \in 1 .. n : r[k] = i
      /\ \A i, j \in 1 .. n : i < j => <<r[i], r[j]>> \in W
  BY <1>3, OrderIs DEF Ranks
<1> HIDE DEF r
<1>5. SortedBy(t, s)
  BY <1>1, <1>4 DEF SortedBy
<1>6. ASSUME NEW i \in 1 .. n, NEW j \in 1 .. n, i < j PROVE t[i].start <= t[j].start
  <2>1. <<r[i], r[j]>> \in W /\ r[i] \in 1 .. n /\ r[j] \in 1 .. n
    BY <1>4, <1>6
  <2>2. s[r[i]].start \in Int /\ s[r[j]].start \in Int
    BY <2>1
  <2>3. s[r[i]].start < s[r[j]].start \/ ~(s[r[j]].start < s[r[i]].start)
    BY <1>2, <2>1
  <2>4. s[r[i]].start <= s[r[j]].start
    BY <2>2, <2>3
  <2>5. QED
    BY <1>1, <2>4
<1>7. StartsInOrder(t)
  <2>1. DOMAIN t = 1 .. n
    BY <1>1
  <2>2. QED
    BY <1>6, <2>1 DEF StartsInOrder
<1>8. QED
  BY <1>0, <1>5, <1>7

LEMMA ShiftedIs ==
  ASSUME NEW chunk \in [start : Int, end : Int], NEW s \in [start : Nat, end : Int],
         s.start < chunk.end - chunk.start
  PROVE  /\ Shifted(chunk, s) \in [start : Int, end : Int]
         /\ Shifted(chunk, s).start < Shifted(chunk, s).end
         /\ Shifted(chunk, s).start >= chunk.start /\ Shifted(chunk, s).end <= chunk.end
<1> DEFINE a == chunk.start + s.start
<1> DEFINE b == chunk.start + s.end
<1> DEFINE e == chunk.end
<1> DEFINE m == Min({e, b})
<1>1. a \in Int /\ b \in Int /\ e \in Int /\ chunk.start \in Int /\ a < e /\ a >= chunk.start
  OBVIOUS
<1>2. m = IF e <= b THEN e ELSE b
  <2> HIDE DEF e, b
  <2>1. \A x \in {e, b} : x \in Int
    BY <1>1
  <2>2. ASSUME NEW x \in {e, b}, \A y \in {e, b} : x <= y, NEW z \in {e, b}, \A y \in {e, b} : z <= y
        PROVE  x = z
    BY <2>1, <2>2
  <2>3. \E x \in {e, b} : \A y \in {e, b} : x <= y
    BY <2>1
  <2>4. m \in {e, b} /\ \A y \in {e, b} : m <= y
    BY <2>3 DEF Min
  <2>5. QED
    BY <2>1, <2>4
<1>3. Shifted(chunk, s) = [start |-> a, end |-> IF m <= a THEN e ELSE m]
  BY DEF Shifted
<1> HIDE DEF a, b, e, m
<1>4. QED
  BY <1>1, <1>2, <1>3 DEF e

LEMMA IsSeqOf ==
  ASSUME NEW n \in Nat, NEW S, NEW f \in [1 .. n -> S]
  PROVE  f \in Seq(S) /\ Len(f) = n /\ DOMAIN f = 1 .. n
OBVIOUS

\* Of more parts than one.
LEMMA EveryChunkInPlace ==
  ASSUME NEW parts \in Seq([start : Int, end : Int]), NEW told, HeardInChunks(parts, told)
  PROVE  ChunksInPlace(parts, told)
<1> DEFINE Range0 == [start : Int, end : Int]
<1> DEFINE Told == [start : Nat, end : Int]
<1> DEFINE n == Len(parts)
<1> DEFINE shifted == [i \in DOMAIN parts |-> [j \in DOMAIN told[i] |-> Shifted(parts[i], told[i][j])]]
<1> DEFINE flat == FlattenSeq(shifted)
<1> DEFINE merged == ChunkedMerge(parts, told)
<1>1. /\ n \in Nat /\ DOMAIN parts = 1 .. n /\ \A i \in 1 .. n : parts[i] \in Range0
      /\ told \in Seq(Seq(Told)) /\ Len(told) = n /\ DOMAIN told = 1 .. n
  BY LenProperties, ElementOfSeq DEF HeardInChunks
<1>2. \A i \in 1 .. n : /\ told[i] \in Seq(Told) /\ DOMAIN told[i] = 1 .. Len(told[i])
                        /\ Len(told[i]) \in Nat
                        /\ \A j \in 1 .. Len(told[i]) : told[i][j] \in Told
  <2> HIDE DEF Told, n
  <2>1. QED
    BY <1>1, LenProperties, ElementOfSeq
<1>3. SUFFICES ASSUME n > 1
               PROVE  /\ Len(merged) = Len(FlattenSeq(told))
                      /\ \A i \in DOMAIN merged :
                           /\ merged[i].start < merged[i].end
                           /\ i > 1 => merged[i - 1].start <= merged[i].start
                           /\ \E c \in ToSet(parts) : merged[i].start >= c.start /\ merged[i].end <= c.end
  BY DEF ChunksInPlace
<1>4. merged = ByStart(flat)
  <2>1. ~(Len(parts) <= 1)
    BY <1>1, <1>3
  <2>2. QED
    BY <2>1 DEF ChunkedMerge, ByStart
<1>5. ASSUME NEW i \in 1 .. n, NEW j \in 1 .. Len(told[i])
      PROVE  /\ Shifted(parts[i], told[i][j]) \in Range0
             /\ Shifted(parts[i], told[i][j]).start < Shifted(parts[i], told[i][j]).end
             /\ Shifted(parts[i], told[i][j]).start >= parts[i].start
             /\ Shifted(parts[i], told[i][j]).end <= parts[i].end
  <2>1. told[i][j].start < parts[i].end - parts[i].start
    BY <1>1, <1>2 DEF HeardInChunks
  <2>2. parts[i] \in Range0 /\ told[i][j] \in Told
    BY <1>1, <1>2
  <2>3. QED
    BY <2>1, <2>2, ShiftedIs
<1> HIDE DEF merged, flat
<1>6. ASSUME NEW i \in 1 .. n
      PROVE  /\ shifted[i] \in Seq(Range0) /\ Len(shifted[i]) = Len(told[i])
             /\ \A j \in 1 .. Len(told[i]) : shifted[i][j] = Shifted(parts[i], told[i][j])
  <2> DEFINE g == [j \in 1 .. Len(told[i]) |-> Shifted(parts[i], told[i][j])]
  <2>1. shifted[i] = g
    BY <1>1, <1>2
  <2>2. g \in [1 .. Len(told[i]) -> Range0]
    BY <1>5
  <2>3. Len(told[i]) \in Nat
    BY <1>2
  <2>4. \A j \in 1 .. Len(told[i]) : g[j] = Shifted(parts[i], told[i][j])
    OBVIOUS
  <2> HIDE DEF g, Range0, shifted
  <2>5. g \in Seq(Range0) /\ Len(g) = Len(told[i])
    BY <2>2, <2>3, IsSeqOf
  <2>6. QED
    BY <2>1, <2>4, <2>5
<1>7. shifted \in Seq(Seq(Range0)) /\ Len(shifted) = n
  <2>1. DOMAIN shifted = 1 .. n /\ shifted = [i \in 1 .. n |-> shifted[i]]
    BY <1>1
  <2> HIDE DEF shifted, Range0
  <2>2. shifted \in [1 .. n -> Seq(Range0)]
    BY <1>6, <2>1
  <2>3. QED
    BY <1>1, <2>2, IsSeqOf
<1> HIDE DEF shifted, Range0, Told
<1>8. Len(flat) = Len(FlattenSeq(told))
  <2>1. told \in Seq(Seq(Told)) /\ Len(shifted) = Len(told)
    BY <1>1, <1>7
  <2>2. \A i \in 1 .. Len(shifted) : Len(shifted[i]) = Len(told[i])
    BY <1>6, <1>7
  <2>3. shifted \in Seq(Seq(Range0))
    BY <1>7
  <2> HIDE DEF n
  <2>4. QED
    BY <2>1, <2>2, <2>3, SameLengths DEF flat
<1>9. flat \in Seq(Range0) /\ \E row, col : PlacesOf(row, col, flat, shifted, n)
  BY <1>7, FlatPlaces DEF flat
<1>10. PICK row, col : PlacesOf(row, col, flat, shifted, n)
  BY <1>9
<1>11. Len(flat) \in Nat /\ DOMAIN flat = 1 .. Len(flat) /\ \A p \in 1 .. Len(flat) : flat[p].start \in Int
  <2>1. Len(flat) \in Nat /\ DOMAIN flat = 1 .. Len(flat) /\ \A p \in 1 .. Len(flat) : flat[p] \in Range0
    BY <1>9, LenProperties, ElementOfSeq
  <2>2. QED
    BY <2>1 DEF Range0
<1>12. SortedBy(merged, flat) /\ StartsInOrder(merged)
  <2>1. SortedBy(ByStart(flat), flat) /\ StartsInOrder(ByStart(flat))
    BY <1>11, SortedByStart
  <2>2. QED
    BY <1>4, <2>1
<1>13. DOMAIN merged = 1 .. Len(flat)
  BY <1>11, <1>12 DEF SortedBy
<1>14. Len(merged) = Len(flat)
  <2>1. merged \in [1 .. Len(flat) -> Range0]
    <3>1. \A p \in 1 .. Len(flat) : flat[p] \in Range0
      BY <1>9, ElementOfSeq
    <3>2. \A p \in 1 .. Len(flat) : merged[p] \in Range0
      BY <1>11, <1>12, <1>13, <3>1 DEF SortedBy
    <3>3. merged = [p \in 1 .. Len(flat) |-> merged[p]]
      BY <1>4, <1>13 DEF Sorted, ByStart
    <3>4. QED
      BY <3>2, <3>3
  <2>2. QED
    BY <1>11, <2>1, IsSeqOf
<1>15. ASSUME NEW i \in DOMAIN merged
       PROVE  /\ merged[i].start < merged[i].end
              /\ \E c \in ToSet(parts) : merged[i].start >= c.start /\ merged[i].end <= c.end
  <2>1. PICK p \in 1 .. Len(flat) : merged[i] = flat[p]
    BY <1>11, <1>12 DEF SortedBy
  <2>2. row[p] \in 1 .. n /\ col[p] \in 1 .. Len(shifted[row[p]]) /\ flat[p] = shifted[row[p]][col[p]]
    BY <1>10 DEF PlacesOf
  <2>3. col[p] \in 1 .. Len(told[row[p]]) /\ flat[p] = Shifted(parts[row[p]], told[row[p]][col[p]])
    BY <1>6, <2>2
  <2>4. parts[row[p]] \in ToSet(parts)
    BY <1>1, <2>2 DEF ToSet
  <2>5. QED
    BY <1>5, <2>1, <2>2, <2>3, <2>4
<1>16. ASSUME NEW i \in DOMAIN merged, i > 1 PROVE merged[i - 1].start <= merged[i].start
  <2>1. i - 1 \in DOMAIN merged /\ i - 1 < i
    BY <1>11, <1>13, <1>16
  <2>2. QED
    BY <1>12, <2>1 DEF StartsInOrder
<1>17. QED
  BY <1>8, <1>14, <1>15, <1>16

-----------------------------------------------------------------------------

TurnOrder(s) ==
  Sorted(s, LAMBDA v, w : \/ v.time < w.time
                          \/ v.time = w.time /\ v.speaker = "customer" /\ w.speaker = "agent")

LEMMA SortedByTurn ==
  ASSUME NEW s, NEW n \in Nat, DOMAIN s = 1 .. n,
         \A i \in 1 .. n : s[i].time \in Int /\ s[i].speaker \in {"agent", "customer"}
  PROVE  SortedBy(TurnOrder(s), s)
<1> DEFINE Before(v, w) == \/ v.time < w.time
                           \/ v.time = w.time /\ v.speaker = "customer" /\ w.speaker = "agent"
<1> DEFINE D == 1 .. n
<1> DEFINE W == {p \in D \X D : \/ Before(s[p[1]], s[p[2]])
                                \/ ~Before(s[p[2]], s[p[1]]) /\ p[1] < p[2]}
<1> DEFINE r == Ranked(1 .. n, W)
<1> DEFINE t == [i \in 1 .. n |-> s[r[i]]]
<1>0. TurnOrder(s) = t
  BY DEF Sorted, TurnOrder
<1>1. t = [i \in 1 .. n |-> s[r[i]]]
  OBVIOUS
<1>2. \A i, j \in 1 .. n : <<i, j>> \in W <=> Before(s[i], s[j]) \/ (~Before(s[j], s[i]) /\ i < j)
  OBVIOUS
<1>3. ASSUME NEW i \in 1 .. n, NEW j \in 1 .. n, NEW k \in 1 .. n
      PROVE  /\ ~Before(s[i], s[i])
             /\ Before(s[i], s[j]) => ~Before(s[j], s[i])
             /\ Before(s[i], s[j]) /\ Before(s[j], s[k]) => Before(s[i], s[k])
             /\ ~Before(s[i], s[j]) /\ ~Before(s[j], s[k]) => ~Before(s[i], s[k])
  <2>1. /\ s[i].time \in Int /\ s[j].time \in Int /\ s[k].time \in Int
        /\ s[i].speaker \in {"agent", "customer"} /\ s[j].speaker \in {"agent", "customer"}
        /\ s[k].speaker \in {"agent", "customer"}
    OBVIOUS
  <2>2. ~Before(s[i], s[i])
    BY <2>1
  <2>3. Before(s[i], s[j]) => ~Before(s[j], s[i])
    BY <2>1
  <2>4. Before(s[i], s[j]) /\ Before(s[j], s[k]) => Before(s[i], s[k])
    BY <2>1
  <2>5. ~Before(s[i], s[j]) /\ ~Before(s[j], s[k]) => ~Before(s[i], s[k])
    BY <2>1
  <2> HIDE DEF Before
  <2>6. QED
    BY <2>2, <2>3, <2>4, <2>5
<1> HIDE DEF W, t, Before
<1>4. /\ \A i \in 1 .. n : <<i, i>> \notin W
      /\ \A i, j \in 1 .. n : i # j => <<i, j>> \in W \/ <<j, i>> \in W
  BY <1>2, <1>3
<1>5. ASSUME NEW i \in 1 .. n, NEW j \in 1 .. n, NEW k \in 1 .. n, <<i, j>> \in W, <<j, k>> \in W
      PROVE  <<i, k>> \in W
  <2>1. /\ Before(s[i], s[j]) \/ (~Before(s[j], s[i]) /\ i < j)
        /\ Before(s[j], s[k]) \/ (~Before(s[k], s[j]) /\ j < k)
    BY <1>2, <1>5
  <2>2. /\ Before(s[i], s[j]) /\ Before(s[j], s[k]) => Before(s[i], s[k])
        /\ ~Before(s[k], s[j]) /\ ~Before(s[j], s[i]) => ~Before(s[k], s[i])
        /\ ~Before(s[i], s[k]) /\ ~Before(s[k], s[j]) => ~Before(s[i], s[j])
        /\ ~Before(s[j], s[i]) /\ ~Before(s[i], s[k]) => ~Before(s[j], s[k])
    BY <1>3
  <2>3. Before(s[i], s[k]) \/ (~Before(s[k], s[i]) /\ i < k)
    <3>1. i < j /\ j < k => i < k
      OBVIOUS
    <3>2. QED
      BY <2>1, <2>2, <3>1
  <2>4. QED
    BY <1>2, <2>3
<1>6. /\ r \in [1 .. n -> 1 .. n]
      /\ \A i \in 1 .. n : \E k \in 1 .. n : r[k] = i
  <2>1. StrictOrder(1 .. n, W)
    BY <1>4, <1>5 DEF StrictOrder
  <2>2. QED
    BY <2>1, OrderIs DEF Ranks
<1> HIDE DEF r
<1>7. SortedBy(t, s)
  BY <1>1, <1>6 DEF SortedBy
<1>8. QED
  BY <1>0, <1>7

\* The times of turns.
Times(q) == {[time |-> q[i].start, end |-> q[i].end] : i \in 1 .. Len(q)}

TimesOf(merged, speaker) ==
  {[time |-> t.time, end |-> t.end] : t \in {u \in ToSet(merged) : u.speaker = speaker}}

LEMMA MergedTimes ==
  ASSUME NEW a \in Turns, NEW b \in Turns
  PROVE  /\ TimesOf(TurnOrder(Said(a, "agent") \o Said(b, "customer")), "agent") = Times(a)
         /\ TimesOf(TurnOrder(Said(a, "agent") \o Said(b, "customer")), "customer") = Times(b)
<1> DEFINE T == [time : Int, end : Int, speaker : {"agent", "customer"}]
<1> DEFINE x == Said(a, "agent")
<1> DEFINE y == Said(b, "customer")
<1> DEFINE s == x \o y
<1>1. /\ Len(a) \in Nat /\ DOMAIN a = 1 .. Len(a)
      /\ Len(b) \in Nat /\ DOMAIN b = 1 .. Len(b)
      /\ \A i \in 1 .. Len(a) : a[i].start \in Int /\ a[i].end \in Int
      /\ \A i \in 1 .. Len(b) : b[i].start \in Int /\ b[i].end \in Int
  <2>1. \A i \in 1 .. Len(a) : a[i] \in [start : Int, end : Int]
    BY ElementOfSeq DEF Turns
  <2>2. \A i \in 1 .. Len(b) : b[i] \in [start : Int, end : Int]
    BY ElementOfSeq DEF Turns
  <2>3. QED
    BY <2>1, <2>2, LenProperties DEF Turns
<1>2. /\ x = [i \in 1 .. Len(a) |-> [time |-> a[i].start, end |-> a[i].end, speaker |-> "agent"]]
      /\ y = [i \in 1 .. Len(b) |-> [time |-> b[i].start, end |-> b[i].end, speaker |-> "customer"]]
  BY <1>1 DEF Said
<1> HIDE DEF x, y
<1>3. x \in [1 .. Len(a) -> T] /\ y \in [1 .. Len(b) -> T]
  BY <1>1, <1>2
<1> HIDE DEF T
<1>4. x \in Seq(T) /\ Len(x) = Len(a) /\ y \in Seq(T) /\ Len(y) = Len(b)
  BY <1>1, <1>3, IsSeqOf
<1>5. /\ s \in Seq(T) /\ Len(s) = Len(a) + Len(b)
      /\ \A i \in 1 .. Len(s) : s[i] = IF i <= Len(a) THEN x[i] ELSE y[i - Len(a)]
  <2>1. /\ s \in Seq(T) /\ Len(s) = Len(x) + Len(y)
        /\ \A i \in 1 .. Len(x) + Len(y) : s[i] = IF i <= Len(x) THEN x[i] ELSE y[i - Len(x)]
    BY <1>4, ConcatProperties
  <2> HIDE DEF s
  <2>2. QED
    BY <1>4, <2>1
<1> DEFINE n == Len(a) + Len(b)
<1> HIDE DEF s
<1>6. n \in Nat /\ DOMAIN s = 1 .. n /\ \A i \in 1 .. n : s[i] \in T
  BY <1>1, <1>5, LenProperties, ElementOfSeq
<1>7. \A i \in 1 .. n : s[i].time \in Int /\ s[i].speaker \in {"agent", "customer"}
  BY <1>6 DEF T
<1>8. SortedBy(TurnOrder(s), s)
  <2> HIDE DEF n
  <2>1. QED
    BY <1>6, <1>7, SortedByTurn
<1> DEFINE m == TurnOrder(s)
<1>9. \A u : u \in ToSet(m) <=> \E i \in 1 .. n : u = s[i]
  <2> HIDE DEF m
  <2>1. SortedBy(m, s)
    BY <1>8 DEF m
  <2>2. QED
    BY <1>6, <2>1 DEF SortedBy, ToSet
<1> HIDE DEF m
<1>10. \A u : u \in ToSet(m) <=> (\E i \in 1 .. Len(a) : u = x[i]) \/ (\E i \in 1 .. Len(b) : u = y[i])
  <2>1. ASSUME NEW u, NEW i \in 1 .. n, u = s[i]
        PROVE  (\E j \in 1 .. Len(a) : u = x[j]) \/ (\E j \in 1 .. Len(b) : u = y[j])
    <3>1. CASE i <= Len(a)
      BY <1>1, <1>5, <2>1, <3>1
    <3>2. CASE ~(i <= Len(a))
      <4>1. i - Len(a) \in 1 .. Len(b) /\ s[i] = y[i - Len(a)]
        BY <1>1, <1>5, <3>2
      <4>2. QED
        BY <2>1, <4>1
    <3>3. QED
      BY <3>1, <3>2
  <2>2. ASSUME NEW j \in 1 .. Len(a) PROVE \E i \in 1 .. n : x[j] = s[i]
    <3>1. j \in 1 .. n /\ s[j] = x[j]
      BY <1>1, <1>5
    <3>2. QED
      BY <3>1
  <2>3. ASSUME NEW j \in 1 .. Len(b) PROVE \E i \in 1 .. n : y[j] = s[i]
    <3>1. j + Len(a) \in 1 .. n /\ ~(j + Len(a) <= Len(a)) /\ (j + Len(a)) - Len(a) = j
      BY <1>1
    <3>2. s[j + Len(a)] = y[j]
      BY <1>5, <3>1
    <3>3. QED
      BY <3>1, <3>2
  <2> HIDE DEF n
  <2>4. QED
    BY <1>9, <2>1, <2>2, <2>3
<1>11. /\ \A i \in 1 .. Len(a) : x[i].speaker = "agent" /\ x[i].time = a[i].start /\ x[i].end = a[i].end
       /\ \A i \in 1 .. Len(b) : y[i].speaker = "customer" /\ y[i].time = b[i].start /\ y[i].end = b[i].end
  BY <1>2
<1>12. TimesOf(m, "agent") = Times(a)
  BY <1>10, <1>11 DEF TimesOf, Times
<1>13. TimesOf(m, "customer") = Times(b)
  BY <1>10, <1>11 DEF TimesOf, Times
<1>14. QED
  BY <1>12, <1>13 DEF m, s, x, y

ChannelsOf(left, right) == [i \in DOMAIN left |-> 0] \o [i \in DOMAIN right |-> 1]

RoleTimes(out, left, right, spoken, speaker) ==
  {[time |-> (left \o right)[i].start, end |-> (left \o right)[i].end] :
     i \in {j \in DOMAIN spoken : Roles("rtzr", TRUE, out, spoken)[j] = speaker}}

\* Of a file with both channels: those that speak on channel 0, and on channel 1.
LEMMA RolesAre ==
  ASSUME NEW out \in BOOLEAN, NEW left \in Turns, NEW right \in Turns,
         NEW speaker \in {"agent", "customer"}
  PROVE  RoleTimes(out, left, right, ChannelsOf(left, right), speaker)
         = IF out <=> speaker = "agent" THEN Times(left) ELSE Times(right)
<1> DEFINE spoken == ChannelsOf(left, right)
<1> DEFINE zero == IF out THEN "agent" ELSE "customer"
<1> DEFINE one == IF out THEN "customer" ELSE "agent"
<1> DEFINE x == [i \in DOMAIN left |-> 0]
<1> DEFINE y == [i \in DOMAIN right |-> 1]
<1> DEFINE b == left \o right
<1>1. /\ Len(left) \in Nat /\ DOMAIN left = 1 .. Len(left)
      /\ Len(right) \in Nat /\ DOMAIN right = 1 .. Len(right)
  BY LenProperties DEF Turns
<1> DEFINE m == Len(left)
<1> DEFINE n == Len(left) + Len(right)
<1>2. /\ x \in Seq(Int) /\ Len(x) = Len(left) /\ y \in Seq(Int) /\ Len(y) = Len(right)
      /\ \A i \in 1 .. Len(left) : x[i] = 0
      /\ \A i \in 1 .. Len(right) : y[i] = 1
  <2>1. x \in [1 .. Len(left) -> Int] /\ y \in [1 .. Len(right) -> Int]
    BY <1>1
  <2>2. (\A i \in 1 .. Len(left) : x[i] = 0) /\ (\A i \in 1 .. Len(right) : y[i] = 1)
    BY <1>1
  <2> HIDE DEF x, y
  <2>3. QED
    BY <1>1, <2>1, <2>2, IsSeqOf
<1>3. spoken = x \o y
  BY DEF ChannelsOf
<1> HIDE DEF x, y, spoken
<1>4. /\ spoken \in Seq(Int) /\ Len(spoken) = n /\ DOMAIN spoken = 1 .. n
      /\ \A i \in 1 .. n : spoken[i] = IF i <= m THEN x[i] ELSE y[i - m]
  <2>1. /\ x \o y \in Seq(Int) /\ Len(x \o y) = Len(x) + Len(y)
        /\ \A i \in 1 .. Len(x) + Len(y) : (x \o y)[i] = IF i <= Len(x) THEN x[i] ELSE y[i - Len(x)]
    <3>1. x \in Seq(Int) /\ y \in Seq(Int)
      BY <1>2
    <3>2. QED
      BY <3>1, ConcatProperties
  <2>2. spoken \in Seq(Int) /\ Len(spoken) = Len(x) + Len(y)
    BY <1>3, <2>1
  <2>3. DOMAIN spoken = 1 .. Len(spoken)
    BY <2>2, LenProperties
  <2>4. QED
    BY <1>2, <1>3, <2>1, <2>2, <2>3
<1>5. \A i \in 1 .. n : spoken[i] = IF i <= m THEN 0 ELSE 1
  <2>1. \A i \in 1 .. n : i <= m => i \in 1 .. Len(left)
    BY <1>1
  <2>2. \A i \in 1 .. n : ~(i <= m) => i - m \in 1 .. Len(right)
    BY <1>1
  <2> HIDE DEF m, n
  <2>3. QED
    BY <1>2, <1>4, <2>1, <2>2
<1>6. \A i \in 1 .. n : b[i] = IF i <= m THEN left[i] ELSE right[i - m]
  <2>1. left \in Seq([start : Int, end : Int]) /\ right \in Seq([start : Int, end : Int])
    BY DEF Turns
  <2> DEFINE W == [start : Int, end : Int]
  <2> HIDE DEF W
  <2>2. left \in Seq(W) /\ right \in Seq(W)
    BY <2>1 DEF W
  <2>3. QED
    BY <2>2, ConcatProperties
<1> DEFINE roles == Roles("rtzr", TRUE, out, spoken)
<1>7. \A i \in 1 .. n : roles[i] = IF spoken[i] = (IF out THEN 0 ELSE 1) THEN "agent" ELSE "customer"
  <2>1. DOMAIN roles = 1 .. n
    BY <1>4 DEF Roles
  <2>2. QED
    BY <1>4, <2>1 DEF Roles
<1>8. \A i \in 1 .. n : roles[i] = IF i <= m THEN zero ELSE one
  <2> HIDE DEF m, n, roles
  <2>1. CASE out
    <3>1. zero = "agent" /\ one = "customer"
      BY <2>1
    <3>2. \A i \in 1 .. n : roles[i] = IF spoken[i] = 0 THEN "agent" ELSE "customer"
      BY <1>7, <2>1
    <3>3. QED
      BY <1>5, <3>1, <3>2
  <2>2. CASE ~out
    <3>1. zero = "customer" /\ one = "agent"
      BY <2>2
    <3>2. \A i \in 1 .. n : roles[i] = IF spoken[i] = 1 THEN "agent" ELSE "customer"
      BY <1>7, <2>2
    <3>3. QED
      BY <1>5, <3>1, <3>2
  <2>3. QED
    BY <2>1, <2>2
<1> HIDE DEF b, roles
<1>9. zero # one /\ (zero = speaker \/ one = speaker) /\ (zero = speaker <=> (out <=> speaker = "agent"))
  OBVIOUS
<1>10. {i \in DOMAIN spoken : roles[i] = speaker} = {i \in 1 .. n : IF zero = speaker THEN i <= m ELSE ~(i <= m)}
  <2> HIDE DEF m, n, zero, one
  <2>1. QED
    BY <1>4, <1>8, <1>9
<1> DEFINE Of(S) == {[time |-> b[i].start, end |-> b[i].end] : i \in S}
<1>11. CASE zero = speaker
  <2>1. {i \in 1 .. n : IF zero = speaker THEN i <= m ELSE ~(i <= m)} = 1 .. Len(left)
    BY <1>1, <1>11
  <2>2. \A i \in 1 .. Len(left) : b[i] = left[i]
    BY <1>1, <1>6
  <2>3. Of(1 .. Len(left)) = Times(left)
    BY <2>2 DEF Times
  <2>4. QED
    BY <1>9, <1>10, <1>11, <2>1, <2>3 DEF b, roles, spoken, RoleTimes
<1>12. CASE zero # speaker
  <2>1. {i \in 1 .. n : IF zero = speaker THEN i <= m ELSE ~(i <= m)} = {i \in 1 .. n : ~(i <= m)}
    BY <1>12
  <2> DEFINE S == {i \in 1 .. n : ~(i <= m)}
  <2>2. ASSUME NEW i \in S PROVE i - m \in 1 .. Len(right) /\ b[i] = right[i - m]
    BY <1>1, <1>6
  <2>3. ASSUME NEW j \in 1 .. Len(right) PROVE j + m \in S /\ b[j + m] = right[j]
    <3>1. j + m \in 1 .. n /\ ~(j + m <= m) /\ (j + m) - m = j
      BY <1>1
    <3>2. QED
      BY <1>6, <3>1
  <2> HIDE DEF S, m
  <2>4. Of(S) = Times(right)
    BY <2>2, <2>3 DEF Times
  <2>5. QED
    BY <1>9, <1>10, <1>12, <2>1, <2>4 DEF b, roles, spoken, S, RoleTimes
<1>13. QED
  BY <1>11, <1>12

LEMMA SpeakersAreSame ==
  ASSUME NEW out \in BOOLEAN, NEW left \in Turns, NEW right \in Turns
  PROVE  SameSpeakers(out, left, right)
<1> DEFINE spoken == [i \in DOMAIN left |-> 0] \o [i \in DOMAIN right |-> 1]
<1> DEFINE a == IF out THEN left ELSE right
<1> DEFINE b == IF out THEN right ELSE left
<1> DEFINE merged == StereoMerge(out, left, right)
<1>1. merged = TurnOrder(Said(a, "agent") \o Said(b, "customer"))
  BY DEF StereoMerge, TurnOrder
<1>2. TimesOf(merged, "agent") = Times(a) /\ TimesOf(merged, "customer") = Times(b)
  <2>1. a \in Turns /\ b \in Turns
    OBVIOUS
  <2> HIDE DEF a, b, merged
  <2>2. QED
    BY <1>1, <2>1, MergedTimes
<1>3. ASSUME NEW speaker \in {"agent", "customer"}
      PROVE  TimesOf(merged, speaker) = RoleTimes(out, left, right, spoken, speaker)
  <2>1. RoleTimes(out, left, right, spoken, speaker)
        = IF out <=> speaker = "agent" THEN Times(left) ELSE Times(right)
    BY RolesAre DEF ChannelsOf
  <2>2. TimesOf(merged, speaker) = IF out <=> speaker = "agent" THEN Times(left) ELSE Times(right)
    <3> HIDE DEF merged
    <3>1. QED
      BY <1>2
  <2>3. QED
    BY <2>1, <2>2
<1>4. QED
  BY <1>3 DEF SameSpeakers, TimesOf, RoleTimes, merged, spoken

-----------------------------------------------------------------------------

\* _split_long_segments, _transcribe_openai_gpt4o_chunked, transcribe_stereo: the words of any
\* segments are written in the order spoken, each once; what is heard in the chunks of any
\* file lies in its chunk; a channel is the same speaker's for all engines.
THEOREM WordsAreKept == HearSpec => []WordsKept
<1>1. heard = NoInput => HeardInv
  BY DEF HeardInv
<1>2. HeardInv /\ [Hear]_heard => HeardInv'
  BY DEF HeardInv, Hear
<1>3. HeardInv => WordsKept
  <2>1. heard = NoInput => heard.kind = "none"
    BY DEF NoInput
  <2>2. ASSUME heard \in Heard, heard.kind = "words" PROVE SpeechKept(heard.of)
    <3>1. Recognized(heard.of)
      BY <2>2, HeardAssumption
    <3>2. QED
      BY <3>1, EveryWordKept
  <2>3. ASSUME heard \in Heard, heard.kind = "chunks"
        PROVE  ChunksInPlace(Chunks(heard.of.frames, heard.of.size), heard.of.heard)
    <3>1. /\ heard.of.frames \in Nat /\ heard.of.size \in Nat \ {0}
          /\ HeardInChunks(Chunks(heard.of.frames, heard.of.size), heard.of.heard)
      BY <2>3, HeardAssumption
    <3>2. Chunks(heard.of.frames, heard.of.size) \in Seq([start : Int, end : Int])
      BY <3>1, ChunksAre
    <3>3. QED
      BY <3>1, <3>2, EveryChunkInPlace
  <2>4. ASSUME heard \in Heard, heard.kind = "stereo", NEW out \in BOOLEAN
        PROVE  SameSpeakers(out, heard.of[1], heard.of[2])
    <3>1. heard.of[1] \in Turns /\ heard.of[2] \in Turns
      BY <2>4, HeardAssumption
    <3>2. QED
      BY <3>1, SpeakersAreSame
  <2>5. CASE heard = NoInput
    BY <2>1, <2>5 DEF WordsKept
  <2>6. CASE heard \in Heard
    BY <2>2, <2>3, <2>4, <2>6 DEF WordsKept
  <2>7. QED
    BY <2>5, <2>6 DEF HeardInv
<1>4. QED
  BY <1>1, <1>2, <1>3, PTL DEF HearSpec
=============================================================================
