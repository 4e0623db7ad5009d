-------------------------- MODULE Analysis_proofs ---------------------------
(***************************************************************************)
(* Theorems about the parts of Analysis, each of its own specification,    *)
(* for any constants: the temporary files a transcription leaves and the   *)
(* vocabulary (Speech); the calls that were not recorded (CallMatching);   *)
(* the closes of a day's log and the causes of failures (CallLog).  Each   *)
(* has an inductive invariant, the lemmas of its steps, and the theorem.   *)
(***************************************************************************)
EXTENDS Analysis, FiniteSetTheorems, SequenceTheorems, WellFoundedInduction, TLAPS

Places == {"idle", "left", "right", "channel", "chunk", "whole", "poll", "learn", "write",
           "done", "raised"}

Types ==
  /\ at \in [Recording -> Places]
  /\ stereo \in [Recording -> BOOLEAN]
  /\ channel \in [Recording -> {0, 1}]
  /\ chunks \in [Recording -> Nat]

Channels(r) == IF stereo[r] THEN {Temp(r, "left"), Temp(r, "right")} ELSE {}
Chunks(r, n) == {Chunk(r, i) : i \in 1 .. n}

(* The files of a recording, by the place where its thread is.             *)
FilesOf(r) ==
  /\ at[r] \in {"idle", "left", "whole", "poll", "done"} => Files(r) = {}
  /\ at[r] = "right" => Files(r) = {Temp(r, "left")}
  /\ at[r] = "channel" => Files(r) = Channels(r)
  /\ at[r] = "chunk" => Files(r) = Channels(r) \cup Chunks(r, chunks[r])
  /\ at[r] \in {"learn", "write"} => Files(r) \in {Channels(r), Channels(r) \cup {Temp(r, "preprocessed")}}
  /\ at[r] = "raised" => \/ Files(r) = {Temp(r, "left")} /\ channel[r] = 0
                         \/ Files(r) = Chunks(r, chunks[r] - 1)
  /\ at[r] \notin {"chunk", "raised"} => chunks[r] = 0
  /\ at[r] \in {"left", "right"} => stereo[r]
  /\ at[r] \in {"idle", "left", "right"} => channel[r] = 0

FilesInv == Types /\ \A r \in Recording : FilesOf(r)

(* What a step of one thread changes is its own.                           *)
Others(r) ==
  /\ stereo' = stereo
  /\ \A q \in Recording \ {r} : /\ at'[q] = at[q] /\ channel'[q] = channel[q]
                                /\ chunks'[q] = chunks[q] /\ Files(q)' = Files(q)

LEMMA OneThread ==
  ASSUME FilesInv, NEW r \in Recording, Others(r), Types', FilesOf(r)'
  PROVE  FilesInv'
<1>1. ASSUME NEW q \in Recording, q # r PROVE FilesOf(q)'
  BY <1>1 DEF FilesInv, Others, FilesOf, Channels
<1> QED
  BY <1>1 DEF FilesInv

(* Files of different recordings, and of different kinds, differ.          *)
LEMMA FilesDiffer ==
  ASSUME NEW r, NEW w, NEW i
  PROVE  /\ Temp(r, w).of = r /\ Chunk(r, i).of = r
         /\ \A v : Temp(r, w) = Temp(r, v) => w = v
         /\ \A j : Chunk(r, i) = Chunk(r, j) => i = j
         /\ w # "chunk" => Temp(r, w) # Chunk(r, i)
BY DEF Temp, Chunk

LEMMA NoChunks == ASSUME NEW r PROVE Chunks(r, 0) = {} /\ Chunks(r, 0 - 1) = {}
BY DEF Chunks

(* The last chunk is deleted.                                              *)
LEMMA LastChunk ==
  ASSUME NEW r, NEW n \in Nat \ {0}
  PROVE  Chunks(r, n) \ {Chunk(r, n)} = Chunks(r, n - 1)
<1>1. \A i \in 1 .. n : i # n <=> i \in 1 .. n - 1
  OBVIOUS
<1>2. \A i \in 1 .. n : Chunk(r, i) = Chunk(r, n) => i = n
  BY FilesDiffer
<1>3. 1 .. n - 1 \subseteq 1 .. n
  OBVIOUS
<1> QED
  BY <1>1, <1>2, <1>3 DEF Chunks

(* Files of one recording are written or deleted.                          *)
LEMMA TempsChange ==
  ASSUME NEW r \in Recording, NEW S, \A f \in S : f.of = r,
         temps' = temps \cup S \/ temps' = temps \ S
  PROVE  /\ \A q \in Recording \ {r} : Files(q)' = Files(q)
         /\ temps' = temps \cup S => Files(r)' = Files(r) \cup S
         /\ temps' = temps \ S => Files(r)' = Files(r) \ S
<1>1. ASSUME NEW q \in Recording \ {r} PROVE Files(q)' = Files(q)
  BY DEF Files
<1>2. ASSUME temps' = temps \cup S PROVE Files(r)' = Files(r) \cup S
  BY <1>2 DEF Files
<1>3. ASSUME temps' = temps \ S PROVE Files(r)' = Files(r) \ S
  BY <1>3 DEF Files
<1> QED
  BY <1>1, <1>2, <1>3

LEMMA TempsSame ==
  ASSUME temps' = temps PROVE \A q : Files(q)' = Files(q)
BY DEF Files

Finals(r) == {Temp(r, "left"), Temp(r, "right"), Temp(r, "preprocessed")}

LEMMA FinalsOf ==
  ASSUME NEW r
  PROVE  /\ \A f \in Finals(r) : f.of = r
         /\ \A n : \A f \in Chunks(r, n) : f.of = r
         /\ \A n : Chunks(r, n) \ Finals(r) = Chunks(r, n)
         /\ Channels(r) \subseteq Finals(r) /\ Temp(r, "preprocessed") \notin Channels(r)
BY FilesDiffer DEF Finals, Chunks, Channels, Temp, Chunk

(* One channel is transcribed, the next begins or all is done.             *)
LEMMA DoneFiles ==
  ASSUME FilesInv, NEW r \in Recording, Done(r), stereo' = stereo, chunks' = chunks,
         chunks[r] = 0,
         Files(r) \in {Channels(r), Channels(r) \cup {Temp(r, "preprocessed")}}
  PROVE  FilesInv'
<1> USE DEF FilesInv
<1>1. CASE stereo[r] /\ channel[r] = 0
  <2>1. /\ at' = [at EXCEPT ![r] = "channel"] /\ channel' = [channel EXCEPT ![r] = 1]
        /\ temps' = temps \ {Temp(r, "preprocessed")}
    BY <1>1 DEF Done, Go
  <2>2. /\ Files(r)' = Files(r) \ {Temp(r, "preprocessed")}
        /\ \A q \in Recording \ {r} : Files(q)' = Files(q)
    <3>1. \A f \in {Temp(r, "preprocessed")} : f.of = r
      BY FilesDiffer
    <3> QED
      BY <2>1, <3>1, TempsChange
  <2>3. Files(r)' = Channels(r)
    BY <2>2, FinalsOf
  <2>4. Types' /\ Others(r)
    BY <2>1, <2>2 DEF Types, Others, Places
  <2>5. FilesOf(r)'
    BY <2>1, <2>3 DEF FilesOf, Channels, Types
  <2> QED
    BY <2>4, <2>5, OneThread
<1>2. CASE ~(stereo[r] /\ channel[r] = 0)
  <2>1. /\ at' = [at EXCEPT ![r] = "done"] /\ channel' = channel
        /\ temps' = temps \ Finals(r)
    BY <1>2 DEF Done, Go, WithoutChannels, Finals
  <2>2. /\ Files(r)' = Files(r) \ Finals(r)
        /\ \A q \in Recording \ {r} : Files(q)' = Files(q)
    BY <2>1, TempsChange, FinalsOf
  <2>3. Files(r)' = {}
    BY <2>2, FinalsOf DEF Finals
  <2>4. Types' /\ Others(r)
    BY <2>1, <2>2 DEF Types, Others, Places
  <2>5. FilesOf(r)'
    BY <2>1, <2>3 DEF FilesOf, Types
  <2> QED
    BY <2>4, <2>5, OneThread
<1> QED
  BY <1>1, <1>2

(* A model or a service raises for a channel.                              *)
LEMMA FailsFiles ==
  ASSUME FilesInv, NEW r \in Recording, Fails(r), stereo' = stereo, chunks' = chunks,
         channel' = channel, chunks[r] = 0, Files(r) = Channels(r)
  PROVE  FilesInv'
<1>1. at' = [at EXCEPT ![r] = "raised"] /\ temps' = temps \ Finals(r)
  BY DEF Fails, Go, WithoutChannels, Finals
<1>2. /\ Files(r)' = Files(r) \ Finals(r)
      /\ \A q \in Recording \ {r} : Files(q)' = Files(q)
  BY <1>1, TempsChange, FinalsOf
<1>3. Files(r)' = {} /\ Chunks(r, 0 - 1) = {}
  BY <1>2, FinalsOf, NoChunks
<1>4. Types' /\ Others(r)
  BY <1>1, <1>2 DEF FilesInv, Types, Others, Places
<1>5. FilesOf(r)'
  BY <1>1, <1>3 DEF FilesInv, FilesOf, Types
<1> QED
  BY <1>4, <1>5, OneThread

(* Steps that leave the files alone and go from a place without files to   *)
(* such a place or the end.                                                *)
LEMMA PlainStep ==
  ASSUME FilesInv, NEW r \in Recording, NEW e \in Places \ {"idle", "right", "chunk"},
         at[r] \in {"idle", "whole", "poll"},
         at' = [at EXCEPT ![r] = e], e = "left" => stereo[r] /\ channel[r] = 0,
         e \in {"channel", "learn", "write"} => ~stereo[r],
         UNCHANGED <<stereo, channel, chunks, temps>>
  PROVE  FilesInv'
<1>1. \A q \in Recording : Files(q)' = Files(q)
  BY TempsSame
<1>2. Types' /\ Others(r)
  BY <1>1 DEF FilesInv, Types, Others, Places
<1>3. Files(r) = {} /\ chunks[r] = 0 /\ Chunks(r, 0 - 1) = {}
  BY NoChunks DEF FilesInv, FilesOf
<1>4. FilesOf(r)'
  BY <1>1, <1>3 DEF FilesInv, FilesOf, Types, Channels
<1> QED
  BY <1>2, <1>4, OneThread

-----------------------------------------------------------------------------
LEMMA ExtractStep ==
  ASSUME FilesInv, NEW r \in Recording, Extract(r)
  PROVE  FilesInv'
<1> USE DEF FilesInv
<1>1. UNCHANGED <<stereo, channel, chunks>>
  BY DEF Extract
<1>2. CASE /\ at[r] = "left" /\ at' = [at EXCEPT ![r] = "right"]
           /\ temps' = temps \cup {Temp(r, "left")}
  <2>1. \A f \in {Temp(r, "left")} : f.of = r
    BY FilesDiffer
  <2>2. /\ Files(r)' = Files(r) \cup {Temp(r, "left")}
        /\ \A q \in Recording \ {r} : Files(q)' = Files(q)
    BY <1>2, <2>1 DEF Files
  <2>3. Types' /\ Others(r)
    BY <1>1, <1>2, <2>2 DEF Types, Others, Places
  <2>4. Files(r) = {} /\ stereo[r] /\ channel[r] = 0 /\ chunks[r] = 0
    BY <1>2 DEF FilesOf
  <2>5. FilesOf(r)'
    BY <1>1, <1>2, <2>2, <2>4 DEF FilesOf, Types
  <2> QED
    BY <2>3, <2>5, OneThread
<1>3. CASE /\ at[r] = "right" /\ at' = [at EXCEPT ![r] = "channel"]
           /\ temps' = temps \cup {Temp(r, "right")}
  <2>1. \A f \in {Temp(r, "right")} : f.of = r
    BY FilesDiffer
  <2>2. /\ Files(r)' = Files(r) \cup {Temp(r, "right")}
        /\ \A q \in Recording \ {r} : Files(q)' = Files(q)
    BY <1>3, <2>1 DEF Files
  <2>3. Types' /\ Others(r)
    BY <1>1, <1>3, <2>2 DEF Types, Others, Places
  <2>4. Files(r) = {Temp(r, "left")} /\ stereo[r] /\ chunks[r] = 0
    BY <1>3 DEF FilesOf
  <2>5. FilesOf(r)'
    BY <1>1, <1>3, <2>2, <2>4 DEF FilesOf, Types, Channels
  <2> QED
    BY <2>3, <2>5, OneThread
<1>4. CASE /\ at[r] \in {"left", "right"} /\ at' = [at EXCEPT ![r] = "raised"]
           /\ temps' = temps
  <2>1. \A q \in Recording : Files(q)' = Files(q)
    BY <1>4, TempsSame
  <2>2. Types' /\ Others(r)
    BY <1>1, <1>4, <2>1 DEF Types, Others, Places
  <2>3. /\ Files(r) \in {{}, {Temp(r, "left")}} /\ channel[r] = 0 /\ chunks[r] = 0
        /\ Chunks(r, 0 - 1) = {}
    BY <1>4, NoChunks DEF FilesOf
  <2>4. FilesOf(r)'
    BY <1>1, <1>4, <2>1, <2>3 DEF FilesOf, Types
  <2> QED
    BY <2>2, <2>4, OneThread
<1> QED
  BY <1>2, <1>3, <1>4 DEF Extract, Go

LEMMA AskServiceStep ==
  ASSUME FilesInv, NEW r \in Recording, AskService(r)
  PROVE  FilesInv'
<1>1. Files(r) = Channels(r) /\ chunks[r] = 0
  BY DEF FilesInv, FilesOf, AskService
<1>2. ASSUME NEW n \in 2 .. ChunkBound,
             /\ temps' = temps \cup {Chunk(r, i) : i \in 1 .. n}
             /\ chunks' = [chunks EXCEPT ![r] = n]
             /\ at' = [at EXCEPT ![r] = "chunk"]
             /\ UNCHANGED <<stereo, channel>>
      PROVE  FilesInv'
  <2>1. /\ Files(r)' = Files(r) \cup Chunks(r, n)
        /\ \A q \in Recording \ {r} : Files(q)' = Files(q)
    BY <1>2, TempsChange, FinalsOf DEF Chunks
  <2>2. Types' /\ Others(r)
    BY <1>2, <2>1 DEF FilesInv, Types, Others, Places
  <2>3. FilesOf(r)'
    BY <1>1, <1>2, <2>1 DEF FilesInv, FilesOf, Types, Channels
  <2> QED
    BY <2>2, <2>3, OneThread
<1> QED
  BY <1>1, <1>2, DoneFiles, FailsFiles DEF AskService, Go

LEMMA AskChunkStep ==
  ASSUME FilesInv, NEW r \in Recording, AskChunk(r)
  PROVE  FilesInv'
<1> DEFINE n == chunks[r]
           one == Chunk(r, n)
<1>1. /\ n \in Nat \ {0} /\ n - 1 \in Nat
      /\ Files(r) = Channels(r) \cup Chunks(r, n)
      /\ Chunks(r, n) \ {one} = Chunks(r, n - 1)
  BY LastChunk DEF FilesInv, FilesOf, AskChunk, Types
<1>2. one \notin Finals(r)
  BY FilesDiffer DEF Finals
<1>3. UNCHANGED <<stereo, channel>> /\ at[r] = "chunk"
  BY DEF AskChunk
<1>4. CASE /\ chunks' = [chunks EXCEPT ![r] = n - 1]
           /\ temps' = temps \ {one} /\ at' = at
  <2>1. \A f \in {one} : f.of = r
    BY FilesDiffer
  <2>2. /\ Files(r)' = Files(r) \ {one}
        /\ \A q \in Recording \ {r} : Files(q)' = Files(q)
    BY <1>4, <2>1, TempsChange
  <2>3. Files(r)' = Channels(r) \cup Chunks(r, n - 1)
    BY <1>1, <1>2, <2>2, FinalsOf
  <2>4. Types' /\ Others(r)
    BY <1>1, <1>3, <1>4, <2>2 DEF FilesInv, Types, Others
  <2>5. FilesOf(r)'
    BY <1>1, <1>3, <1>4, <2>3 DEF FilesInv, FilesOf, Types, Channels
  <2> QED
    BY <2>4, <2>5, OneThread
<1>5. CASE /\ at' = [at EXCEPT ![r] = "raised"] /\ chunks' = chunks
           /\ temps' = WithoutChannels(r) \ {one}
  <2> DEFINE S == {Temp(r, "left"), Temp(r, "right"), one}
  <2>1. temps' = temps \ S /\ \A f \in S : f.of = r
    BY <1>5, FilesDiffer DEF WithoutChannels
  <2>2. /\ Files(r)' = Files(r) \ S
        /\ \A q \in Recording \ {r} : Files(q)' = Files(q)
    BY <2>1 DEF Files
  <2>3. Files(r)' = Chunks(r, n - 1)
    <3>1. Channels(r) \ S = {}
      BY DEF Channels
    <3>2. Chunks(r, n) \ S = Chunks(r, n) \ {one}
      BY FinalsOf DEF Finals
    <3> QED
      BY <1>1, <2>2, <3>1, <3>2
  <2>4. Types' /\ Others(r)
    BY <1>1, <1>3, <1>5, <2>2 DEF FilesInv, Types, Others, Places
  <2>5. FilesOf(r)'
    BY <1>1, <1>3, <1>5, <2>3 DEF FilesInv, FilesOf, Types
  <2> QED
    BY <2>4, <2>5, OneThread
<1> QED
  BY <1>4, <1>5 DEF AskChunk, Go

LEMMA ChunksDoneStep ==
  ASSUME FilesInv, NEW r \in Recording, ChunksDone(r)
  PROVE  FilesInv'
<1>1. Files(r) = Channels(r) /\ chunks[r] = 0
  BY NoChunks DEF FilesInv, FilesOf, ChunksDone
<1> QED
  BY <1>1, DoneFiles DEF ChunksDone

LEMMA RunModelStep ==
  ASSUME FilesInv, NEW r \in Recording, RunModel(r)
  PROVE  FilesInv'
<1>1. Files(r) = Channels(r) /\ chunks[r] = 0 /\ UNCHANGED <<stereo, channel, chunks>>
  BY DEF FilesInv, FilesOf, RunModel
<1>2. CASE Fails(r)
  BY <1>1, <1>2, FailsFiles
<1>3. CASE /\ at' = [at EXCEPT ![r] = "learn"]
           /\ temps' \in {temps, temps \cup {Temp(r, "preprocessed")}}
  <2>1. \A f \in {Temp(r, "preprocessed")} : f.of = r
    BY FilesDiffer
  <2>2. /\ Files(r)' \in {Files(r), Files(r) \cup {Temp(r, "preprocessed")}}
        /\ \A q \in Recording \ {r} : Files(q)' = Files(q)
    BY <1>3, <2>1 DEF Files
  <2>3. Types' /\ Others(r)
    BY <1>1, <1>3, <2>2 DEF FilesInv, Types, Others, Places
  <2>4. FilesOf(r)'
    BY <1>1, <1>3, <2>2 DEF FilesInv, FilesOf, Types, Channels
  <2> QED
    BY <2>3, <2>4, OneThread
<1> QED
  BY <1>2, <1>3 DEF RunModel, Go

LEMMA LearnStep ==
  ASSUME FilesInv, NEW r \in Recording,
         Nothing(r) \/ NothingFound(r) \/ ReadVocabulary(r) \/ WriteVocabulary(r)
  PROVE  FilesInv'
<1>1. /\ Files(r) \in {Channels(r), Channels(r) \cup {Temp(r, "preprocessed")}}
      /\ chunks[r] = 0
  BY DEF FilesInv, FilesOf, Nothing, NothingFound, ReadVocabulary, WriteVocabulary
<1>2. CASE Done(r) /\ UNCHANGED <<stereo, chunks>>
  BY <1>1, <1>2, DoneFiles
<1>3. CASE ReadVocabulary(r)
  <2>1. /\ at' = [at EXCEPT ![r] = "write"]
        /\ UNCHANGED <<stereo, channel, chunks, temps>>
    BY <1>3 DEF ReadVocabulary, Go
  <2>2. \A q \in Recording : Files(q)' = Files(q)
    BY <2>1, TempsSame
  <2>3. Types' /\ Others(r)
    BY <2>1, <2>2 DEF FilesInv, Types, Others, Places
  <2>4. FilesOf(r)'
    BY <1>1, <2>1, <2>2 DEF FilesInv, FilesOf, Types, Channels
  <2> QED
    BY <2>3, <2>4, OneThread
<1> QED
  BY <1>2, <1>3 DEF Nothing, NothingFound, WriteVocabulary

LEMMA FilesStep == FilesInv /\ [Next]_vars => FilesInv'
<1> SUFFICES ASSUME FilesInv, [Next]_vars PROVE FilesInv'
  OBVIOUS
<1>1. ASSUME NEW r \in Recording, Begin(r) PROVE FilesInv'
  <2>1. at[r] = "idle" /\ UNCHANGED <<stereo, channel, chunks, temps>>
    BY <1>1 DEF Begin
  <2>2. PICK e \in {"poll", "whole", "left", "channel", "raised"} :
          /\ at' = [at EXCEPT ![r] = e]
          /\ e = "left" => stereo[r]
          /\ e = "channel" => ~stereo[r]
    BY <1>1 DEF Begin, Go
  <2>3. channel[r] = 0
    BY <2>1 DEF FilesInv, FilesOf
  <2> QED
    BY <2>1, <2>2, <2>3, PlainStep DEF Places
<1>2. ASSUME NEW r \in Recording, AskWhole(r) \/ Poll(r) PROVE FilesInv'
  <2>1. at[r] \in {"whole", "poll"} /\ UNCHANGED <<stereo, channel, chunks, temps>>
    BY <1>2 DEF AskWhole, Poll
  <2>2. PICK e \in {"poll", "done", "raised"} : at' = [at EXCEPT ![r] = e]
    BY <1>2 DEF AskWhole, Poll, Go, FilesInv, Types
  <2> QED
    BY <2>1, <2>2, PlainStep DEF Places
<1>3. CASE UNCHANGED vars
  BY <1>3, TempsSame DEF vars, FilesInv, Types, FilesOf, Channels
<1> QED
  BY <1>1, <1>2, <1>3, ExtractStep, AskServiceStep, AskChunkStep, ChunksDoneStep, RunModelStep,
     LearnStep DEF Next

(* A transcription that has ended leaves no temporary file, but those of   *)
(* the two cases that TempsDeleted names.                                  *)
THEOREM TempsGone == Spec => []TempsDeleted
<1>1. Init => FilesInv
  <2> SUFFICES ASSUME Init PROVE FilesInv
    OBVIOUS
  <2>1. \A r \in Recording : Files(r) = {}
    BY DEF Init, Files
  <2> QED
    BY <2>1 DEF Init, FilesInv, Types, FilesOf, Places
<1>2. FilesInv => TempsDeleted
  BY DEF FilesInv, FilesOf, TempsDeleted, Chunks
<1> QED
  BY <1>1, <1>2, FilesStep, PTL DEF Spec

-----------------------------------------------------------------------------
Writers == {r \in Recording : at[r] = "write"}

(* While no two threads were between reading and writing, one of them at   *)
(* most is, with all that was found in its copy.                           *)
Alone ==
  ~mixed => \/ Writers = {} /\ vocabulary = found
            \/ \E r \in Recording : Writers = {r} /\ copy[r] = vocabulary + 1 /\ found = vocabulary + 1

WordsInv ==
  /\ at \in [Recording -> Places]
  /\ vocabulary \in Nat /\ found \in Nat /\ copy \in [Recording -> Nat]
  /\ vocabulary <= found /\ \A r \in Recording : copy[r] <= found
  /\ Alone

(* A thread that does not write the vocabulary stays no writer.            *)
LEMMA OtherWords ==
  ASSUME WordsInv, NEW r \in Recording, NEW e \in Places \ {"write"}, at[r] # "write",
         at' = [at EXCEPT ![r] = e], UNCHANGED <<copy, vocabulary, found, mixed>>
  PROVE  WordsInv'
<1>1. Writers' = Writers /\ at' \in [Recording -> Places]
  BY DEF WordsInv, Writers
<1> QED
  BY <1>1 DEF WordsInv, Alone

LEMMA DonePlace ==
  ASSUME NEW r, Done(r)
  PROVE  \E e \in Places \ {"write"} : at' = [at EXCEPT ![r] = e]
BY DEF Done, Go, Places

LEMMA WordsStep == WordsInv /\ [Next]_vars => WordsInv'
<1> SUFFICES ASSUME WordsInv, [Next]_vars PROVE WordsInv'
  OBVIOUS
<1>1. ASSUME NEW r \in Recording, ReadVocabulary(r) PROVE WordsInv'
  <2>1. /\ at[r] = "learn" /\ at' = [at EXCEPT ![r] = "write"]
        /\ mixed' = (mixed \/ \E q \in Recording : at[q] = "write")
        /\ found' = found + 1 /\ vocabulary' = vocabulary
    BY <1>1 DEF ReadVocabulary, Go
  <2>2. PICK read \in {vocabulary} \cup (IF mixed' THEN {0} ELSE {}) :
          copy' = [copy EXCEPT ![r] = read + 1]
    BY <1>1 DEF ReadVocabulary
  <2>3. read \in Nat /\ read <= vocabulary /\ (~mixed' => read = vocabulary)
    BY <2>2 DEF WordsInv
  <2>4. /\ at' \in [Recording -> Places] /\ vocabulary' \in Nat /\ found' \in Nat
        /\ copy' \in [Recording -> Nat] /\ vocabulary' <= found'
        /\ \A q \in Recording : copy'[q] <= found'
    BY <2>1, <2>2, <2>3 DEF WordsInv, Places
  <2>5. ASSUME ~mixed' PROVE Writers' = {r} /\ copy'[r] = vocabulary' + 1 /\ found' = vocabulary' + 1
    <3>1. ~mixed /\ Writers = {}
      BY <2>1, <2>5 DEF Writers
    <3>2. vocabulary = found
      BY <3>1 DEF WordsInv, Alone
    <3>3. Writers' = {r}
      BY <2>1, <3>1 DEF Writers, WordsInv
    <3> QED
      BY <2>1, <2>2, <2>3, <2>5, <3>2, <3>3 DEF WordsInv
  <2> QED
    BY <2>4, <2>5 DEF WordsInv, Alone
<1>2. ASSUME NEW r \in Recording, WriteVocabulary(r) PROVE WordsInv'
  <2>1. PICK e \in Places \ {"write"} : at' = [at EXCEPT ![r] = e]
    BY <1>2, DonePlace DEF WriteVocabulary
  <2>2. at[r] = "write" /\ vocabulary' = copy[r] /\ UNCHANGED <<copy, found, mixed>>
    BY <1>2 DEF WriteVocabulary, WriteCopy
  <2>3. /\ at' \in [Recording -> Places] /\ vocabulary' \in Nat /\ vocabulary' <= found'
    BY <2>1, <2>2 DEF WordsInv
  <2>4. ASSUME ~mixed PROVE Writers' = {} /\ vocabulary' = found
    <3>1. r \in Writers
      BY <2>2 DEF Writers
    <3>2. Writers = {r} /\ copy[r] = found
      BY <2>4, <3>1 DEF WordsInv, Alone
    <3> QED
      BY <2>1, <2>2, <3>2 DEF Writers, WordsInv
  <2> QED
    BY <2>2, <2>3, <2>4 DEF WordsInv, Alone
<1>3. ASSUME NEW r \in Recording,
             Begin(r) \/ Extract(r) \/ AskService(r) \/ AskChunk(r) \/ ChunksDone(r) \/ AskWhole(r)
             \/ Poll(r) \/ RunModel(r) \/ Nothing(r) \/ NothingFound(r)
      PROVE  WordsInv'
  <2>1. at[r] # "write" /\ UNCHANGED <<copy, vocabulary, found, mixed>>
    BY <1>3 DEF Begin, Extract, AskService, AskChunk, ChunksDone, AskWhole, Poll, RunModel, Nothing,
       NothingFound, learning
  <2>2. at' = at \/ \E e \in Places \ {"write"} : at' = [at EXCEPT ![r] = e]
    BY <1>3, DonePlace DEF Begin, Extract, AskService, AskChunk, ChunksDone, AskWhole, Poll, RunModel,
       Nothing, NothingFound, Fails, Go, Places
  <2>3. CASE at' = at
    BY <2>1, <2>3 DEF WordsInv, Alone, Writers
  <2> QED
    BY <2>1, <2>2, <2>3, OtherWords
<1>4. CASE UNCHANGED vars
  BY <1>4 DEF vars, WordsInv, Alone, Writers
<1> QED
  BY <1>1, <1>2, <1>3, <1>4 DEF Next

(* No word that was found is lost while no two threads have read the       *)
(* vocabulary before one of them wrote it, and it never has too many.      *)
THEOREM VocabularyComplete == Spec => []VocabularyKept
<1>1. Init => WordsInv
  <2> SUFFICES ASSUME Init PROVE WordsInv
    OBVIOUS
  <2>1. Writers = {}
    BY DEF Init, Writers
  <2> QED
    BY <2>1 DEF Init, WordsInv, Alone, Places
<1>2. WordsInv => VocabularyKept
  <2> SUFFICES ASSUME WordsInv, ~mixed PROVE vocabulary = found - Cardinality(Writers)
    BY DEF WordsInv, VocabularyKept, Writers
  <2>1. CASE Writers = {} /\ vocabulary = found
    <3>1. Cardinality(Writers) = 0
      BY <2>1, FS_EmptySet
    <3> QED
      BY <2>1, <3>1 DEF WordsInv
  <2>2. CASE \E r \in Recording : Writers = {r} /\ found = vocabulary + 1
    <3>1. Cardinality(Writers) = 1
      BY <2>2, FS_Singleton
    <3> QED
      BY <2>2, <3>1 DEF WordsInv
  <2> QED
    BY <2>1, <2>2 DEF WordsInv, Alone
<1> QED
  BY <1>1, <1>2, WordsStep, PTL DEF Spec

-----------------------------------------------------------------------------
(***************************************************************************)
(* The matching of calls.  A call that a pass has left without a recording *)
(* was left because none that suits it was free; none becomes free later,  *)
(* so this is so after all passes.                                         *)
(***************************************************************************)

Turn == [confident |-> 1, number |-> 2, ext |-> 3, grace |-> 4, start |-> 5, collect |-> 6,
          done |-> 7]

\* The calls that pass q has looked at.
Looked(q) ==
  IF Turn[pass] > Turn[q] THEN DOMAIN P!calls ELSE IF pass = q THEN 1 .. next - 1 ELSE {}

FreeGraces == DOMAIN input.graces \ {graces[s] : s \in DOMAIN graces}

\* What suits the call s in pass q.
Suits(q, s, i) ==
  \/ q = "number" /\ P!OfNumber(s, i)
  \/ q = "ext" /\ P!OfExt(s, i)
  \/ q = "start" /\ P!OfStart(s, i)
GraceSuits(s, g) ==
  /\ P!Abs(input.graces[g].time - P!calls[s].time) <= GraceWindow
  /\ P!Abs(input.graces[g].duration - P!calls[s].duration) <= GraceDiff

Left(q) == Looked(q) \ (P!Matched \cup P!PassedThrough)

MatchInv ==
  /\ input \in Input
  /\ pass \in DOMAIN Turn
  /\ next \in 1 .. Len(P!calls)
  /\ DOMAIN reports \subseteq DOMAIN P!calls
  /\ \A s, t \in DOMAIN pairs : pairs[s] = pairs[t] => s = t
  /\ \A s, t \in DOMAIN graces : graces[s] = graces[t] => s = t
  /\ DOMAIN pairs \cap DOMAIN graces = {}
  /\ P!Matched \cap P!PassedThrough = {}
  /\ \A q \in {"number", "ext", "start"} : \A s \in Left(q), i \in P!Free : ~Suits(q, s, i)
  /\ \A s \in Left("grace"), g \in FreeGraces : ~GraceSuits(s, g)

-----------------------------------------------------------------------------
(* The least of a set.                                                     *)

LEMMA LeastNatural ==
  ASSUME NEW T, T \subseteq Nat, T # {}
  PROVE  \E x \in T : \A y \in T : x <= y
<1> DEFINE less == OpToRel(<, Nat)
<1>1. IsWellFoundedOn(less, Nat)
  BY NatLessThanWellFounded
<1>2. \A x, y \in Nat : x < y => <<x, y>> \in less
  BY DEF OpToRel
<1> HIDE DEF less
<1>3. PICK x \in T : \A y \in T : ~(<<y, x>> \in less)
  BY <1>1, WFMin
<1>4. ASSUME NEW y \in T PROVE x <= y
  <2>1. x \in Nat /\ y \in Nat /\ ~(y < x)
    BY <1>2, <1>3
  <2>2. QED
    BY <2>1
<1>5. QED
  BY <1>4

\* There is a best of the candidates, if there are any.
LEMMA BestExists ==
  ASSUME NEW C, C # {}, NEW value, \A i \in C : value[i] \in Nat
  PROVE  P!Least(C, value) # {}
<1> DEFINE T == {value[i] : i \in C}
<1>1. T \subseteq Nat /\ T # {}
  OBVIOUS
<1>2. PICK x \in T : \A y \in T : x <= y
  BY <1>1, LeastNatural
<1>3. PICK i \in C : x = value[i]
  OBVIOUS
<1>4. \A j \in C : value[i] <= value[j]
  BY <1>2, <1>3
<1>5. i \in P!Least(C, value)
  BY <1>4 DEF P!Least
<1>6. QED
  BY <1>5

LEMMA AbsIsNatural ==
  ASSUME NEW x \in Int, NEW y \in Int
  PROVE  P!Abs(x - y) \in Nat
BY DEF P!Abs

-----------------------------------------------------------------------------
(* On to the next call.                                                    *)

LEMMA AfterIs ==
  /\ P!After("confident") = "number" /\ P!After("number") = "ext" /\ P!After("ext") = "grace"
  /\ P!After("grace") = "start" /\ P!After("start") = "collect"
<1>1. DOMAIN P!Passes = 1 .. 6 /\ P!Passes[1] = "confident" /\ P!Passes[2] = "number"
      /\ P!Passes[3] = "ext" /\ P!Passes[4] = "grace" /\ P!Passes[5] = "start"
      /\ P!Passes[6] = "collect"
  BY DEF P!Passes
<1>2. \A i \in 1 .. 6 : i \in {1, 2, 3, 4, 5, 6}
  OBVIOUS
<1>3. /\ (CHOOSE i \in DOMAIN P!Passes : P!Passes[i] = "confident") = 1
      /\ (CHOOSE i \in DOMAIN P!Passes : P!Passes[i] = "number") = 2
      /\ (CHOOSE i \in DOMAIN P!Passes : P!Passes[i] = "ext") = 3
      /\ (CHOOSE i \in DOMAIN P!Passes : P!Passes[i] = "grace") = 4
      /\ (CHOOSE i \in DOMAIN P!Passes : P!Passes[i] = "start") = 5
  BY <1>1, <1>2
<1>4. QED
  BY <1>1, <1>3 DEF P!After

LEMMA CallsAre ==
  ASSUME MatchInv
  PROVE  /\ Len(P!calls) \in Nat \ {0} /\ DOMAIN P!calls = 1 .. Len(P!calls)
         /\ next \in DOMAIN P!calls
         /\ \A s \in DOMAIN P!calls : P!calls[s].duration \in Int
         /\ \A i \in DOMAIN P!closes : P!closes[i].duration \in Int
         /\ DirPenalty \in Int
         /\ DOMAIN input.graces = 1 .. Len(input.graces) /\ Len(input.graces) \in Nat
         /\ \A g \in DOMAIN input.graces : input.graces[g].duration \in Int
BY InputAssumption DEF MatchInv, P!calls, P!closes

LEMMA Advanced ==
  ASSUME MatchInv, pass \in {"confident", "number", "ext", "grace", "start"}, P!Advance,
         input' = input
  PROVE  /\ pass' \in DOMAIN Turn /\ pass' # "done" /\ next' \in 1 .. Len(P!calls)
         /\ \A q \in DOMAIN Turn : Looked(q)' \subseteq Looked(q) \cup (IF q = pass THEN {next} ELSE {})
<1>1. Len(P!calls) \in Nat \ {0} /\ DOMAIN P!calls = 1 .. Len(P!calls) /\ next \in 1 .. Len(P!calls)
      /\ P!calls' = P!calls
  BY CallsAre DEF P!calls
<1>2. CASE next >= Len(P!calls)
  <2>0. next = Len(P!calls) /\ next \in Nat
    <3>1. Len(P!calls) \in Nat /\ next \in 1 .. Len(P!calls)
      BY <1>1
    <3>2. QED
      BY ONLY <1>2, <3>1
  <2>1. pass' = P!After(pass) /\ next' = 1
    BY <1>2 DEF P!Advance
  <2>2. pass' \in DOMAIN Turn /\ pass' # "done" /\ Turn[pass'] = Turn[pass] + 1
    BY <2>1, AfterIs DEF Turn
  <2>3. ASSUME NEW q \in DOMAIN Turn, NEW s \in Looked(q)'
        PROVE  s \in Looked(q) \cup (IF q = pass THEN {next} ELSE {})
    <3>1. Turn[pass'] > Turn[q] /\ s \in 1 .. Len(P!calls)
      BY <1>1, <2>1, <2>3 DEF Looked
    <3>2. Turn[pass] >= Turn[q] /\ Turn[q] \in Int /\ Turn[pass] \in Int
      BY <2>2, <3>1 DEF Turn
    <3>3. CASE Turn[pass] > Turn[q]
      BY <1>1, <3>1, <3>3 DEF Looked
    <3>4. CASE Turn[pass] = Turn[q]
      <4>1. q = pass
        BY <3>4 DEF Turn
      <4>2. ~(Turn[pass] > Turn[q])
        BY <3>2, <3>4
      <4>3. s \in 1 .. next - 1 \/ s = next
        BY ONLY <2>0, <3>1
      <4>4. QED
        BY <4>1, <4>2, <4>3 DEF Looked
    <3>5. QED
      BY <3>2, <3>3, <3>4
  <2>4. QED
    BY <1>1, <2>1, <2>2, <2>3
<1>3. CASE ~(next >= Len(P!calls))
  <2>1. pass' = pass /\ next' = next + 1
    BY <1>3 DEF P!Advance
  <2>2. next' \in 1 .. Len(P!calls) /\ pass \in DOMAIN Turn /\ pass # "done"
    BY <1>1, <1>3, <2>1 DEF MatchInv
  <2>3. \A s \in 1 .. next' - 1 : s \in 1 .. next - 1 \/ s = next
    BY <1>1, <2>1
  <2>4. ASSUME NEW q \in DOMAIN Turn
        PROVE  Looked(q)' \subseteq Looked(q) \cup (IF q = pass THEN {next} ELSE {})
    BY <1>1, <2>1, <2>3 DEF Looked
  <2>5. QED
    BY <2>1, <2>2, <2>4
<1>4. QED
  BY <1>2, <1>3

-----------------------------------------------------------------------------
(* The steps.                                                              *)

\* What the calls and the recordings are does not change.
LEMMA SameInput ==
  ASSUME input' = input
  PROVE  /\ P!calls' = P!calls /\ P!closes' = P!closes /\ P!PassedThrough' = P!PassedThrough
         /\ \A q, s, i : Suits(q, s, i)' <=> Suits(q, s, i)
         /\ \A s, g : GraceSuits(s, g)' <=> GraceSuits(s, g)
<1>1. P!calls' = P!calls /\ P!closes' = P!closes
  BY DEF P!calls, P!closes
<1>2. P!PassedThrough' = P!PassedThrough
  BY DEF P!PassedThrough, P!TrunkNumbers, P!calls
<1>3. \A s, g : GraceSuits(s, g)' <=> GraceSuits(s, g)
  BY <1>1 DEF GraceSuits
<1>4. \A s, i : /\ P!OfNumber(s, i)' <=> P!OfNumber(s, i)
                /\ P!OfExt(s, i)' <=> P!OfExt(s, i)
                /\ P!OfStart(s, i)' <=> P!OfStart(s, i)
  BY <1>1 DEF P!OfNumber, P!OfExt, P!OfStart
<1>5. \A q, s, i : Suits(q, s, i)' <=> Suits(q, s, i)
  BY <1>4 DEF Suits
<1>6. QED
  BY <1>1, <1>2, <1>3, <1>5

\* What a pass has left stays left, whatever is matched later.
LEMMA LeftStays ==
  ASSUME MatchInv, input' = input, pass \in {"confident", "number", "ext", "grace", "start"},
         P!Advance, P!Matched \subseteq P!Matched', P!Free' \subseteq P!Free,
         FreeGraces' \subseteq FreeGraces,
         \/ next \in P!Matched' \cup P!PassedThrough
         \/ /\ pass \in {"number", "ext", "start"} => \A i \in P!Free' : ~Suits(pass, next, i)
            /\ pass = "grace" => \A g \in FreeGraces' : ~GraceSuits(next, g)
  PROVE  /\ \A q \in {"number", "ext", "start"} : \A s \in Left(q)', i \in P!Free' : ~Suits(q, s, i)'
         /\ \A s \in Left("grace")', g \in FreeGraces' : ~GraceSuits(s, g)'
<1>1. P!PassedThrough' = P!PassedThrough
      /\ (\A q, s, i : Suits(q, s, i)' <=> Suits(q, s, i))
      /\ (\A s, g : GraceSuits(s, g)' <=> GraceSuits(s, g))
  BY SameInput
<1>2. \A q \in {"number", "ext", "start", "grace"} :
        Left(q)' \subseteq Left(q) \cup (IF q = pass THEN {next} \ (P!Matched' \cup P!PassedThrough) ELSE {})
  <2>1. \A q \in {"number", "ext", "start", "grace"} :
          Looked(q)' \subseteq Looked(q) \cup (IF q = pass THEN {next} ELSE {})
    BY Advanced DEF Turn
  <2>2. QED
    BY <1>1, <2>1 DEF Left
<1>3. ASSUME NEW q \in {"number", "ext", "start"}, NEW s \in Left(q)', NEW i \in P!Free'
      PROVE  ~Suits(q, s, i)'
  BY <1>1, <1>2, <1>3 DEF MatchInv
<1>4. ASSUME NEW s \in Left("grace")', NEW g \in FreeGraces' PROVE ~GraceSuits(s, g)'
  BY <1>1, <1>2, <1>4 DEF MatchInv
<1>5. QED
  BY <1>3, <1>4

\* A pass gives the call one of the best of what suits it, if there is any.
LEMMA VisitKept ==
  ASSUME MatchInv, NEW p \in {"confident", "number", "ext", "start"}, NEW best \in SUBSET P!Free,
         P!Visit(p, best), P!Advance, UNCHANGED <<input, graces, reports>>,
         p # "confident" /\ best = {} => \A i \in P!Free : ~Suits(p, next, i)
  PROVE  MatchInv'
<1>1. pass = p /\ input' = input /\ graces' = graces /\ reports' = reports
  BY DEF P!Visit
<1>2. P!calls' = P!calls /\ P!closes' = P!closes /\ P!PassedThrough' = P!PassedThrough
  BY <1>1, SameInput
<1>3. \/ /\ pairs' = pairs
         /\ next \in P!Matched \cup P!PassedThrough \/ best = {}
      \/ /\ next \notin P!Matched \cup P!PassedThrough
         /\ \E i \in best : pairs' = [s \in DOMAIN pairs \cup {next} |-> IF s = next THEN i ELSE pairs[s]]
  BY DEF P!Visit
<1>4. FreeGraces' = FreeGraces
  BY <1>1 DEF FreeGraces
<1>5. /\ \A s, t \in DOMAIN pairs : pairs[s] = pairs[t] => s = t
      /\ \A s, t \in DOMAIN graces : graces[s] = graces[t] => s = t
      /\ DOMAIN pairs \cap DOMAIN graces = {} /\ P!Matched \cap P!PassedThrough = {}
  BY DEF MatchInv
<1>6. /\ \A s, t \in DOMAIN pairs' : pairs'[s] = pairs'[t] => s = t
      /\ DOMAIN pairs' \cap DOMAIN graces' = {} /\ P!Matched' \cap P!PassedThrough' = {}
      /\ P!Matched \subseteq P!Matched' /\ P!Free' \subseteq P!Free
      /\ \/ next \in P!Matched' \cup P!PassedThrough
         \/ pass \in {"number", "ext", "start"} => \A i \in P!Free' : ~Suits(pass, next, i)
  <2>1. CASE pairs' = pairs /\ (next \in P!Matched \cup P!PassedThrough \/ best = {})
    <3>1. P!Matched' = P!Matched /\ P!Free' = P!Free
      BY <1>1, <1>2, <2>1 DEF P!Matched, P!Free, P!Used
    <3>2. QED
      BY <1>1, <1>2, <1>5, <2>1, <3>1
  <2>2. ASSUME NEW i \in best, next \notin P!Matched \cup P!PassedThrough,
               pairs' = [s \in DOMAIN pairs \cup {next} |-> IF s = next THEN i ELSE pairs[s]]
        PROVE  /\ \A s, t \in DOMAIN pairs' : pairs'[s] = pairs'[t] => s = t
               /\ DOMAIN pairs' \cap DOMAIN graces' = {} /\ P!Matched' \cap P!PassedThrough' = {}
               /\ P!Matched \subseteq P!Matched' /\ P!Free' \subseteq P!Free
               /\ next \in P!Matched'
    <3>1. next \notin DOMAIN pairs /\ next \notin DOMAIN graces
      BY <2>2 DEF P!Matched
    <3>2. /\ DOMAIN pairs' = DOMAIN pairs \cup {next} /\ pairs'[next] = i
          /\ \A s \in DOMAIN pairs : pairs'[s] = pairs[s]
      BY <2>2, <3>1
    <3>3. \A s \in DOMAIN pairs : pairs[s] # i
      BY DEF P!Free, P!Used
    <3>4. P!Matched' = P!Matched \cup {next}
      BY <1>1, <3>2 DEF P!Matched
    <3>5. P!Free' \subseteq P!Free
      BY <1>2, <3>2 DEF P!Free, P!Used
    <3>6. \A s, t \in DOMAIN pairs' : pairs'[s] = pairs'[t] => s = t
      BY <1>5, <3>2, <3>3
    <3>7. QED
      BY <1>1, <1>2, <1>5, <2>2, <3>1, <3>2, <3>4, <3>5, <3>6
  <2>3. QED
    BY <1>3, <2>1, <2>2
<1>7. /\ \A q \in {"number", "ext", "start"} : \A s \in Left(q)', i \in P!Free' : ~Suits(q, s, i)'
      /\ \A s \in Left("grace")', g \in FreeGraces' : ~GraceSuits(s, g)'
  BY <1>1, <1>4, <1>6, LeftStays
<1>8. pass' \in DOMAIN Turn /\ next' \in 1 .. Len(P!calls')
  BY <1>1, <1>2, Advanced
<1>9. input' \in Input /\ DOMAIN reports' \subseteq DOMAIN P!calls'
      /\ \A s, t \in DOMAIN graces' : graces'[s] = graces'[t] => s = t
  BY <1>1, <1>2, <1>5 DEF MatchInv
<1>10. QED
  BY <1>6, <1>7, <1>8, <1>9 DEF MatchInv

\* The best of those that suit in a pass, with a cost that is a number.
LEMMA BestVisit ==
  ASSUME MatchInv, NEW p \in {"number", "ext", "start"}, NEW C, NEW value,
         C = {i \in P!Free : Suits(p, next, i)}, \A i \in C : value[i] \in Nat,
         P!Visit(p, P!Least(C, value)), P!Advance, UNCHANGED <<input, graces, reports>>
  PROVE  MatchInv'
<1>1. P!Least(C, value) \in SUBSET P!Free
  BY DEF P!Least
<1>2. P!Least(C, value) = {} => \A i \in P!Free : ~Suits(p, next, i)
  BY BestExists
<1>3. QED
  BY <1>1, <1>2, VisitKept

LEMMA CostIsNatural ==
  ASSUME MatchInv, NEW i \in P!Free
  PROVE  P!Cost(next, i) \in Nat /\ P!Difference(next, i) \in Nat
<1> DEFINE same == \E n \in P!SameSide(P!calls[next], P!closes[i]) : P!NumMatch(P!Number(P!calls[next]), n)
           extra == IF same THEN 0 ELSE DirPenalty
<1>1. P!calls[next].duration \in Int /\ P!closes[i].duration \in Int
  BY CallsAre DEF P!Free
<1>2. DirPenalty \in Int
  BY InputAssumption
<1>3. P!Cost(next, i) = P!Abs(P!calls[next].duration - (P!closes[i].duration + extra))
  BY DEF P!Cost
<1> HIDE DEF same
<1>4. P!closes[i].duration + extra \in Int
  BY <1>1, <1>2
<1>5. P!Cost(next, i) \in Nat
  BY <1>1, <1>3, <1>4, AbsIsNatural
<1>6. P!Difference(next, i) \in Nat
  BY <1>1, AbsIsNatural DEF P!Difference
<1>7. QED
  BY <1>5, <1>6

LEMMA ConfidentMatchKept ==
  ASSUME MatchInv, P!ConfidentMatch
  PROVE  MatchInv'
<1> DEFINE C == {i \in P!Free : P!OfNumber(next, i)}
           best == {i \in P!Least(C, [j \in C |-> P!Cost(next, j)]) : P!Cost(next, i) <= Confident}
<1>1. P!Visit("confident", best)
  BY DEF P!ConfidentMatch
<1>2. best \in SUBSET P!Free
  BY DEF P!Least
<1> HIDE DEF best
<1>3. P!Advance /\ UNCHANGED <<input, graces, reports>>
  BY <1>1 DEF P!Visit
<1>4. QED
  BY <1>1, <1>2, <1>3, VisitKept

LEMMA NumberMatchKept ==
  ASSUME MatchInv, P!NumberMatch
  PROVE  MatchInv'
<1> DEFINE C == {i \in P!Free : P!OfNumber(next, i)}
           value == [i \in C |-> P!Cost(next, i)]
<1>1. P!Visit("number", P!Least(C, value))
  BY DEF P!NumberMatch
<1>2. \A i \in C : value[i] \in Nat
  BY CostIsNatural
<1>3. C = {i \in P!Free : Suits("number", next, i)}
  BY DEF Suits
<1> HIDE DEF C, value
<1>4. P!Advance /\ UNCHANGED <<input, graces, reports>>
  BY <1>1 DEF P!Visit
<1>5. QED
  BY <1>1, <1>2, <1>3, <1>4, BestVisit

LEMMA ExtMatchKept ==
  ASSUME MatchInv, P!ExtMatch
  PROVE  MatchInv'
<1> DEFINE C == {i \in P!Free : P!OfExt(next, i)}
           value == [i \in C |-> P!Difference(next, i)]
<1>1. P!Visit("ext", P!Least(C, value))
  BY DEF P!ExtMatch
<1>2. \A i \in C : value[i] \in Nat
  BY CostIsNatural
<1>3. C = {i \in P!Free : Suits("ext", next, i)}
  BY DEF Suits
<1> HIDE DEF C, value
<1>4. P!Advance /\ UNCHANGED <<input, graces, reports>>
  BY <1>1 DEF P!Visit
<1>5. QED
  BY <1>1, <1>2, <1>3, <1>4, BestVisit

LEMMA StartMatchKept ==
  ASSUME MatchInv, P!StartMatch
  PROVE  MatchInv'
<1> DEFINE C == {i \in P!Free : P!OfStart(next, i)}
           value == [i \in C |-> P!Cost(next, i)]
<1>1. P!Visit("start", P!Least(C, value))
  BY DEF P!StartMatch
<1>2. \A i \in C : value[i] \in Nat
  BY CostIsNatural
<1>3. C = {i \in P!Free : Suits("start", next, i)}
  BY DEF Suits
<1> HIDE DEF C, value
<1>4. P!Advance /\ UNCHANGED <<input, graces, reports>>
  BY <1>1 DEF P!Visit
<1>5. QED
  BY <1>1, <1>2, <1>3, <1>4, BestVisit

\* The first of the best grace closes is one of them.
LEMMA FirstOf ==
  ASSUME MatchInv, NEW best, best \subseteq DOMAIN input.graces, best # {}
  PROVE  (CHOOSE g \in best : \A h \in best : g <= h) \in best
<1>1. best \subseteq Nat
  BY CallsAre
<1>2. \E g \in best : \A h \in best : g <= h
  BY <1>1, LeastNatural
<1>3. QED
  BY <1>2

LEMMA GraceMatchKept ==
  ASSUME MatchInv, P!GraceMatch
  PROVE  MatchInv'
<1> DEFINE C == {g \in DOMAIN input.graces \ {graces[s] : s \in DOMAIN graces} :
                   /\ P!Abs(input.graces[g].time - P!calls[next].time) <= GraceWindow
                   /\ P!Abs(input.graces[g].duration - P!calls[next].duration) <= GraceDiff}
           value == [g \in C |-> P!Abs(input.graces[g].duration - P!calls[next].duration)]
           best == P!Least(C, value)
           earliest == CHOOSE g \in best : \A h \in best : g <= h
<1>1. /\ pass = "grace"
      /\ graces' = IF next \in P!Matched \cup P!PassedThrough \/ best = {} THEN graces
                   ELSE [s \in DOMAIN graces \cup {next} |-> IF s = next THEN earliest ELSE graces[s]]
      /\ P!Advance /\ input' = input /\ pairs' = pairs /\ reports' = reports
  BY DEF P!GraceMatch
<1>2. C = {g \in FreeGraces : GraceSuits(next, g)}
  BY DEF FreeGraces, GraceSuits
<1>3. \A g \in C : value[g] \in Nat
  <2>1. \A g \in C : input.graces[g].duration \in Int /\ P!calls[next].duration \in Int
    BY CallsAre
  <2>2. QED
    BY <2>1, AbsIsNatural
<1> HIDE DEF C, value
<1>4. best = {} => \A g \in FreeGraces : ~GraceSuits(next, g)
  BY <1>2, <1>3, BestExists
<1>5. best \subseteq FreeGraces
  BY <1>2 DEF P!Least
<1> HIDE DEF best
<1>6. best # {} => earliest \in best
  BY <1>5, FirstOf DEF FreeGraces
<1> HIDE DEF earliest
<1>7. P!calls' = P!calls /\ P!closes' = P!closes /\ P!PassedThrough' = P!PassedThrough
  BY <1>1, SameInput
<1>8. P!Free' = P!Free
  BY <1>1, <1>7 DEF P!Free, P!Used
<1>9. /\ \A s, t \in DOMAIN pairs : pairs[s] = pairs[t] => s = t
      /\ \A s, t \in DOMAIN graces : graces[s] = graces[t] => s = t
      /\ DOMAIN pairs \cap DOMAIN graces = {} /\ P!Matched \cap P!PassedThrough = {}
  BY DEF MatchInv
<1>10. /\ \A s, t \in DOMAIN graces' : graces'[s] = graces'[t] => s = t
       /\ DOMAIN pairs' \cap DOMAIN graces' = {} /\ P!Matched' \cap P!PassedThrough' = {}
       /\ P!Matched \subseteq P!Matched' /\ FreeGraces' \subseteq FreeGraces
       /\ \/ next \in P!Matched' \cup P!PassedThrough
          \/ \A g \in FreeGraces' : ~GraceSuits(next, g)
  <2>1. CASE graces' = graces /\ (next \in P!Matched \cup P!PassedThrough \/ best = {})
    <3>1. P!Matched' = P!Matched /\ FreeGraces' = FreeGraces
      BY <1>1, <2>1 DEF P!Matched, FreeGraces
    <3>2. QED
      BY <1>1, <1>4, <1>7, <1>9, <2>1, <3>1
  <2>2. CASE /\ next \notin P!Matched \cup P!PassedThrough /\ best # {}
             /\ graces' = [s \in DOMAIN graces \cup {next} |-> IF s = next THEN earliest ELSE graces[s]]
    <3>1. next \notin DOMAIN pairs /\ next \notin DOMAIN graces /\ earliest \in FreeGraces
      BY <1>5, <1>6, <2>2 DEF P!Matched
    <3>2. /\ DOMAIN graces' = DOMAIN graces \cup {next} /\ graces'[next] = earliest
          /\ \A s \in DOMAIN graces : graces'[s] = graces[s]
      BY <2>2, <3>1
    <3>3. \A s \in DOMAIN graces : graces[s] # earliest
      BY <3>1 DEF FreeGraces
    <3>4. P!Matched' = P!Matched \cup {next}
      BY <1>1, <3>2 DEF P!Matched
    <3>5. FreeGraces' \subseteq FreeGraces
      BY <1>1, <3>2 DEF FreeGraces
    <3>6. \A s, t \in DOMAIN graces' : graces'[s] = graces'[t] => s = t
      BY <1>9, <3>2, <3>3
    <3>7. QED
      BY <1>1, <1>7, <1>9, <2>2, <3>1, <3>2, <3>4, <3>5, <3>6
  <2>3. QED
    BY <1>1, <2>1, <2>2
<1>11. /\ \A q \in {"number", "ext", "start"} : \A s \in Left(q)', i \in P!Free' : ~Suits(q, s, i)'
       /\ \A s \in Left("grace")', g \in FreeGraces' : ~GraceSuits(s, g)'
  BY <1>1, <1>8, <1>10, LeftStays
<1>12. pass' \in DOMAIN Turn /\ next' \in 1 .. Len(P!calls')
  BY <1>1, <1>7, Advanced
<1>13. input' \in Input /\ DOMAIN reports' \subseteq DOMAIN P!calls'
       /\ \A s, t \in DOMAIN pairs' : pairs'[s] = pairs'[t] => s = t
  BY <1>1, <1>7, <1>9 DEF MatchInv
<1>14. QED
  BY <1>10, <1>11, <1>12, <1>13 DEF MatchInv

LEMMA CollectKept ==
  ASSUME MatchInv, P!Collect
  PROVE  MatchInv'
<1>1. /\ pass = "collect" /\ pass' = "done" /\ input' = input /\ next' = next /\ pairs' = pairs
      /\ graces' = graces /\ DOMAIN reports' = P!Unrecorded
  BY DEF P!Collect
<1>2. P!calls' = P!calls /\ P!closes' = P!closes /\ P!PassedThrough' = P!PassedThrough
      /\ (\A q, s, i : Suits(q, s, i)' <=> Suits(q, s, i))
      /\ (\A s, g : GraceSuits(s, g)' <=> GraceSuits(s, g))
  BY <1>1, SameInput
<1>3. P!Matched' = P!Matched /\ P!Free' = P!Free /\ FreeGraces' = FreeGraces
  BY <1>1, <1>2 DEF P!Matched, P!Free, P!Used, FreeGraces
<1>4. \A q \in {"number", "ext", "grace", "start"} : Left(q)' = Left(q)
  <2>1. \A q \in {"number", "ext", "grace", "start"} :
          Turn["collect"] > Turn[q] /\ Turn["done"] > Turn[q]
    BY DEF Turn
  <2>2. \A q \in {"number", "ext", "grace", "start"} : Looked(q)' = Looked(q)
    BY <1>1, <1>2, <2>1 DEF Looked
  <2>3. QED
    BY <1>2, <1>3, <2>2 DEF Left
<1>5. P!Unrecorded \subseteq DOMAIN P!calls
  BY DEF P!Unrecorded, P!PassedThrough
<1>6. /\ \A q \in {"number", "ext", "start"} : \A s \in Left(q)', i \in P!Free' : ~Suits(q, s, i)'
      /\ \A s \in Left("grace")', g \in FreeGraces' : ~GraceSuits(s, g)'
  BY <1>2, <1>3, <1>4 DEF MatchInv
<1>7. pass' \in DOMAIN Turn
  BY <1>1 DEF Turn
<1>8. QED
  BY <1>1, <1>2, <1>3, <1>5, <1>6, <1>7 DEF MatchInv

-----------------------------------------------------------------------------

LEMMA MatchInit == P!Init => MatchInv
<1> SUFFICES ASSUME P!Init PROVE MatchInv
  OBVIOUS
<1>1. /\ input \in Input /\ pass = "confident" /\ next = 1 /\ pairs = <<>> /\ graces = <<>>
      /\ reports = <<>>
  BY DEF P!Init
<1>2. DOMAIN pairs = {} /\ DOMAIN graces = {} /\ DOMAIN reports = {}
  BY <1>1
<1>3. P!Matched = {}
  BY <1>2 DEF P!Matched
<1>4. Len(P!calls) \in Nat \ {0}
  BY <1>1, InputAssumption DEF P!calls
<1>5. \A q \in {"number", "ext", "grace", "start"} : Looked(q) = {}
  BY <1>1 DEF Looked, Turn
<1>6. pass \in DOMAIN Turn /\ next \in 1 .. Len(P!calls)
  BY <1>1, <1>4 DEF Turn
<1>7. QED
  BY <1>1, <1>2, <1>3, <1>5, <1>6 DEF MatchInv, Left

LEMMA MatchKept == MatchInv /\ [P!Next]_(P!vars) => MatchInv'
<1> SUFFICES ASSUME MatchInv, [P!Next]_(P!vars) PROVE MatchInv'
  OBVIOUS
<1>1. CASE P!Next
  BY <1>1, ConfidentMatchKept, NumberMatchKept, ExtMatchKept, GraceMatchKept, StartMatchKept,
     CollectKept DEF P!Next
<1>2. CASE UNCHANGED P!vars
  <2>1. /\ input' = input /\ pass' = pass /\ next' = next /\ pairs' = pairs /\ graces' = graces
        /\ reports' = reports
    BY <1>2 DEF P!vars
  <2>2. P!calls' = P!calls /\ P!closes' = P!closes /\ P!PassedThrough' = P!PassedThrough
        /\ (\A q, s, i : Suits(q, s, i)' <=> Suits(q, s, i))
        /\ (\A s, g : GraceSuits(s, g)' <=> GraceSuits(s, g))
    BY <2>1, SameInput
  <2>3. P!Matched' = P!Matched /\ P!Free' = P!Free /\ FreeGraces' = FreeGraces
    BY <2>1, <2>2 DEF P!Matched, P!Free, P!Used, FreeGraces
  <2>4. \A q : Left(q)' = Left(q)
    BY <2>1, <2>2, <2>3 DEF Left, Looked
  <2>5. QED
    BY <2>1, <2>2, <2>3, <2>4 DEF MatchInv
<1>3. QED
  BY <1>1, <1>2

LEMMA MatchImplies == MatchInv => NoneOverlooked
<1> SUFFICES ASSUME MatchInv PROVE NoneOverlooked
  OBVIOUS
<1>1. ASSUME pass = "done", NEW s \in DOMAIN reports \ (P!Matched \cup P!PassedThrough)
      PROVE  /\ \A i \in P!Free : ~P!OfNumber(s, i) /\ ~P!OfExt(s, i) /\ ~P!OfStart(s, i)
             /\ \A g \in FreeGraces : ~GraceSuits(s, g)
  <2>1. \A q \in {"number", "ext", "grace", "start"} : Looked(q) = DOMAIN P!calls
    BY <1>1 DEF Looked, Turn
  <2>2. \A q \in {"number", "ext", "grace", "start"} : s \in Left(q)
    BY <1>1, <2>1 DEF Left, MatchInv
  <2>3. \A i \in P!Free : ~Suits("number", s, i) /\ ~Suits("ext", s, i) /\ ~Suits("start", s, i)
    BY <2>2 DEF MatchInv
  <2>4. QED
    BY <2>2, <2>3 DEF MatchInv, Suits
<1>2. ASSUME NEW s \in DOMAIN P!calls, NEW g \in DOMAIN input.graces, ~GraceSuits(s, g)
      PROVE  \/ P!Abs(input.graces[g].time - P!calls[s].time) > GraceWindow
             \/ P!Abs(input.graces[g].duration - P!calls[s].duration) > GraceDiff
  <2>1. /\ input.graces[g].time \in Int /\ P!calls[s].time \in Int
        /\ input.graces[g].duration \in Int /\ P!calls[s].duration \in Int
        /\ GraceWindow \in Int /\ GraceDiff \in Int
    BY <1>2, InputAssumption DEF MatchInv, P!calls
  <2>2. /\ P!Abs(input.graces[g].time - P!calls[s].time) \in Nat
        /\ P!Abs(input.graces[g].duration - P!calls[s].duration) \in Nat
    BY <2>1, AbsIsNatural
  <2>3. QED
    BY <1>2, <2>1, <2>2 DEF GraceSuits
<1>3. DOMAIN reports \subseteq DOMAIN P!calls
  BY DEF MatchInv
<1>4. QED
  BY <1>1, <1>2, <1>3 DEF NoneOverlooked, P!NoneOverlooked, MatchInv, FreeGraces

\* Whatever the day's calls and recordings are, no recording is given to two calls, and a
\* call that is reported as unrecorded is so because none that could be its is left: a better
\* one took it (log_analyzer.py:1137-1261).
THEOREM NoneIsOverlooked == P!Spec => []NoneOverlooked
<1>1. QED
  BY MatchInit, MatchKept, MatchImplies, PTL DEF P!Spec

-----------------------------------------------------------------------------
(***************************************************************************)
(* The lines of a day's logs.  The half of a recording is the last close   *)
(* of its channel so far, and of the events that decide the cause of a     *)
(* failure all of the window are kept: there is one a line at most, so the *)
(* events that are dropped are more lines away than the table is long.     *)
(***************************************************************************)

Noted == {"sspp_loss", "outbound_reset"}
EventType == Noted \cup {"init_instance", "db_fail", "norm_failure"}
Plain == {"init", "version", "call", "skip", "fail", "counted", "grace"} \cup EventType
Line == [kind : Plain] \cup [kind : {"close", "path", "size"}, chan : Chan, empty : BOOLEAN]
Event == Nat \X EventType

\* Line i of s closes a recording of channel c.
ClosesOf(s, i, c) == "chan" \in DOMAIN s[i] /\ s[i].chan = c /\ ~s[i].empty

\* Line a of s has the name of a recording, of c, and is the last close of c.
LastClose(s, c, a) ==
  /\ a \in 1 .. Len(s)
  /\ s[a].kind = "path" /\ s[a].chan = c /\ ClosesOf(s, a, c)
  /\ \A i \in a + 1 .. Len(s) : ~ClosesOf(s, i, c)

\* The halves a and b of s are of one recording.
Met(s, a, b) ==
  /\ s[a].kind = "path" /\ s[b].kind = "size"
  /\ \A i \in a .. b : ClosesOf(s, i, s[a].chan) <=> i \in {a, b}

HalvesInv ==
  /\ lines \in Seq(Line)
  /\ \A c \in DOMAIN halves : LastClose(lines, c, halves[c].line)
  /\ \A x \in closes :
       /\ x.name \in 1 .. Len(lines) /\ x.size \in 0 .. Len(lines)
       /\ x.size > x.name => Met(lines, x.name, x.size)
  /\ \A x \in closes, c \in DOMAIN halves : x.name # halves[c].line
  /\ \A x, y \in closes : x.name = y.name => x = y

\* The events e of the lines s.
Events(e, s) ==
  /\ e \in Seq(Event) /\ Len(e) <= 2 * Window
  /\ \A i \in 1 .. Len(e) :
       /\ e[i][1] \in 1 .. Len(s)
       /\ e[i][2] \in Noted => s[e[i][1]].kind = e[i][2]
  /\ \A i, j \in 1 .. Len(e) : i <= j => e[j][1] - e[i][1] >= j - i
  /\ \A n \in 1 .. Len(s) :
       s[n].kind \in Noted /\ n > Len(s) - 2 * Window =>
         \E i \in 1 .. Len(e) : e[i] = <<n, s[n].kind>>

\* A line of the kind is in the window of line n of s.
Near(s, n, type) == \E i \in 1 .. n - 1 : n - i <= Window /\ s[i].kind = type

\* The cause of a failure in line n of s.
CauseOf(s, n, cause) ==
  /\ cause = "sspp_loss" => Near(s, n, "sspp_loss")
  /\ cause = "direction_mismatch" => Near(s, n, "outbound_reset") /\ ~Near(s, n, "sspp_loss")
  /\ cause = "unknown" => ~Near(s, n, "outbound_reset") /\ ~Near(s, n, "sspp_loss")

EventsInv ==
  /\ Events(recent, lines)
  /\ \A f \in fails : f.line \in 1 .. Len(lines) /\ CauseOf(lines, f.line, f.cause)

LogInv == HalvesInv /\ EventsInv

-----------------------------------------------------------------------------
(* A line more.                                                            *)

\* t has a line more than s.
Longer(s, t) ==
  /\ Len(s) \in Nat /\ Len(t) = Len(s) + 1
  /\ \A i \in 1 .. Len(s) : t[i] = s[i]

LEMMA LineMore ==
  ASSUME NEW s \in Seq(Line), NEW x \in Line
  PROVE  LET t == Append(s, x) IN t \in Seq(Line) /\ Longer(s, t) /\ t[Len(s) + 1] = x
BY AppendProperties, LenProperties DEF Longer

\* The last close of a channel is so until the next.
LEMMA LastCloseStays ==
  ASSUME NEW s, NEW t, Longer(s, t), NEW c, NEW a, LastClose(s, c, a), ~ClosesOf(t, Len(s) + 1, c)
  PROVE  LastClose(t, c, a)
<1>1. a \in 1 .. Len(s) /\ a \in 1 .. Len(t) /\ t[a] = s[a]
  BY DEF Longer, LastClose
<1>2. ClosesOf(t, a, c) /\ t[a].kind = "path" /\ t[a].chan = c
  BY <1>1 DEF LastClose, ClosesOf
<1>3. ASSUME NEW i \in a + 1 .. Len(t) PROVE ~ClosesOf(t, i, c)
  <2>1. CASE i \in 1 .. Len(s)
    <3>1. i \in a + 1 .. Len(s) /\ t[i] = s[i]
      BY <1>1, <2>1 DEF Longer
    <3>2. QED
      BY <3>1 DEF LastClose, ClosesOf
  <2>2. i \in 1 .. Len(s) \/ i = Len(s) + 1
    BY <1>1 DEF Longer
  <2>3. QED
    BY <2>1, <2>2
<1>4. QED
  BY <1>1, <1>2, <1>3 DEF LastClose

LEMMA LastCloseNew ==
  ASSUME NEW s, NEW t, Longer(s, t), NEW c,
         t[Len(s) + 1] = [kind |-> "path", chan |-> c, empty |-> FALSE]
  PROVE  LastClose(t, c, Len(s) + 1)
<1>1. Len(s) + 1 \in 1 .. Len(t) /\ Len(s) + 1 + 1 .. Len(t) = {}
  BY DEF Longer
<1>2. ClosesOf(t, Len(s) + 1, c)
  BY DEF ClosesOf
<1>3. QED
  BY <1>1, <1>2 DEF LastClose

LEMMA MetStays ==
  ASSUME NEW s, NEW t, Longer(s, t), NEW a \in 1 .. Len(s), NEW b \in 1 .. Len(s), Met(s, a, b)
  PROVE  Met(t, a, b)
<1>1. \A i \in a .. b : i \in 1 .. Len(s) /\ t[i] = s[i]
  BY DEF Longer
<1>2. t[a] = s[a] /\ t[b] = s[b]
  BY DEF Longer
<1>3. QED
  BY <1>1, <1>2 DEF Met, ClosesOf

\* The close that comes next is of the same recording.
LEMMA MetNew ==
  ASSUME NEW s, NEW t, Longer(s, t), NEW c, NEW a, LastClose(s, c, a),
         t[Len(s) + 1] = [kind |-> "size", chan |-> c, empty |-> FALSE]
  PROVE  Met(t, a, Len(s) + 1)
<1> DEFINE n == Len(s) + 1
<1>1. a \in 1 .. Len(s) /\ t[a] = s[a] /\ Len(s) \in Nat
  BY DEF Longer, LastClose
<1>2. t[a].kind = "path" /\ t[a].chan = c /\ ClosesOf(t, a, c) /\ ClosesOf(t, n, c)
  BY <1>1 DEF LastClose, ClosesOf
<1>3. ASSUME NEW i \in a .. n PROVE ClosesOf(t, i, c) <=> i \in {a, n}
  <2>1. CASE i \in a + 1 .. Len(s)
    <3>1. t[i] = s[i] /\ i # a /\ i # n
      BY <1>1, <2>1 DEF Longer
    <3>2. QED
      BY <2>1, <3>1 DEF LastClose, ClosesOf
  <2>2. i \in a + 1 .. Len(s) \/ i \in {a, n}
    BY <1>1
  <2>3. QED
    BY <1>2, <2>1, <2>2
<1>4. QED
  BY <1>2, <1>3 DEF Met

-----------------------------------------------------------------------------
(* The recordings that are closed.                                         *)

\* What is known of a half and of a recording, after a line.
LEMMA HalfStays ==
  ASSUME HalvesInv, Longer(lines, lines'), NEW c \in DOMAIN halves,
         ~ClosesOf(lines', Len(lines) + 1, c)
  PROVE  LastClose(lines', c, halves[c].line)
BY LastCloseStays DEF HalvesInv

LEMMA ClosesStay ==
  ASSUME HalvesInv, Longer(lines, lines'), NEW x \in closes
  PROVE  /\ x.name \in 1 .. Len(lines') /\ x.size \in 0 .. Len(lines')
         /\ x.size > x.name => Met(lines', x.name, x.size)
<1>1. /\ x.name \in 1 .. Len(lines) /\ x.size \in 0 .. Len(lines)
      /\ x.size > x.name => Met(lines, x.name, x.size)
  BY DEF HalvesInv
<1>2. x.name \in 1 .. Len(lines') /\ x.size \in 0 .. Len(lines')
  BY <1>1 DEF Longer
<1>3. x.size > x.name => x.size \in 1 .. Len(lines)
  BY <1>1
<1>4. QED
  BY <1>1, <1>2, <1>3, MetStays

\* A line that closes nothing.
LEMMA NothingClosed ==
  ASSUME HalvesInv, lines' \in Seq(Line), Longer(lines, lines'), halves' = halves, closes' = closes,
         \A c \in DOMAIN halves : ~ClosesOf(lines', Len(lines) + 1, c)
  PROVE  HalvesInv'
<1>1. \A c \in DOMAIN halves : LastClose(lines', c, halves[c].line)
  BY HalfStays
<1>2. \A x \in closes :
        /\ x.name \in 1 .. Len(lines') /\ x.size \in 0 .. Len(lines')
        /\ x.size > x.name => Met(lines', x.name, x.size)
  BY ClosesStay
<1>3. QED
  BY <1>1, <1>2 DEF HalvesInv

\* A recording more, with the halves of some other channels left.
LEMMA OneMore ==
  ASSUME HalvesInv, lines' \in Seq(Line), Longer(lines, lines'), NEW x, closes' = closes \cup {x},
         DOMAIN halves' \subseteq DOMAIN halves,
         \A c \in DOMAIN halves' : /\ halves'[c] = halves[c]
                                   /\ ~ClosesOf(lines', Len(lines) + 1, c)
                                   /\ x.name # halves[c].line,
         x.name \in 1 .. Len(lines'), x.size \in 0 .. Len(lines'),
         x.size > x.name => Met(lines', x.name, x.size),
         \A y \in closes : y.name # x.name
  PROVE  HalvesInv'
<1>1. \A c \in DOMAIN halves' : LastClose(lines', c, halves'[c].line)
  BY HalfStays
<1>2. \A y \in closes :
        /\ y.name \in 1 .. Len(lines') /\ y.size \in 0 .. Len(lines')
        /\ y.size > y.name => Met(lines', y.name, y.size)
  BY ClosesStay
<1>3. \A y \in closes', c \in DOMAIN halves' : y.name # halves'[c].line
  BY DEF HalvesInv
<1>4. \A y, z \in closes' : y.name = z.name => y = z
  BY DEF HalvesInv
<1>5. QED
  BY <1>1, <1>2, <1>3, <1>4 DEF HalvesInv

\* The half of a channel is dropped.
LEMMA KeptHalves ==
  ASSUME NEW c, halves' = L!Kept(c)
  PROVE  /\ DOMAIN halves' = DOMAIN halves \ {c}
         /\ \A d \in DOMAIN halves' : halves'[d] = halves[d]
BY DEF L!Kept, L!Half

\* What is dropped in its line is nothing to the halves.
LEMMA LineOfChannel ==
  ASSUME NEW s, NEW i, NEW c \in Chan, NEW k, NEW e \in BOOLEAN,
         s[i] = [kind |-> k, chan |-> c, empty |-> e]
  PROVE  \A d : ClosesOf(s, i, d) <=> (d = c /\ ~e)
BY DEF ClosesOf

LEMMA PlainLine ==
  ASSUME NEW s, NEW i, NEW k, s[i] = [kind |-> k]
  PROVE  \A d : ~ClosesOf(s, i, d)
BY DEF ClosesOf

LEMMA CloseRead ==
  ASSUME HalvesInv, NEW c \in Chan, NEW empty \in BOOLEAN, L!ReadClose(c, empty)
  PROVE  HalvesInv'
<1> DEFINE n == Len(lines) + 1
           line == [kind |-> "close", chan |-> c, empty |-> empty]
<1>1. line \in Line
  BY DEF Line
<1>2. lines \in Seq(Line) /\ lines' = Append(lines, line)
  BY DEF HalvesInv, L!ReadClose, L!Read
<1> HIDE DEF line
<1>3. lines' \in Seq(Line) /\ Longer(lines, lines') /\ lines'[n] = line
  BY <1>1, <1>2, LineMore
<1>4. \A d : ClosesOf(lines', n, d) <=> (d = c /\ ~empty)
  BY <1>3, LineOfChannel DEF line
<1>5. CASE empty
  <2>1. halves' = halves /\ closes' = closes
    BY <1>5 DEF L!ReadClose
  <2>2. QED
    BY <1>3, <1>4, <1>5, <2>1, NothingClosed
<1>6. CASE ~empty
  <2> DEFINE x == [name |-> n, size |-> n, time |-> now]
  <2>1. closes' = closes \cup {x} /\ halves' = L!Kept(c)
    BY <1>6 DEF L!ReadClose, L!Number
  <2>2. DOMAIN halves' = DOMAIN halves \ {c} /\ \A d \in DOMAIN halves' : halves'[d] = halves[d]
    BY <2>1, KeptHalves
  <2>3. x.name = n /\ x.size = n /\ n \in 1 .. Len(lines') /\ n \in 0 .. Len(lines') /\ ~(n > n)
    BY <1>3 DEF Longer
  <2>4. (\A d \in DOMAIN halves : halves[d].line # n) /\ \A y \in closes : y.name # n
    <3>1. n \notin 1 .. Len(lines)
      BY <1>3 DEF Longer
    <3>2. QED
      BY <3>1 DEF HalvesInv, LastClose
  <2> HIDE DEF n, x
  <2>5. \A d \in DOMAIN halves' : /\ halves'[d] = halves[d] /\ ~ClosesOf(lines', Len(lines) + 1, d)
                                  /\ x.name # halves[d].line
    BY <1>4, <2>2, <2>3, <2>4 DEF n
  <2>6. QED
    BY <1>3, <2>1, <2>2, <2>3, <2>4, <2>5, OneMore
<1>7. QED
  BY <1>5, <1>6

LEMMA PathRead ==
  ASSUME HalvesInv, NEW c \in Chan, L!ReadPath(c)
  PROVE  HalvesInv'
<1> DEFINE n == Len(lines) + 1
           line == [kind |-> "path", chan |-> c, empty |-> FALSE]
<1>1. line \in Line
  BY DEF Line
<1>2. lines \in Seq(Line) /\ lines' = Append(lines, line)
  BY DEF HalvesInv, L!ReadPath, L!Read
<1> HIDE DEF line
<1>3. lines' \in Seq(Line) /\ Longer(lines, lines') /\ lines'[n] = line
  BY <1>1, <1>2, LineMore
<1>4. \A d : ClosesOf(lines', n, d) <=> (d = c)
  BY <1>3, LineOfChannel DEF line
<1>5. closes' = closes /\ DOMAIN halves' = DOMAIN halves \cup {c}
      /\ \A d \in DOMAIN halves' : /\ d # c => d \in DOMAIN halves /\ halves'[d] = halves[d]
                                   /\ d = c => halves'[d].line = n
  BY DEF L!ReadPath, L!Number
<1>6. LastClose(lines', c, n)
  BY <1>3, LastCloseNew DEF line
<1>7. n \notin 1 .. Len(lines)
  BY <1>3 DEF Longer
<1> HIDE DEF n
<1>8. \A d \in DOMAIN halves' : LastClose(lines', d, halves'[d].line)
  BY <1>3, <1>4, <1>5, <1>6, HalfStays DEF n
<1>9. \A x \in closes :
        /\ x.name \in 1 .. Len(lines') /\ x.size \in 0 .. Len(lines')
        /\ x.size > x.name => Met(lines', x.name, x.size)
  BY <1>3, ClosesStay
<1>10. \A x \in closes, d \in DOMAIN halves' : x.name # halves'[d].line
  BY <1>5, <1>7 DEF HalvesInv
<1>11. QED
  BY <1>3, <1>5, <1>8, <1>9, <1>10 DEF HalvesInv

LEMMA SizeRead ==
  ASSUME HalvesInv, NEW c \in Chan, NEW empty \in BOOLEAN, L!ReadSize(c, empty)
  PROVE  HalvesInv'
<1> DEFINE n == Len(lines) + 1
           line == [kind |-> "size", chan |-> c, empty |-> empty]
<1>1. line \in Line
  BY DEF Line
<1>2. lines \in Seq(Line) /\ lines' = Append(lines, line)
  BY DEF HalvesInv, L!ReadSize, L!Read
<1> HIDE DEF line
<1>3. lines' \in Seq(Line) /\ Longer(lines, lines') /\ lines'[n] = line
  BY <1>1, <1>2, LineMore
<1>4. \A d : ClosesOf(lines', n, d) <=> (d = c /\ ~empty)
  BY <1>3, LineOfChannel DEF line
<1>5. CASE empty \/ c \notin DOMAIN halves
  <2>1. halves' = halves /\ closes' = closes
    BY <1>5 DEF L!ReadSize, L!Half
  <2>2. QED
    BY <1>3, <1>4, <1>5, <2>1, NothingClosed
<1>6. CASE ~empty /\ c \in DOMAIN halves
  <2> DEFINE x == [name |-> halves[c].line, size |-> n, time |-> halves[c].time]
  <2>1. closes' = closes \cup {x} /\ halves' = L!Kept(c)
    BY <1>6 DEF L!ReadSize, L!Number, L!Half
  <2>2. DOMAIN halves' = DOMAIN halves \ {c} /\ \A d \in DOMAIN halves' : halves'[d] = halves[d]
    BY <2>1, KeptHalves
  <2>3. x.name = halves[c].line /\ x.size = n
    OBVIOUS
  <2>4. /\ n \in 0 .. Len(lines') /\ halves[c].line \in 1 .. Len(lines')
        /\ \A d \in DOMAIN halves : LastClose(lines, d, halves[d].line)
    BY <1>3, <1>6 DEF Longer, HalvesInv, LastClose
  <2>5. Met(lines', halves[c].line, n)
    BY <1>3, <1>6, <2>4, MetNew DEF line
  <2>6. \A d \in DOMAIN halves : d # c => halves[d].line # halves[c].line
    BY <1>6, <2>4 DEF LastClose
  <2>7. \A y \in closes : y.name # halves[c].line
    BY <1>6 DEF HalvesInv
  <2> HIDE DEF n, x
  <2>8. \A d \in DOMAIN halves' : /\ halves'[d] = halves[d] /\ ~ClosesOf(lines', Len(lines) + 1, d)
                                  /\ x.name # halves[d].line
    BY <1>4, <2>2, <2>3, <2>6 DEF n
  <2>9. QED
    BY <1>3, <2>1, <2>2, <2>3, <2>4, <2>5, <2>7, <2>8, OneMore
<1>7. QED
  BY <1>5, <1>6

LEMMA HalvesFinished ==
  ASSUME HalvesInv, L!Finish
  PROVE  HalvesInv'
<1>1. lines' = lines
  BY DEF L!Finish
<1>2. CASE calls = {}
  BY <1>1, <1>2 DEF L!Finish, HalvesInv
<1>3. CASE calls # {}
  <2> DEFINE left(c) == [name |-> halves[c].line, size |-> 0, time |-> halves[c].time]
  <2>1. closes' = closes \cup {left(c) : c \in DOMAIN halves} /\ DOMAIN halves' = {}
    BY <1>3 DEF L!Finish
  <2>2. \A c : left(c).name = halves[c].line /\ left(c).size = 0
    OBVIOUS
  <2> HIDE DEF left
  <2>3. \A c \in DOMAIN halves : halves[c].line \in 1 .. Len(lines)
                                 /\ lines[halves[c].line].chan = c
    BY DEF HalvesInv, LastClose
  <2>4. lines \in Seq(Line) /\ Len(lines) \in Nat
    BY LenProperties DEF HalvesInv
  <2>5. ASSUME NEW x \in closes'
        PROVE  /\ x.name \in 1 .. Len(lines) /\ x.size \in 0 .. Len(lines)
               /\ x.size > x.name => Met(lines, x.name, x.size)
    <3>1. CASE x \in closes
      BY <3>1 DEF HalvesInv
    <3>2. ASSUME NEW c \in DOMAIN halves, x = left(c)
          PROVE  x.name \in 1 .. Len(lines) /\ x.size \in 0 .. Len(lines) /\ ~(x.size > x.name)
      BY <2>2, <2>3, <2>4, <3>2
    <3>3. QED
      BY <2>1, <3>1, <3>2
  <2>6. ASSUME NEW x \in closes', NEW y \in closes', x.name = y.name PROVE x = y
    <3>1. CASE x \in closes /\ y \in closes
      BY <2>6, <3>1 DEF HalvesInv
    <3>2. ASSUME NEW c \in DOMAIN halves, y = left(c), x \in closes PROVE FALSE
      BY <2>2, <2>6, <3>2 DEF HalvesInv
    <3>3. ASSUME NEW c \in DOMAIN halves, x = left(c), y \in closes PROVE FALSE
      BY <2>2, <2>6, <3>3 DEF HalvesInv
    <3>4. ASSUME NEW c \in DOMAIN halves, NEW d \in DOMAIN halves, x = left(c), y = left(d)
          PROVE  x = y
      BY <2>2, <2>3, <2>6, <3>4
    <3>5. QED
      BY <2>1, <3>1, <3>2, <3>3, <3>4
  <2>7. QED
    BY <1>1, <2>1, <2>4, <2>5, <2>6 DEF HalvesInv
<1>4. QED
  BY <1>2, <1>3

\* The other lines, of one kind each.
PlainRead ==
  /\ \E k \in Plain : lines' = Append(lines, [kind |-> k])
  /\ halves' = halves /\ closes' = closes

LEMMA PlainKept ==
  ASSUME HalvesInv, PlainRead
  PROVE  HalvesInv'
<1>1. PICK k \in Plain : lines' = Append(lines, [kind |-> k])
  BY DEF PlainRead
<1> DEFINE line == [kind |-> k]
<1>2. line \in Line /\ lines \in Seq(Line) /\ lines' = Append(lines, line)
  BY <1>1 DEF Line, HalvesInv
<1> HIDE DEF line
<1>3. lines' \in Seq(Line) /\ Longer(lines, lines') /\ lines'[Len(lines) + 1] = line
  BY <1>2, LineMore
<1>4. \A d : ~ClosesOf(lines', Len(lines) + 1, d)
  BY <1>3, PlainLine DEF line
<1>5. QED
  BY <1>3, <1>4, NothingClosed DEF PlainRead

LEMMA PlainReads ==
  ASSUME \/ L!ReadInit \/ L!ReadSkip
         \/ \E v \in Version : L!ReadVersion(v)
         \/ \E d \in {"inbound", "outbound", "trunk"}, lasted \in BOOLEAN : L!ReadCall(d, lasted)
         \/ \E did, noMatch \in BOOLEAN : L!ReadFail(did, noMatch)
         \/ L!ReadNoted("reset", "outbound_reset")
         \/ L!ReadNoted("sspp", "sspp_loss")
         \/ L!ReadNoted("norm", "norm_failure")
         \/ \E c \in {"mismatch", "session"} : L!ReadCounted(c)
         \/ \E empty \in BOOLEAN : L!ReadGrace(empty)
  PROVE  PlainRead
<1>1. {"init", "version", "call", "skip", "fail", "counted", "grace", "outbound_reset",
       "sspp_loss", "norm_failure"} \subseteq Plain
  BY DEF Plain, EventType, Noted
<1>2. QED
  BY <1>1 DEF PlainRead, L!Read, L!ReadInit, L!ReadSkip, L!ReadVersion, L!ReadCall, L!ReadFail,
     L!ReadNoted, L!ReadCounted, L!ReadGrace

-----------------------------------------------------------------------------
(* The events and the causes.                                              *)

LEMMA EventsAre ==
  ASSUME NEW e, NEW s, Events(e, s)
  PROVE  /\ e \in Seq(Event) /\ Len(e) \in Nat /\ DOMAIN e = 1 .. Len(e)
         /\ \A i \in 1 .. Len(e) : e[i] \in Event /\ e[i][1] \in Nat
BY LenProperties, ElementOfSeq DEF Events, Event

LEMMA EventsStay ==
  ASSUME NEW e, NEW s, NEW t, Events(e, s), Longer(s, t), t[Len(s) + 1].kind \notin Noted
  PROVE  Events(e, t)
<1>1. \A i \in 1 .. Len(e) :
        /\ e[i][1] \in 1 .. Len(t)
        /\ e[i][2] \in Noted => t[e[i][1]].kind = e[i][2]
  <2>1. \A k \in 1 .. Len(s) : k \in 1 .. Len(t) /\ t[k] = s[k]
    BY DEF Longer
  <2>2. \A i \in 1 .. Len(e) : /\ e[i][1] \in 1 .. Len(s)
                               /\ e[i][2] \in Noted => s[e[i][1]].kind = e[i][2]
    BY DEF Events
  <2>3. QED
    BY ONLY <2>1, <2>2
<1>2. ASSUME NEW n \in 1 .. Len(t), t[n].kind \in Noted, n > Len(t) - 2 * Window
      PROVE  \E i \in 1 .. Len(e) : e[i] = <<n, t[n].kind>>
  <2>1. n \in 1 .. Len(s) /\ t[n] = s[n]
    BY <1>2 DEF Longer
  <2>2. n > Len(s) - 2 * Window
    BY <1>2, <2>1, ContextAssumption DEF Longer
  <2>3. QED
    BY <1>2, <2>1, <2>2 DEF Events
<1>3. QED
  BY <1>1, <1>2 DEF Events

Pushes(e, event, e2) ==
  LET all == Append(e, event)
  IN e2 = SubSeq(all, IF Len(all) > 2 * Window THEN Len(all) - 2 * Window + 1 ELSE 1, Len(all))

\* An event is put last, and the first is dropped when they are too many.
LEMMA EventsPushed ==
  ASSUME NEW e, NEW s, NEW t, Events(e, s), Longer(s, t), NEW type \in EventType,
         type \in Noted => t[Len(s) + 1].kind = type,
         t[Len(s) + 1].kind \in Noted => t[Len(s) + 1].kind = type,
         NEW e2, Pushes(e, <<Len(s) + 1, type>>, e2)
  PROVE  Events(e2, t)
<1> DEFINE n == Len(s) + 1
           m == Len(e)
           all == Append(e, <<n, type>>)
           d == IF m + 1 > 2 * Window THEN 1 ELSE 0
<1>1. /\ n \in Nat \ {0} /\ Len(s) \in Nat /\ Len(t) = n /\ m \in Nat /\ m <= 2 * Window
      /\ Window \in Nat /\ e \in Seq(Event) /\ <<n, type>> \in Event
  BY EventsAre, ContextAssumption DEF Longer, Events, Event
<1>2. /\ all \in Seq(Event) /\ Len(all) = m + 1 /\ \A i \in 1 .. m : all[i] = e[i]
      /\ all[m + 1] = <<n, type>>
  BY <1>1, AppendProperties
<1> DEFINE low(l) == IF l > 2 * Window THEN l - 2 * Window + 1 ELSE 1
           cut(l) == SubSeq(all, low(l), l)
<1>a. e2 = cut(Len(all))
  BY DEF Pushes
<1> HIDE DEF all, n, m
<1>3. e2 = SubSeq(all, d + 1, m + 1) /\ d \in {0, 1} /\ (d = 1 <=> m = 2 * Window)
  <2>1. low(m + 1) = d + 1
    BY <1>1
  <2>2. cut(m + 1) = SubSeq(all, d + 1, m + 1)
    <3> HIDE DEF d, low
    <3>1. QED
      BY ONLY <2>1, Zenon
  <2>3. e2 = SubSeq(all, d + 1, m + 1)
    <3>1. Len(all) = m + 1
      BY <1>2
    <3> HIDE DEF cut, d
    <3>2. e2 = cut(m + 1)
      BY ONLY <1>a, <3>1
    <3>3. QED
      BY ONLY <2>2, <3>2, Zenon
  <2>4. d \in {0, 1} /\ (d = 1 <=> m = 2 * Window)
    BY ONLY <1>1
  <2>5. QED
    BY ONLY <2>3, <2>4
<1>d. d \in {0, 1}
  BY ONLY <1>3
<1>m. m \in Nat
  BY ONLY <1>1
<1> HIDE DEF d
<1>4. /\ e2 \in Seq(Event) /\ Len(e2) = m + 1 - d
      /\ \A j \in 1 .. m + 1 - d : e2[j] = all[d + j]
  <2>1. d + 1 \in Int /\ m + 1 \in Int /\ \A j \in d + 1 .. m + 1 : all[j] \in Event
    <3>1. \A j \in 1 .. m + 1 : all[j] \in Event
      BY <1>2, ElementOfSeq
    <3>2. QED
      BY <1>1, <1>3, <3>1
  <2> DEFINE sub == SubSeq(all, d + 1, m + 1)
  <2>2. /\ sub \in Seq(Event)
        /\ Len(sub) = IF d + 1 <= m + 1 THEN m + 1 - (d + 1) + 1 ELSE 0
        /\ \A j \in 1 .. m + 1 - (d + 1) + 1 : sub[j] = all[d + 1 + j - 1]
    BY ONLY <1>d, <1>m, <2>1, SubSeqProperties
  <2>s. e2 = sub
    BY ONLY <1>3
  <2> HIDE DEF sub
  <2>3. m + 1 - (d + 1) + 1 = m + 1 - d /\ (~(d + 1 <= m + 1) => m + 1 - d = 0)
    BY ONLY <1>d, <1>m
  <2>4. \A j \in 1 .. m + 1 - d : d + 1 + j - 1 = d + j
    <3>1. d \in Int /\ m + 1 - d \in Int
      BY ONLY <1>d, <1>m
    <3>2. QED
      BY ONLY <3>1
  <2>5. QED
    <3>1. /\ sub \in Seq(Event) /\ Len(sub) = m + 1 - d
          /\ \A j \in 1 .. m + 1 - d : sub[j] = all[d + j]
      BY ONLY <2>2, <2>3, <2>4
    <3>2. QED
      BY ONLY <2>s, <3>1, Zenon
<1>5. /\ \A i \in 1 .. m : /\ e[i] \in Event /\ e[i][1] \in 1 .. Len(s)
                           /\ e[i][2] \in Noted => s[e[i][1]].kind = e[i][2]
      /\ \A i, j \in 1 .. m : i <= j => e[j][1] - e[i][1] >= j - i
  BY EventsAre DEF Events, m
<1>6. all[m + 1][1] = n /\ all[m + 1][2] = type
  BY <1>2
<1>7. \A i \in 1 .. m + 1 :
        /\ all[i][1] \in 1 .. n
        /\ all[i][2] \in Noted => t[all[i][1]].kind = all[i][2]
  <2>1. ASSUME NEW i \in 1 .. m
        PROVE  all[i][1] \in 1 .. n /\ (all[i][2] \in Noted => t[all[i][1]].kind = all[i][2])
    <3>1. all[i] = e[i] /\ e[i][1] \in 1 .. Len(s) /\ t[e[i][1]] = s[e[i][1]]
      BY <1>2, <1>5 DEF Longer
    <3>2. QED
      BY <1>1, <1>5, <3>1 DEF n
  <2>2. n \in 1 .. n /\ (type \in Noted => t[n].kind = type)
    BY <1>1 DEF n
  <2>3. QED
    BY <1>1, <1>6, <2>1, <2>2
<1>8. \A i, j \in 1 .. m + 1 : i <= j => all[j][1] - all[i][1] >= j - i
  <2>1. ASSUME NEW i \in 1 .. m, NEW j \in 1 .. m, i <= j
        PROVE  all[j][1] - all[i][1] >= j - i
    BY <1>2, <1>5, <2>1
  <2>2. ASSUME NEW i \in 1 .. m PROVE n - all[i][1] >= m + 1 - i
    <3>1. all[i] = e[i] /\ e[i][1] \in 1 .. Len(s) /\ e[m][1] \in 1 .. Len(s)
          /\ e[m][1] - e[i][1] >= m - i
      BY <1>1, <1>2, <1>5
    <3>2. QED
      BY <1>1, <3>1 DEF n
  <2>3. ASSUME NEW i \in 1 .. m + 1, NEW j \in 1 .. m + 1, i <= j
        PROVE  all[j][1] - all[i][1] >= j - i
    <3>1. CASE i \in 1 .. m /\ j \in 1 .. m
      BY <2>1, <2>3, <3>1
    <3>2. CASE i \in 1 .. m /\ j = m + 1
      <4> DEFINE apart(k) == all[k][1] - all[i][1] >= k - i
      <4>1. apart(m + 1)
        <5>1. i \in 1 .. m
          BY ONLY <3>2
        <5>2. n - all[i][1] >= m + 1 - i
          BY ONLY <2>2, <5>1
        <5>3. all[m + 1][1] = n
          BY ONLY <1>6
        <5>4. QED
          <6>1. n \in Int /\ all[i][1] \in Int /\ m \in Int /\ i \in Int
            BY <1>1, <1>7, <5>1
          <6>2. QED
            BY ONLY <5>2, <5>3, <6>1
      <4>2. j = m + 1
        BY ONLY <3>2
      <4> HIDE DEF apart
      <4>3. apart(j)
        BY ONLY <4>1, <4>2
      <4>4. QED
        BY ONLY <4>3 DEF apart
    <3>3. CASE i = m + 1 /\ j = m + 1
      BY ONLY <1>1, <1>6, <3>3
    <3>4. (i \in 1 .. m /\ j \in 1 .. m) \/ (i \in 1 .. m /\ j = m + 1) \/ (i = m + 1 /\ j = m + 1)
      BY ONLY <1>m, <2>3, i \in 1 .. m + 1, j \in 1 .. m + 1
    <3>5. QED
      BY ONLY <3>1, <3>2, <3>3, <3>4
  <2>4. QED
    BY <2>3
<1>9. ASSUME NEW l \in 1 .. n, t[l].kind \in Noted, l > n - 2 * Window
      PROVE  \E i \in 1 .. m + 1 : i # d /\ all[i] = <<l, t[l].kind>>
  <2>1. CASE l = n
    <3>1. t[l].kind = type
      BY <1>9, <2>1 DEF n
    <3>2. m + 1 # d
      BY <1>1, <1>3, <1>9, <2>1
    <3>3. QED
      BY <1>1, <1>2, <2>1, <3>1, <3>2
  <2>2. CASE l \in 1 .. Len(s)
    <3>1. t[l] = s[l] /\ l > Len(s) - 2 * Window
      BY <1>1, <1>9, <2>2 DEF Longer, n
    <3>2. PICK i \in 1 .. m : e[i] = <<l, t[l].kind>>
      BY <1>9, <2>2, <3>1 DEF Events, m
    <3>3. all[i] = <<l, t[l].kind>> /\ all[i][1] = l
      BY <1>2, <3>2
    <3>4. i # d
      <4>1. SUFFICES ASSUME i = 1, d = 1 PROVE FALSE
        BY <1>3
      <4>2. m = 2 * Window /\ n - l >= m + 1 - 1
        BY <1>1, <1>3, <1>6, <1>8, <3>3, <4>1
      <4>3. QED
        BY <1>1, <1>9, <4>2
    <3>5. QED
      BY <1>1, <3>3, <3>4
  <2>3. l = n \/ l \in 1 .. Len(s)
    BY <1>1 DEF n
  <2>4. QED
    BY <2>1, <2>2, <2>3
<1>10. \A j \in 1 .. m + 1 - d : d + j \in 1 .. m + 1
  BY <1>1, <1>3
<1>11. \A i \in 1 .. Len(e2) :
         /\ e2[i][1] \in 1 .. Len(t)
         /\ e2[i][2] \in Noted => t[e2[i][1]].kind = e2[i][2]
  <2> SUFFICES ASSUME NEW i \in 1 .. m + 1 - d
               PROVE  /\ e2[i][1] \in 1 .. Len(t)
                      /\ e2[i][2] \in Noted => t[e2[i][1]].kind = e2[i][2]
    BY <1>4
  <2>1. e2[i] = all[d + i] /\ d + i \in 1 .. m + 1
    BY <1>4, <1>10
  <2>2. QED
    BY <1>1, <1>7, <2>1
<1>12. ASSUME NEW i \in 1 .. m + 1 - d, NEW j \in 1 .. m + 1 - d, i <= j
       PROVE  e2[j][1] - e2[i][1] >= j - i
  <2>1. e2[i] = all[d + i] /\ e2[j] = all[d + j] /\ d + i <= d + j /\ (d + j) - (d + i) = j - i
    BY <1>1, <1>3, <1>4, <1>12
  <2>2. QED
    BY <1>8, <1>10, <2>1
<1>13. ASSUME NEW l \in 1 .. n, t[l].kind \in Noted, l > n - 2 * Window
       PROVE  \E i \in 1 .. m + 1 - d : e2[i] = <<l, t[l].kind>>
  <2>1. PICK i \in 1 .. m + 1 : i # d /\ all[i] = <<l, t[l].kind>>
    BY <1>9, <1>13
  <2>2. PICK j \in 1 .. m + 1 - d : d + j = i
    <3>1. i - d \in 1 .. m + 1 - d /\ d + (i - d) = i
      BY <1>1, <1>3, <2>1
    <3>2. QED
      BY <3>1
  <2>3. QED
    BY <1>4, <2>1, <2>2
<1>14. Len(e2) <= 2 * Window
  BY <1>1, <1>3, <1>4
<1>15. QED
  BY <1>1, <1>4, <1>11, <1>12, <1>13, <1>14 DEF Events

\* What is looked up backwards is in the window, and what is in the window is found.
LEMMA RecentIsNear ==
  ASSUME Events(recent, lines), Len(lines) \in Nat, NEW t, Longer(lines, t), NEW type \in Noted
  PROVE  L!HasRecent(type) <=> Near(t, Len(lines) + 1, type)
<1> DEFINE n == Len(lines) + 1
<1>1. DOMAIN recent = 1 .. Len(recent) /\ Len(recent) \in Nat
      /\ \A i \in 1 .. Len(recent) : recent[i][1] \in 1 .. Len(lines)
  BY EventsAre DEF Events
<1>2. Window \in Nat
  BY ContextAssumption
<1>3. ASSUME L!HasRecent(type) PROVE Near(t, n, type)
  <2>1. PICK i \in 1 .. Len(recent) :
          /\ recent[i][2] = type
          /\ \A j \in i .. Len(recent) : n - recent[j][1] <= Window
    BY <1>1, <1>3 DEF L!HasRecent, L!Number
  <2>2. n - recent[i][1] <= Window
    BY <1>1, <2>1
  <2>3. recent[i][1] \in 1 .. n - 1 /\ t[recent[i][1]] = lines[recent[i][1]]
    BY <1>1 DEF Longer
  <2>4. lines[recent[i][1]].kind = type
    BY <2>1 DEF Events
  <2>5. QED
    BY <2>2, <2>3, <2>4 DEF Near
<1>4. ASSUME Near(t, n, type) PROVE L!HasRecent(type)
  <2>1. PICK l \in 1 .. n - 1 : n - l <= Window /\ t[l].kind = type
    BY <1>4 DEF Near
  <2>2. l \in 1 .. Len(lines) /\ lines[l].kind = type /\ l > Len(lines) - 2 * Window
    BY <1>2, <2>1 DEF Longer
  <2>3. PICK i \in 1 .. Len(recent) : recent[i] = <<l, type>>
    BY <2>2 DEF Events
  <2>4. ASSUME NEW j \in i .. Len(recent) PROVE n - recent[j][1] <= Window
    <3>1. j \in 1 .. Len(recent) /\ i <= j
      BY <1>1
    <3>2. recent[j][1] - recent[i][1] >= j - i
      BY <3>1 DEF Events
    <3>3. recent[i][1] = l /\ recent[j][1] \in 1 .. Len(lines)
      BY <1>1, <2>3, <3>1
    <3>4. QED
      BY <1>1, <1>2, <2>1, <3>1, <3>2, <3>3
  <2>5. i \in DOMAIN recent /\ recent[i][2] = type
    BY <1>1, <2>3
  <2>6. QED
    BY <2>4, <2>5 DEF L!HasRecent, L!Number
<1>5. QED
  BY <1>3, <1>4

LEMMA CauseStays ==
  ASSUME NEW s, NEW t, Longer(s, t), NEW n \in 1 .. Len(s), NEW cause, CauseOf(s, n, cause)
  PROVE  CauseOf(t, n, cause)
<1>1. \A i \in 1 .. n - 1 : t[i] = s[i]
  BY DEF Longer
<1>2. \A type : Near(s, n, type) <=> Near(t, n, type)
  BY <1>1 DEF Near
<1>3. QED
  BY <1>2 DEF CauseOf

\* The causes that were found stay, and one that is found now is right.
LEMMA CausesStay ==
  ASSUME EventsInv, Longer(lines, lines'), NEW f \in fails
  PROVE  f.line \in 1 .. Len(lines') /\ CauseOf(lines', f.line, f.cause)
<1>1. f.line \in 1 .. Len(lines) /\ CauseOf(lines, f.line, f.cause)
  BY DEF EventsInv
<1>2. f.line \in 1 .. Len(lines')
  BY <1>1 DEF Longer
<1>3. QED
  BY <1>1, <1>2, CauseStays

\* The line is not one that is noted.
LEMMA NothingPushed ==
  ASSUME EventsInv, Longer(lines, lines'), lines'[Len(lines) + 1].kind \notin Noted,
         recent' = recent, fails' = fails
  PROVE  EventsInv'
<1>1. Events(recent, lines')
  BY EventsStay DEF EventsInv
<1>2. QED
  BY <1>1, CausesStay DEF EventsInv

LEMMA OnePushed ==
  ASSUME EventsInv, Longer(lines, lines'), NEW type \in EventType, L!Pushed(type),
         lines'[Len(lines) + 1].kind \in Noted \/ type \in Noted =>
           lines'[Len(lines) + 1].kind = type,
         \A f \in fails' \ fails : /\ f.line = Len(lines) + 1
                                   /\ CauseOf(lines', Len(lines) + 1, f.cause)
  PROVE  EventsInv'
<1>1. Pushes(recent, <<Len(lines) + 1, type>>, recent')
  BY DEF L!Pushed, L!Number, Pushes
<1>2. Events(recent', lines')
  BY <1>1, EventsPushed DEF EventsInv
<1>3. Len(lines) + 1 \in 1 .. Len(lines')
  BY DEF Longer
<1>4. \A f \in fails' : f.line \in 1 .. Len(lines') /\ CauseOf(lines', f.line, f.cause)
  BY <1>3, CausesStay
<1>5. QED
  BY <1>2, <1>4 DEF EventsInv

LEMMA FailRead ==
  ASSUME LogInv, NEW did, NEW noMatch, L!ReadFail(did, noMatch)
  PROVE  EventsInv'
<1> DEFINE line == [kind |-> "fail"]
           cause == L!Cause(did, noMatch)
           n == Len(lines) + 1
<1>1. line \in Line /\ lines \in Seq(Line) /\ lines' = Append(lines, line)
  BY DEF Line, Plain, LogInv, HalvesInv, L!ReadFail, L!Read
<1> HIDE DEF line
<1>2. lines' \in Seq(Line) /\ Longer(lines, lines') /\ lines'[n] = line
  BY <1>1, LineMore
<1>3. lines'[n].kind \notin Noted /\ "db_fail" \in EventType /\ "db_fail" \notin Noted
  BY <1>2 DEF line, Noted, EventType
<1>4. /\ L!HasRecent("sspp_loss") <=> Near(lines', n, "sspp_loss")
      /\ L!HasRecent("outbound_reset") <=> Near(lines', n, "outbound_reset")
  BY <1>2, RecentIsNear DEF LogInv, EventsInv, Longer, Noted
<1>5. /\ cause = "sspp_loss" => L!HasRecent("sspp_loss")
      /\ cause = "direction_mismatch" =>
           L!HasRecent("outbound_reset") /\ ~L!HasRecent("sspp_loss")
      /\ cause = "unknown" => ~L!HasRecent("outbound_reset") /\ ~L!HasRecent("sspp_loss")
  BY DEF L!Cause
<1> HIDE DEF cause, n
<1>6. CauseOf(lines', n, cause)
  BY <1>4, <1>5 DEF CauseOf
<1>7. fails' = fails \cup {[line |-> n, cause |-> cause, time |-> now]} /\ L!Pushed("db_fail")
  BY DEF L!ReadFail, L!Number, cause, n
<1>8. \A f \in fails' \ fails : f.line = n /\ CauseOf(lines', n, f.cause)
  BY <1>6, <1>7
<1>9. QED
  BY <1>2, <1>3, <1>7, <1>8, OnePushed DEF LogInv, n

LEMMA NotedRead ==
  ASSUME LogInv, NEW which, NEW type \in Noted \cup {"norm_failure"}, L!ReadNoted(which, type)
  PROVE  EventsInv'
<1> DEFINE line == [kind |-> type]
<1>1. line \in Line /\ lines \in Seq(Line) /\ lines' = Append(lines, line) /\ type \in EventType
  BY DEF Line, Plain, EventType, LogInv, HalvesInv, L!ReadNoted, L!Read
<1> HIDE DEF line
<1>2. Longer(lines, lines') /\ lines'[Len(lines) + 1] = line
  BY <1>1, LineMore
<1>3. lines'[Len(lines) + 1].kind = type
  BY <1>2 DEF line
<1>4. fails' = fails /\ L!Pushed(type)
  BY DEF L!ReadNoted
<1>5. QED
  BY <1>1, <1>2, <1>3, <1>4, OnePushed DEF LogInv

LEMMA InitRead ==
  ASSUME LogInv, L!ReadInit
  PROVE  EventsInv'
<1> DEFINE line == [kind |-> "init"]
<1>1. line \in Line /\ lines \in Seq(Line) /\ lines' = Append(lines, line)
  BY DEF Line, Plain, LogInv, HalvesInv, L!ReadInit, L!Read
<1> HIDE DEF line
<1>2. Longer(lines, lines') /\ lines'[Len(lines) + 1] = line
  BY <1>1, LineMore
<1>3. lines'[Len(lines) + 1].kind \notin Noted /\ "init_instance" \in EventType
      /\ "init_instance" \notin Noted
  BY <1>2 DEF line, Noted, EventType
<1>4. fails' = fails /\ L!Pushed("init_instance")
  BY DEF L!ReadInit
<1>5. QED
  BY <1>2, <1>3, <1>4, OnePushed DEF LogInv

\* The lines that are neither noted nor a failure.
OtherRead ==
  /\ \E line \in Line : lines' = Append(lines, line) /\ line.kind \notin Noted
  /\ recent' = recent /\ fails' = fails

LEMMA OtherKept ==
  ASSUME LogInv, OtherRead
  PROVE  EventsInv'
<1>1. PICK line \in Line : lines' = Append(lines, line) /\ line.kind \notin Noted
  BY DEF OtherRead
<1>2. lines \in Seq(Line)
  BY DEF LogInv, HalvesInv
<1>3. Longer(lines, lines') /\ lines'[Len(lines) + 1] = line
  BY <1>1, <1>2, LineMore
<1>4. QED
  BY <1>1, <1>3, NothingPushed DEF LogInv, OtherRead

LEMMA OtherReads ==
  ASSUME \/ L!ReadSkip
         \/ \E v \in Version : L!ReadVersion(v)
         \/ \E d \in {"inbound", "outbound", "trunk"}, lasted \in BOOLEAN : L!ReadCall(d, lasted)
         \/ \E c \in {"mismatch", "session"} : L!ReadCounted(c)
         \/ \E c \in Chan :
              \/ \E empty \in BOOLEAN : L!ReadClose(c, empty) \/ L!ReadSize(c, empty)
              \/ L!ReadPath(c)
         \/ \E empty \in BOOLEAN : L!ReadGrace(empty)
  PROVE  OtherRead
<1>1. \A k \in {"skip", "version", "call", "counted", "grace"} :
        [kind |-> k] \in Line /\ [kind |-> k].kind \notin Noted
  BY DEF Line, Plain, Noted
<1>2. \A k \in {"close", "path", "size"}, c \in Chan, e \in BOOLEAN :
        /\ [kind |-> k, chan |-> c, empty |-> e] \in Line
        /\ [kind |-> k, chan |-> c, empty |-> e].kind \notin Noted
  BY DEF Line, Noted
<1>3. ASSUME NEW k \in {"skip", "version", "call", "counted", "grace"}, L!Read([kind |-> k]),
             recent' = recent, fails' = fails
      PROVE  OtherRead
  BY <1>1, <1>3 DEF OtherRead, L!Read
<1>4. ASSUME NEW k \in {"close", "path", "size"}, NEW c \in Chan, NEW e \in BOOLEAN,
             L!Read([kind |-> k, chan |-> c, empty |-> e]), recent' = recent, fails' = fails
      PROVE  OtherRead
  BY <1>2, <1>4 DEF OtherRead, L!Read
<1>5. CASE L!ReadSkip
  BY <1>3, <1>5 DEF L!ReadSkip
<1>6. ASSUME NEW v \in Version, L!ReadVersion(v) PROVE OtherRead
  BY <1>3, <1>6 DEF L!ReadVersion
<1>7. ASSUME NEW d, NEW lasted, L!ReadCall(d, lasted) PROVE OtherRead
  BY <1>3, <1>7 DEF L!ReadCall
<1>8. ASSUME NEW c, L!ReadCounted(c) PROVE OtherRead
  BY <1>3, <1>8 DEF L!ReadCounted
<1>9. ASSUME NEW empty, L!ReadGrace(empty) PROVE OtherRead
  BY <1>3, <1>9 DEF L!ReadGrace
<1>10. ASSUME NEW c \in Chan, NEW empty \in BOOLEAN, L!ReadClose(c, empty) PROVE OtherRead
  BY <1>4, <1>10 DEF L!ReadClose
<1>11. ASSUME NEW c \in Chan, NEW empty \in BOOLEAN, L!ReadSize(c, empty) PROVE OtherRead
  BY <1>4, <1>11 DEF L!ReadSize
<1>12. ASSUME NEW c \in Chan, L!ReadPath(c) PROVE OtherRead
  BY <1>4, <1>12 DEF L!ReadPath
<1>13. QED
  BY <1>5, <1>6, <1>7, <1>8, <1>9, <1>10, <1>11, <1>12

-----------------------------------------------------------------------------

\* A recording that is put together from two lines has both from one channel with no other close of
\* it between them, however the lines mix, no name is used twice, and a failure is put down to a
\* loss or to a reset exactly when a line of its window says so, although only the last events are
\* kept (log_analyzer.py:590-633, 1371-1468).
THEOREM HalvesAreOne == L!Spec => []HalvesMeet
<1>1. L!Init => LogInv
  <2> SUFFICES ASSUME L!Init PROVE LogInv
    OBVIOUS
  <2>1. /\ lines = <<>> /\ recent = <<>> /\ closes = {} /\ halves = <<>> /\ fails = {}
    BY DEF L!Init
  <2>2. lines \in Seq(Line) /\ recent \in Seq(Event) /\ Len(lines) = 0 /\ Len(recent) = 0
        /\ DOMAIN halves = {}
    BY <2>1
  <2>3. HalvesInv
    BY <2>1, <2>2 DEF HalvesInv
  <2>4. Events(recent, lines)
    BY <2>2, ContextAssumption DEF Events
  <2>5. QED
    BY <2>1, <2>3, <2>4 DEF LogInv, EventsInv
<1>2. LogInv /\ [L!Next]_(L!vars) => LogInv'
  <2> SUFFICES ASSUME LogInv, [L!Next]_(L!vars) PROVE LogInv'
    OBVIOUS
  <2>1. CASE UNCHANGED L!vars \/ L!Tick
    <3>1. UNCHANGED <<lines, recent, closes, halves, fails>>
      BY <2>1 DEF L!vars, L!Tick
    <3>2. QED
      BY <3>1 DEF LogInv, HalvesInv, EventsInv
  <2>2. CASE L!Finish
    <3>1. HalvesInv'
      BY <2>2, HalvesFinished DEF LogInv
    <3>2. UNCHANGED <<lines, recent, fails>>
      BY <2>2 DEF L!Finish
    <3>3. EventsInv'
      BY <3>2 DEF LogInv, EventsInv
    <3>4. QED
      BY <3>1, <3>3 DEF LogInv
  <2>3. CASE L!ReadInit
    BY <2>3, InitRead, PlainReads, PlainKept DEF LogInv
  <2>4. ASSUME NEW did \in BOOLEAN, NEW noMatch \in BOOLEAN, L!ReadFail(did, noMatch) PROVE LogInv'
    BY <2>4, FailRead, PlainReads, PlainKept DEF LogInv
  <2>5. CASE \/ L!ReadNoted("reset", "outbound_reset")
             \/ L!ReadNoted("sspp", "sspp_loss")
             \/ L!ReadNoted("norm", "norm_failure")
    <3>1. EventsInv'
      BY <2>5, NotedRead DEF Noted
    <3>2. HalvesInv'
      BY <2>5, PlainReads, PlainKept DEF LogInv
    <3>3. QED
      BY <3>1, <3>2 DEF LogInv
  <2>6. CASE \/ L!ReadSkip
             \/ \E v \in Version : L!ReadVersion(v)
             \/ \E d \in {"inbound", "outbound", "trunk"}, lasted \in BOOLEAN : L!ReadCall(d, lasted)
             \/ \E c \in {"mismatch", "session"} : L!ReadCounted(c)
             \/ \E empty \in BOOLEAN : L!ReadGrace(empty)
    <3>1. OtherRead
      BY <2>6, OtherReads
    <3>2. PlainRead
      BY <2>6, PlainReads
    <3>3. QED
      BY <3>1, <3>2, OtherKept, PlainKept DEF LogInv
  <2>7. ASSUME NEW c \in Chan,
               \/ \E empty \in BOOLEAN : L!ReadClose(c, empty) \/ L!ReadSize(c, empty)
               \/ L!ReadPath(c)
        PROVE  LogInv'
    <3>1. OtherRead
      BY <2>7, OtherReads
    <3>2. HalvesInv'
      BY <2>7, CloseRead, SizeRead, PathRead DEF LogInv
    <3>3. QED
      BY <3>1, <3>2, OtherKept DEF LogInv
  <2>8. QED
    BY <2>1, <2>2, <2>3, <2>4, <2>5, <2>6, <2>7 DEF L!Next
<1>3. LogInv => HalvesMeet
  <2> SUFFICES ASSUME LogInv PROVE HalvesMeet
    OBVIOUS
  <2>1. ASSUME NEW x \in closes, x.size > x.name
        PROVE  /\ lines[x.name].kind = "path" /\ lines[x.size].kind = "size"
               /\ L!OfChannel(lines[x.name].chan, x.name, x.size) = {x.name, x.size}
    <3>1. Met(lines, x.name, x.size) /\ x.name \in Int /\ x.size \in Int
      BY <2>1 DEF LogInv, HalvesInv
    <3>2. {x.name, x.size} \subseteq x.name .. x.size
      BY <2>1, <3>1
    <3>3. L!OfChannel(lines[x.name].chan, x.name, x.size) = {x.name, x.size}
      BY <3>1, <3>2 DEF Met, ClosesOf, L!OfChannel
    <3>4. QED
      BY <3>1, <3>3 DEF Met
  <2>2. L!HalvesMeet
    BY <2>1 DEF L!HalvesMeet, LogInv, HalvesInv
  <2>3. L!CauseIsRecent
    BY DEF L!CauseIsRecent, L!InWindow, LogInv, EventsInv, CauseOf, Near
  <2>4. QED
    BY <2>2, <2>3 DEF HalvesMeet
<1>4. QED
  BY <1>1, <1>2, <1>3, PTL DEF L!Spec
=============================================================================
