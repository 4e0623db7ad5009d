-------------------------------- MODULE Speech --------------------------------
(***************************************************************************)
(* How server/airec/analyzer/stt.py has a recording transcribed: by the    *)
(* local model, by a service per channel, in chunks when a service gives   *)
(* one block only, or by a service that takes the whole file.  Several     *)
(* recordings are transcribed at a time, each in a thread of its own.      *)
(* What is made of the words is in Segments.                               *)
(*                                                                         *)
(* A temporary file is a record of its recording and what it is; a call of *)
(* a model or a service may raise.                                         *)
(***************************************************************************)
EXTENDS Integers, Sequences, FiniteSets

CONSTANTS
  Recording,
  Engine,         \* "local", "openai-whisper", "openai-gpt4o", "openai-diarize", "rtzr"
  Preprocess,     \* preprocessing.enabled
  Learning,       \* learning.enabled and its parts
  Interval,       \* prompt_auto_update.update_interval
  ChunkBound,     \* chunks of a long file
  PollBound       \* polls before the deadline

VARIABLES
  at,         \* recording -> what its thread does next
  engine,     \* recording -> engine
  stereo,     \* recording -> BOOLEAN
  channel,    \* recording -> channel under way: 0, 1
  chunks,     \* recording -> the chunks still to do
  polls,      \* recording -> polls of the service so far
  temps,      \* the temporary files there are
  copy,       \* recording -> the vocabulary it has read
  vocabulary, \* the words in the vocabulary file
  counter,    \* _accumulation_counter
  prompt,     \* how many words the prompt file was made of
  found,      \* the words found in transcripts, history
  mixed       \* two threads were between reading and writing, history

vars == <<at, engine, stereo, channel, chunks, polls, temps, copy, vocabulary, counter, prompt,
          found, mixed>>

learning == <<copy, vocabulary, counter, prompt, found, mixed>>

Init ==
  /\ at = [r \in Recording |-> "idle"]
  /\ engine \in [Recording -> Engine]
  /\ stereo \in [Recording -> BOOLEAN]
  /\ channel = [r \in Recording |-> 0]
  /\ chunks = [r \in Recording |-> 0]
  /\ polls = [r \in Recording |-> 0]
  /\ temps = {}
  /\ copy = [r \in Recording |-> 0]
  /\ vocabulary = 0 /\ counter = 0 /\ prompt = 0
  /\ found = 0
  /\ mixed = FALSE

Temp(r, what) == [of |-> r, what |-> what, part |-> 0]
Chunk(r, i) == [of |-> r, what |-> "chunk", part |-> i]
Files(r) == {f \in temps : f.of = r}
Go(r, place) == at' = [at EXCEPT ![r] = place]

-----------------------------------------------------------------------------

\* transcribe_file: by engine and by the number of channels; a file that cannot
\* be read raises.
Begin(r) ==
  /\ at[r] = "idle"
  /\ \/ Go(r, IF engine[r] = "rtzr" THEN "poll" ELSE IF engine[r] = "openai-diarize" THEN "whole"
              ELSE IF stereo[r] THEN "left" ELSE "channel")
     \/ Go(r, "raised")
  /\ UNCHANGED <<engine, stereo, channel, chunks, polls, temps, learning>>

\* extract_channel_wav for both; it may raise, the second one after the first
\* has left its file, which nobody deletes then.
Extract(r) ==
  \/ /\ at[r] = "left"
     /\ \/ Go(r, "right") /\ temps' = temps \cup {Temp(r, "left")}
        \/ Go(r, "raised") /\ UNCHANGED temps
     /\ UNCHANGED <<engine, stereo, channel, chunks, polls, learning>>
  \/ /\ at[r] = "right"
     /\ \/ Go(r, "channel") /\ temps' = temps \cup {Temp(r, "right")}
        \/ Go(r, "raised") /\ UNCHANGED temps
     /\ UNCHANGED <<engine, stereo, channel, chunks, polls, learning>>

\* The files of the channels, deleted however the transcription ends.
WithoutChannels(r) == temps \ {Temp(r, "left"), Temp(r, "right")}

\* Variant: deleted only when it ends well.
KeptWhenRaised(r) ==
  /\ Go(r, "raised")
  /\ UNCHANGED temps

\* The exception leaves transcribe and transcribe_stereo.
Fails(r) ==
  /\ Go(r, "raised")
  /\ temps' = WithoutChannels(r) \ {Temp(r, "preprocessed")}

\* One channel is done: the next, or the result.
Done(r) ==
  IF stereo[r] /\ channel[r] = 0
  THEN /\ Go(r, "channel")
       /\ channel' = [channel EXCEPT ![r] = 1]
       /\ temps' = temps \ {Temp(r, "preprocessed")}
  ELSE /\ Go(r, "done")
       /\ temps' = WithoutChannels(r) \ {Temp(r, "preprocessed")}
       /\ UNCHANGED channel

\* A service is asked for a channel.  When gpt-4o gives one block for a long
\* file, the file is cut into chunks, all written before the first is sent.
AskService(r) ==
  /\ at[r] = "channel"
  /\ engine[r] \in {"openai-whisper", "openai-gpt4o"}
  /\ \/ Fails(r) /\ UNCHANGED <<channel, chunks>>
     \/ Done(r) /\ UNCHANGED chunks
     \/ /\ engine[r] = "openai-gpt4o"
        /\ \E n \in 2 .. ChunkBound :
             /\ temps' = temps \cup {Chunk(r, i) : i \in 1 .. n}
             /\ chunks' = [chunks EXCEPT ![r] = n]
             /\ Go(r, "chunk")
             /\ UNCHANGED channel
  /\ UNCHANGED <<engine, stereo, polls, learning>>

\* _transcribe_openai_gpt4o_chunked: one chunk, the last first here, deleted
\* when it was answered or has raised.
AskChunk(r) ==
  LET one == Chunk(r, chunks[r])
  IN /\ at[r] = "chunk"
     /\ chunks[r] > 0
     /\ \/ /\ chunks' = [chunks EXCEPT ![r] = @ - 1]
           /\ temps' = temps \ {one}
           /\ UNCHANGED at
        \/ /\ Go(r, "raised")
           /\ temps' = WithoutChannels(r) \ {one}
           /\ UNCHANGED chunks
     /\ UNCHANGED <<engine, stereo, channel, polls, learning>>

ChunksDone(r) ==
  /\ at[r] = "chunk"
  /\ chunks[r] = 0
  /\ Done(r)
  /\ UNCHANGED <<engine, stereo, chunks, polls, learning>>

\* A service that takes the whole file answers or raises.
AskWhole(r) ==
  /\ at[r] = "whole"
  /\ Go(r, "done") \/ Go(r, "raised")
  /\ UNCHANGED <<engine, stereo, channel, chunks, polls, temps, learning>>

\* _transcribe_rtzr: every five seconds until it is completed, fails, or the
\* deadline has come.
Poll(r) ==
  /\ at[r] = "poll"
  /\ IF polls[r] = PollBound
     THEN Go(r, "raised") /\ UNCHANGED polls
     ELSE /\ polls' = [polls EXCEPT ![r] = @ + 1]
          /\ Go(r, "done") \/ Go(r, "raised") \/ UNCHANGED at
  /\ UNCHANGED <<engine, stereo, channel, chunks, temps, learning>>

\* The local model: preprocessing, which falls back on the file as it is, and
\* the transcription.
RunModel(r) ==
  /\ at[r] = "channel"
  /\ engine[r] = "local"
  /\ \/ Fails(r)
     \/ /\ Go(r, "learn")
        /\ \/ Preprocess /\ temps' = temps \cup {Temp(r, "preprocessed")}
           \/ UNCHANGED temps
  /\ UNCHANGED <<engine, stereo, channel, chunks, polls, learning>>

-----------------------------------------------------------------------------
(* _accumulate_stt_data: what it raises is caught.                         *)

Nothing(r) ==
  /\ at[r] = "learn"
  /\ Done(r)
  /\ UNCHANGED <<engine, stereo, chunks, polls, learning>>

\* A transcript more; every so many times the prompt is made anew.
Count ==
  /\ counter' = counter + 1
  /\ prompt' = IF counter' % Interval = 0 THEN vocabulary' ELSE prompt

\* A transcript without a place in it.
NothingFound(r) ==
  /\ Learning
  /\ at[r] = "learn"
  /\ UNCHANGED vocabulary
  /\ Count
  /\ Done(r)
  /\ UNCHANGED <<engine, stereo, chunks, polls, copy, found, mixed>>

\* The vocabulary is read, what is found is added to the copy.  A file that
\* another thread is writing may be cut off: it counts for empty.
ReadVocabulary(r) ==
  /\ Learning
  /\ at[r] = "learn"
  /\ Go(r, "write")
  /\ mixed' = (mixed \/ \E q \in Recording : at[q] = "write")
  /\ \E read \in {vocabulary} \cup (IF mixed' THEN {0} ELSE {}) :
       copy' = [copy EXCEPT ![r] = read + 1]
  /\ found' = found + 1
  /\ UNCHANGED <<engine, stereo, channel, chunks, polls, temps, vocabulary, counter, prompt>>

\* Variant: what was read is written back.
WriteRead(r) == vocabulary' = copy[r] - 1

WriteCopy(r) == vocabulary' = copy[r]

WriteVocabulary(r) ==
  /\ at[r] = "write"
  /\ WriteCopy(r)
  /\ Count
  /\ Done(r)
  /\ UNCHANGED <<engine, stereo, chunks, polls, copy, found, mixed>>

Next ==
  \E r \in Recording :
    \/ Begin(r) \/ Extract(r)
    \/ AskService(r) \/ AskChunk(r) \/ ChunksDone(r)
    \/ AskWhole(r) \/ Poll(r)
    \/ RunModel(r) \/ Nothing(r) \/ NothingFound(r) \/ ReadVocabulary(r) \/ WriteVocabulary(r)

Spec == Init /\ [][Next]_vars

-----------------------------------------------------------------------------

\* A transcription that has ended leaves no temporary file, but in two cases:
\* the second channel cannot be extracted, or a chunk raises while others wait to
\* be sent (stt.py:1036-1070, 1556-1583).
TempsDeleted ==
  \A r \in Recording :
    /\ at[r] = "done" => Files(r) = {}
    /\ at[r] = "raised" =>
         \/ Files(r) = {Temp(r, "left")} /\ channel[r] = 0
         \/ Files(r) = {Chunk(r, i) : i \in 1 .. chunks[r] - 1}

\* The vocabulary never has more than was found, and has all of it while no two
\* threads have read it before one of them wrote it (stt.py:1786-1801).
VocabularyKept ==
  /\ vocabulary <= found
  /\ ~mixed => vocabulary = found - Cardinality({r \in Recording : at[r] = "write"})
=============================================================================
