------------------------------- MODULE Segments -------------------------------
(***************************************************************************)
(* What server/airec/analyzer/stt.py makes of the speech it recognized:    *)
(* words are given to segments, long segments are split, channels are put  *)
(* together.  Times are whole numbers; a word is a record [start, end,     *)
(* stops], where stops says that a sentence ends with it, a segment a      *)
(* record [start, end, words].                                             *)
(***************************************************************************)
EXTENDS Integers, Sequences, FiniteSets, SequencesExt, FiniteSetsExt

CONSTANTS
  MaxLength,   \* max_duration: longer segments are split
  Gap,         \* gap_threshold
  MapTol,      \* tolerance when words are given to segments, 0.1 s
  CutTol       \* tolerance when the words of a piece are collected, 0.05 s

ASSUME ToleranceAssumption == MapTol \in Nat /\ CutTol \in Nat

Length(s) == s.end - s.start

\* The elements of S in the order that the pairs of R give (what SetToSortSeq chooses, by
\* definitions that can be reasoned about: an element comes after as many as are below it).
Ranked(S, R) ==
  [n \in 1 .. Cardinality(S) |-> CHOOSE x \in S : Cardinality({y \in S : <<y, x>> \in R}) = n - 1]

Ascending(S) == Ranked(S, {p \in S \X S : p[1] < p[2]})

\* Python's sort keeps the order of what is equal.
Sorted(s, Before(_, _)) ==
  LET D == DOMAIN s
      first == {p \in D \X D : \/ Before(s[p[1]], s[p[2]])
                               \/ ~Before(s[p[2]], s[p[1]]) /\ p[1] < p[2]}
  IN [i \in D |-> s[Ranked(D, first)[i]]]

\* The sequence without what it has after the indices of C, C and the last one
\* being the ends of its pieces.
Cut(words, C) ==
  LET ends == Ascending(C \cup {0, Len(words)})
  IN [i \in 1 .. Len(ends) - 1 |->
        LET piece == SubSeq(words, ends[i] + 1, ends[i + 1])
        IN [start |-> Head(piece).start, end |-> Last(piece).end, words |-> piece]]

\* _map_words_to_segments: the words in order of time; one goes to the next
\* segment that ends after the middle of the word, the last takes the rest.
MapWords(segments) ==
  LET words == Sorted(FlattenSeq([i \in DOMAIN segments |-> segments[i].words]),
                      LAMBDA v, w : v.start < w.start)
      Fits(w, s) == w.start + w.end <= 2 * (segments[s].end + MapTol) \/ s = Len(segments)
      of[k \in 0 .. Len(words)] ==
        IF k = 0 THEN 1 ELSE Min({s \in of[k - 1] .. Len(segments) : Fits(words[k], s)})
  IN [s \in DOMAIN segments |->
        LET mine == {k \in DOMAIN words : of[k] = s}
        IN IF mine = {} THEN <<>> ELSE SubSeq(words, Min(mine), Max(mine))]

\* _split_by_time: where it is silent for long; if it never is, into pieces of
\* about one length.
SplitByTime(segment, words) ==
  LET silent == {i \in 1 .. Len(words) - 1 : words[i + 1].start - words[i].end >= Gap}
      n == Max({2, (2 * Length(segment) + MaxLength) \div (2 * MaxLength)})
      step[i \in 0 .. Len(words)] ==      \* how many cuts, and n times the next one's time
        IF i = 0 THEN [cuts |-> 0, target |-> n * Head(words).start + Length(segment)]
        ELSE IF n * words[i].end >= step[i - 1].target /\ step[i - 1].cuts < n - 1
             THEN [cuts |-> step[i - 1].cuts + 1, target |-> n * words[i].end + Length(segment)]
             ELSE step[i - 1]
  IN Cut(words, IF silent # {} THEN silent
                ELSE {i \in DOMAIN words : step[i].cuts > step[i - 1].cuts})

\* Where a sentence ends, two fifths of the maximum after the last cut at least.
SentenceCuts(words) ==
  LET since[i \in 0 .. Len(words)] ==
        IF i = 0 THEN Head(words).start
        ELSE IF i > 1 /\ words[i].stops /\ 5 * (words[i].end - since[i - 1]) >= 2 * MaxLength
             THEN words[i].end ELSE since[i - 1]
  IN {i \in 2 .. Len(words) : since[i] # since[i - 1]}

\* Variant: the tolerance is as large as that of the mapping.
WideCollected(words, piece) ==
  LET near == {i \in DOMAIN words : /\ words[i].start >= piece.start - 4 * CutTol
                                    /\ words[i].end <= piece.end + 4 * CutTol}
  IN [k \in 1 .. Cardinality(near) |-> words[Ascending(near)[k]]]

\* The words of a piece, collected by their times.
Collected(words, piece) ==
  LET near == {i \in DOMAIN words : /\ words[i].start >= piece.start - CutTol
                                    /\ words[i].end <= piece.end + CutTol}
  IN [k \in 1 .. Cardinality(near) |-> words[Ascending(near)[k]]]

\* _split_by_words.
SplitByWords(segment, words) ==
  LET cuts == SentenceCuts(words)
      pieces == Cut(words, cuts)
  IN IF cuts = {} THEN SplitByTime(segment, words)
     ELSE FlattenSeq([i \in DOMAIN pieces |->
            IF Length(pieces[i]) > MaxLength
            THEN SplitByTime(pieces[i], Collected(words, pieces[i]))
            ELSE <<pieces[i]>>])

\* _split_by_text, of a text given by the lengths of its sentences: a part of
\* less than three letters is joined with the next.
SplitByText(lengths) ==
  FoldLeft(LAMBDA parts, n : IF parts # <<>> /\ Last(parts) < 3
                             THEN [parts EXCEPT ![Len(parts)] = @ + 1 + n]
                             ELSE Append(parts, n),
           <<>>, lengths)

\* _split_long_segments: a short segment stays as it is.
SplitLong(segments) ==
  LET mapped == MapWords(segments)
  IN FlattenSeq([i \in DOMAIN segments |->
       IF Length(segments[i]) <= MaxLength \/ mapped[i] = <<>> THEN <<segments[i]>>
       ELSE SplitByWords(segments[i], mapped[i])])

-----------------------------------------------------------------------------
(* Files in chunks, channels together.                                     *)

\* _split_mono_wav_chunks.
Chunks(frames, size) ==
  [i \in 1 .. (frames + size - 1) \div size |->
     [start |-> (i - 1) * size, end |-> Min({i * size, frames})]]

\* What is recognized in a chunk, at its place in the file: it ends with the
\* chunk at the latest.
Shifted(chunk, s) ==
  LET start == chunk.start + s.start
      end == Min({chunk.end, chunk.start + s.end})
  IN [start |-> start, end |-> IF end <= start THEN chunk.end ELSE end]

\* _transcribe_openai_gpt4o_chunked: one chunk is not worth it.
ChunkedMerge(chunks, heard) ==
  IF Len(chunks) <= 1 THEN <<>>
  ELSE Sorted(FlattenSeq([i \in DOMAIN chunks |->
                [j \in DOMAIN heard[i] |-> Shifted(chunks[i], heard[i][j])]]),
              LAMBDA s, t : s.start < t.start)

Said(segments, speaker) ==
  [i \in DOMAIN segments |-> [time |-> segments[i].start, end |-> segments[i].end,
                              speaker |-> speaker]]

\* transcribe_stereo: calls that went out have the channels the other way round;
\* at one time the customer comes first.
StereoMerge(out, left, right) ==
  Sorted(Said(IF out THEN left ELSE right, "agent") \o
           Said(IF out THEN right ELSE left, "customer"),
         LAMBDA s, t : \/ s.time < t.time
                       \/ s.time = t.time /\ s.speaker = "customer" /\ t.speaker = "agent")

\* Speakers that the service tells apart: by channel when there are two, else
\* the first to speak is the agent, or the customer of a call that went out.
\* The diarizing service knows nothing of the direction.
Roles(engine, stereo, out, spoken) ==
  LET one == IF stereo /\ engine = "rtzr" THEN (IF out THEN 0 ELSE 1)
             ELSE IF spoken = <<>> THEN 0 ELSE Head(spoken)
      first == IF engine = "rtzr" /\ ~stereo /\ out THEN "customer" ELSE "agent"
      other == IF first = "agent" THEN "customer" ELSE "agent"
  IN [i \in DOMAIN spoken |-> IF spoken[i] = one THEN first ELSE other]

-----------------------------------------------------------------------------

(* What the services recognize.                                            *)

\* Words one after the other, each of them in its segment.
Recognized(segments) ==
  /\ segments \in Seq([start : Int, end : Int,
                       words : Seq([start : Int, end : Int, stops : BOOLEAN])])
  /\ \A s \in DOMAIN segments : \A i \in DOMAIN segments[s].words :
       LET w == segments[s].words[i]
       IN /\ w.start <= w.end /\ w.end <= segments[s].end
          /\ \A j \in i + 1 .. Len(segments[s].words) : w.end <= segments[s].words[j].start
          /\ \A r \in 1 .. s - 1 : segments[r].end <= w.start

\* For every chunk of the file, what begins in it.
HeardInChunks(chunks, heard) ==
  /\ heard \in Seq(Seq([start : Nat, end : Int]))
  /\ Len(heard) = Len(chunks)
  /\ \A i \in DOMAIN heard : \A j \in DOMAIN heard[i] :
       heard[i][j].start < chunks[i].end - chunks[i].start

Turns == Seq([start : Int, end : Int])

-----------------------------------------------------------------------------

\* Words of several segments are written in the order spoken, each of them in one piece
\* and one only, and none that was not said, although long segments are split by sentences,
\* by silences and by time, and words are looked for by their times.  Not so the words that
\* lie at the border of two segments and are given to the first, and words shorter than the
\* tolerance at a cut, which come on both sides of it (stt.py:547-695).
SpeechKept(segments) ==
  LET spoken == UNION {ToSet(segments[s].words) : s \in DOMAIN segments}
      pieces == SplitLong(segments)
      written == FlattenSeq([i \in DOMAIN pieces |-> pieces[i].words])
      AtBorder(w) == \E s \in DOMAIN segments :
                       /\ w \notin ToSet(segments[s].words)
                       /\ w.start >= segments[s].end
                       /\ w.start + w.end <= 2 * (segments[s].end + MapTol)
      Sure(w) == ~AtBorder(w) /\ w.end - w.start > CutTol
  IN /\ ToSet(written) \subseteq spoken
     /\ \A w \in spoken : ~AtBorder(w) => w \in ToSet(written)
     /\ \A i, j \in DOMAIN written :
          i < j /\ Sure(written[i]) /\ Sure(written[j]) => written[i].end <= written[j].start

\* What is heard in the chunks of a file lies in its chunk, none of it before it
\* begins, and comes in the order of the file (stt.py:1036-1082).
ChunksInPlace(chunks, heard) ==
  LET merged == ChunkedMerge(chunks, heard)
  IN Len(chunks) > 1 =>
       /\ Len(merged) = Len(FlattenSeq(heard))
       /\ \A i \in DOMAIN merged :
            /\ merged[i].start < merged[i].end
            /\ i > 1 => merged[i - 1].start <= merged[i].start
            /\ \E c \in ToSet(chunks) : merged[i].start >= c.start /\ merged[i].end <= c.end

\* The engine that is sent the whole file takes the same channel for the agent's
\* as the engines that are sent one channel at a time (stt.py:1341-1357,
\* 1585-1599).
SameSpeakers(out, left, right) ==
  LET spoken == [i \in DOMAIN left |-> 0] \o [i \in DOMAIN right |-> 1]
      roles == Roles("rtzr", TRUE, out, spoken)
  IN \A s \in {"agent", "customer"} :
       {[time |-> t.time, end |-> t.end] : t \in {u \in ToSet(StereoMerge(out, left, right)) : u.speaker = s}}
         = {[time |-> (left \o right)[i].start, end |-> (left \o right)[i].end] :
              i \in {j \in DOMAIN spoken : roles[j] = s}}
=============================================================================
