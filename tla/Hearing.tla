------------------------------ MODULE Hearing -------------------------------
(***************************************************************************)
(* What is made of a recording that was listened to: of the words that     *)
(* were recognized, the chunks of a long call and the two channels of a    *)
(* stereo one a text (Segments), and of a call a score (CallScore).        *)
(***************************************************************************)
EXTENDS Segments, CallScore

CONSTANT Heard      \* what was heard

\* What is heard is a call to score, the words of segments, what was recognized in the
\* chunks of a file of so many frames, the turns of two channels, or something else.
ASSUME HeardAssumption ==
  \A h \in Heard :
    /\ h.kind = "call" => h.of[1] \in ScoredCall
    /\ h.kind = "words" => Recognized(h.of)
    /\ h.kind = "chunks" => /\ h.of.frames \in Nat /\ h.of.size \in Nat \ {0}
                           /\ HeardInChunks(Chunks(h.of.frames, h.of.size), h.of.heard)
    /\ h.kind = "stereo" => h.of[1] \in Turns /\ h.of[2] \in Turns

VARIABLE heard

-----------------------------------------------------------------------------
\* What was heard is made into a text and scored once, by functions alone.

NoInput == [kind |-> "none", of |-> <<>>]
Hear == heard = NoInput /\ heard' \in Heard
HearSpec == heard = NoInput /\ [][Hear]_heard

-----------------------------------------------------------------------------
\* What was said is kept, in its place: words, pieces of a long call, two channels
\* (stt.py:547-695, 1036-1082, 1341-1357).
WordsKept ==
  /\ heard.kind = "words" => SpeechKept(heard.of)
  /\ heard.kind = "chunks" => ChunksInPlace(Chunks(heard.of.frames, heard.of.size), heard.of.heard)
  /\ heard.kind = "stereo" => \A out \in BOOLEAN : SameSpeakers(out, heard.of[1], heard.of[2])
\* A call that is worse in one way never scores more (call_quality.py:133-193).
WorseScoresLess == heard.kind = "call" => WorseIsLess(heard.of[1])
=============================================================================
