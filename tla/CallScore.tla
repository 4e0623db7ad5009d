------------------------------ MODULE CallScore ------------------------------
(***************************************************************************)
(* What airec/analyzer/call_quality.py makes of a transcript: when the     *)
(* agent first answers, who talks how long, and the scores.                *)
(*                                                                         *)
(* Times are in seconds, ratios in percent, a pace in words a minute; a    *)
(* score is 24 times the code's, so that it is a whole number before the   *)
(* rounding.                                                               *)
(***************************************************************************)
EXTENDS Integers, Sequences, FiniteSetsExt

Full == 2400

\* A call, as speech recognition gives it: one in which the customer speaks lasts some time.
Utterance == [start: Nat, end: Nat]
ScoredCall ==
  {c \in [agent: Seq(Utterance), customer: Seq(Utterance), duration: Nat, words: Nat,
          required: BOOLEAN, forbidden: BOOLEAN] : c.customer # <<>> => c.duration > 0}

Starts(segs) == {segs[i].start : i \in DOMAIN segs}

\* compute_first_response: the first of the agent's segments that starts after the
\* customer's first; 0 without one.
FirstResponse(agent, customer) ==
  LET after == {s \in Starts(agent) : \E c \in Starts(customer) : c < s}
  IN IF after = {} THEN 0 ELSE Min(after) - Min(Starts(customer))

Talk(segs) ==
  LET upTo[i \in 0 .. Len(segs)] ==
        IF i = 0 THEN 0 ELSE upTo[i - 1] + segs[i].end - segs[i].start
  IN upTo[Len(segs)]

Percent(part, whole) == Min({100, (100 * part) \div whole})

\* compute_talk_ratios: what both say at once counts for both.
TalkRatios(agent, customer, duration) ==
  IF duration <= 0 THEN [agent |-> 0, customer |-> 0, silence |-> 100]
  ELSE [agent |-> Percent(Talk(agent), duration), customer |-> Percent(Talk(customer), duration),
        silence |-> Percent(Max({0, duration - Talk(agent) - Talk(customer)}), duration)]

\* compute_speech_pace.
SpeechPace(words, duration) == IF duration < 1 THEN 0 ELSE (60 * words) \div duration

\* compute_scores, of a call in stereo.
ResponseScore(first) ==
  IF first <= 0 THEN Full \div 2
  ELSE IF first <= 3 THEN Full
  ELSE IF first >= 15 THEN 0
  ELSE 200 * (15 - first)

\* compute_scores, of a call in mono.
PaceScore(pace) ==
  CASE pace <= 0 -> Full \div 2
    [] pace \in 100 .. 160 -> Full
    [] pace \in 1 .. 59 -> 20 * pace
    [] pace \in 60 .. 99 -> Full \div 2 + 30 * (pace - 60)
    [] pace > 200 -> Max({0, Full - 24 * (pace - 200)})
    [] OTHER -> Full - 15 * (pace - 160)

PhraseScore(required, forbidden) ==
  IF forbidden THEN 0 ELSE IF required THEN Full ELSE Full \div 2

\* Variant: between the limits the score goes the other way.
SilenceRewarded(silence) ==
  IF silence <= 20 THEN Full ELSE IF silence >= 60 THEN 0 ELSE 60 * (silence - 20)

SilenceScore(silence) ==
  IF silence <= 20 THEN Full ELSE IF silence >= 60 THEN 0 ELSE 60 * (60 - silence)

\* analyze_call_quality: the weights of a call in mono and in stereo, in tenths.
Score(c) ==
  LET mono == c.customer = <<>> /\ c.agent # <<>>
      silence == TalkRatios(c.agent, c.customer, c.duration).silence
      phrase == PhraseScore(c.required, c.forbidden)
  IN IF mono
     THEN 2 * PaceScore(SpeechPace(c.words, c.duration)) + 5 * phrase + 3 * SilenceScore(silence)
     ELSE 3 * ResponseScore(FirstResponse(c.agent, c.customer)) + 4 * phrase
            + 3 * SilenceScore(silence)

-----------------------------------------------------------------------------

\* What the agent says after the customer began, d seconds later.
Later(c, d) ==
  [c EXCEPT !.agent =
     [i \in DOMAIN c.agent |->
        IF c.agent[i].start > Min(Starts(c.customer))
        THEN [start |-> c.agent[i].start + d, end |-> c.agent[i].end + d] ELSE c.agent[i]]]

\* A call that is worse in one way never scores more: a forbidden word in it, no
\* required one, a longer silence at its end, a later answer; and in mono a pace
\* further from 100 to 160 words a minute, but that the step from 200 to 201 gives
\* back 24 points of 100 (call_quality.py:133-193).
WorseIsLess(c) ==
  LET pace == SpeechPace(c.words, c.duration)
  IN /\ Score(c) \in 0 .. 10 * Full
     /\ Score([c EXCEPT !.forbidden = TRUE]) <= Score(c)
     /\ Score([c EXCEPT !.required = FALSE]) <= Score(c)
     /\ IF c.customer # <<>>
        THEN /\ Score([c EXCEPT !.duration = @ + 5]) <= Score(c)
             /\ \A d \in 1 .. 6 :
                  FirstResponse(c.agent, c.customer) > 0 => Score(Later(c, d)) <= Score(c)
        ELSE /\ pace \in 1 .. 99 => PaceScore(pace) <= PaceScore(pace + 1)
             /\ pace >= 160 /\ pace # 200 => PaceScore(pace) >= PaceScore(pace + 1)
             /\ PaceScore(201) = PaceScore(200) + 24 * 24
=============================================================================
