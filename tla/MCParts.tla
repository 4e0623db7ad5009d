------------------------------ MODULE MCParts ---------------------------------
(***************************************************************************)
(* Parts of the system that are checked apart, a behaviour being of one of *)
(* them while the variables of the others keep their first value: the      *)
(* analysis of a day's logs (CallLog) and the matching of calls with       *)
(* recordings (CallMatching); the transcription of recordings (Speech),    *)
(* with the inputs of what is made of their words (Segments) and of their  *)
(* scores (CallScore); the table of recordings (RecTable), the recordings  *)
(* kept and served (RecStream); an agent's configuration (ConfigEdit); the *)
(* manager of the server's process (ServerManager) and the windows that    *)
(* deploy (DeployTab).                                                     *)
(***************************************************************************)
EXTENDS Analysis, Hearing, RecStore, Windows, FiniteSetsExt, SequencesExt

VARIABLE part

-----------------------------------------------------------------------------
(* Inputs of the matching: one or two calls, up to two recordings.         *)

Calls ==
  [time: {20, 26}, duration: {1, 20}, ext: {"e"}, caller: {<<>>, <<2, 1, 1>>},
   called: {<<2, 1, 1>>}, dnis: {""}]
  \cup {[time |-> 20, duration |-> 4, ext |-> "f", caller |-> <<1, 1>>, called |-> <<3>>, dnis |-> "d"],
        [time |-> 21, duration |-> 4, ext |-> "t", caller |-> <<>>, called |-> <<2, 2>>, dnis |-> ""],
        [time |-> 22, duration |-> 4, ext |-> "f", caller |-> <<>>, called |-> <<9, 9>>, dnis |-> ""]}

Close(time, duration, called, ext) ==
  [time |-> time, duration |-> duration, size |-> IF duration = 0 THEN 0 ELSE 1,
   packets |-> duration > 1, cid |-> [caller |-> <<1, 1>>, called |-> <<5, 5>>],
   name |-> [caller |-> <<>>, called |-> called, ext |-> ext, dnis |-> "d"]]
Closes ==
  {Close(20, d, <<2, 1, 1>>, e) : d \in {0, 1, 6}, e \in {"e", "f"}}
  \cup {Close(20, 1, <<2, 1, 1>>, ""), Close(10, 1, <<>>, "e"), Close(10, 6, <<>>, "e")}

UpToTwo(S) == {SetToSeq(T) : T \in kSubset(1, S) \cup kSubset(2, S)}

Inputs ==
  [calls: UpToTwo(Calls),
   closes: {<<>>} \cup UpToTwo(Closes) \cup {<<c, c>> : c \in Closes},
   graces: {<<>>, <<[time |-> 21, duration |-> 3]>>},
   fails: {{}, {[time |-> 20, cause |-> "did_3301"]}}, skipped: {{<<1, 1>>}}, starts: {{18}},
   mismatches: {{[time |-> 20, ext |-> "e"]}}, norms: {{[time |-> 20, number |-> <<1, 1>>]}}]

VirtualExt == <<9, 9>>

-----------------------------------------------------------------------------
(* Inputs of Segments: words of three lengths, with or without a silence   *)
(* before them, in one segment or two; chunks; two channels.               *)

Spoken(lengths, gaps, stops) ==
  LET end[i \in 0 .. Len(lengths)] == IF i = 0 THEN 0 ELSE end[i - 1] + gaps[i] + lengths[i]
  IN [i \in DOMAIN lengths |-> [start |-> end[i] - lengths[i], end |-> end[i], stops |-> stops[i]]]
Words(n) ==
  {Spoken(l, g, s) : l \in [1 .. n -> {1, 3, 7}], g \in [1 .. n -> {0, 4}], s \in [1 .. n -> BOOLEAN]}
Segment(words) == [start |-> Head(words).start, end |-> Last(words).end, words |-> words]

UpTo2(S) == {<<>>} \cup {<<t>> : t \in S} \cup {<<t, u>> : t, u \in S}
InChunk(starts) == UpTo2({[start |-> s, end |-> e] : s \in starts, e \in {1, 6}})
Channel == {t \in UpTo2({[start |-> s, end |-> s + 2] : s \in 0 .. 2}) :
            Len(t) = 2 => t[1].start < t[2].start}

\* Calls to score: agent and customer with up to two turns, of some length; and calls
\* in mono of every pace.
TurnsAt(starts) == UpTo2({[start |-> s, end |-> s + 2] : s \in starts})
ScoredCalls ==
  [agent: TurnsAt({0, 2, 9}), customer: TurnsAt({1, 4}) \ {<<>>}, duration: {11, 14, 24}, words: {1},
   required: BOOLEAN, forbidden: BOOLEAN]
  \cup [agent: {<<[start |-> 0, end |-> 40]>>}, customer: {<<>>}, duration: {0, 60},
        words: {1, 60, 200} \cup 50 .. 62 \cup 98 .. 102 \cup 158 .. 162 \cup 198 .. 202 \cup {310},
        required: BOOLEAN, forbidden: BOOLEAN]

HeardInputs ==
  {[kind |-> "words", of |-> <<Segment(w)>>] : w \in Words(3)}
  \cup {[kind |-> "words", of |-> <<Segment(SubSeq(w, 1, k)), Segment(SubSeq(w, k + 1, 3))>>] :
          w \in Words(3), k \in 1 .. 2}
  \cup {[kind |-> "chunks", of |-> [frames |-> 7, size |-> 4, heard |-> <<t, u>>]] :
          t \in InChunk({0, 3}), u \in InChunk({0, 2})}
  \cup {[kind |-> "stereo", of |-> <<t, u>>] : t, u \in Channel}
  \cup {[kind |-> "call", of |-> <<c>>] : c \in ScoredCalls}

\* Two recordings that are transcribed at a time, by any of the engines.
Recordings == {"r1", "r2"}
Engines == {"local", "openai-whisper", "openai-gpt4o", "openai-diarize", "rtzr"}

-----------------------------------------------------------------------------

\* What a Range header may name; -1 stands for nothing.
FirstBytes == {-1, 1, 4}
LastBytes == {-1, 1, 5}

-----------------------------------------------------------------------------

logVars == <<now, lines, version, began, segments, lastInit, recent, counts, calls, skipped,
             closes, graceLines, halves, fails, result>>
matchVars == <<input, pass, next, pairs, graces, reports, named, recovered>>
tableVars == <<records, pending, job, results>>
streamVars == <<day, stored, writing, writes, connected, visits, reader>>
configVars == <<key, hasText, file, backup, editor, queue, applies, last>>
managerVars == <<phase, pipe, dash, stopper, changed, proc, shown, dashShown, timers, readers,
                 posts, quit, late>>
deployVars == <<kind, first, chosen, listed, asks, files, jobs, sent, tooLate>>
allVars == <<part, logVars, matchVars, vars, heard, tableVars, streamVars, configVars,
          managerVars, deployVars>>

AllInit ==
  /\ part \in {"log", "match", "speech", "heard", "table", "stream", "config", "manager", "deploy"}
  /\ part = "match" \/ input = CHOOSE i \in Inputs : TRUE
  /\ part = "speech" \/ engine = [r \in Recording |-> "local"]
  /\ part = "speech" \/ stereo = [r \in Recording |-> TRUE]
  /\ L!Init
  /\ P!Init
  /\ Init
  /\ heard = NoInput
  /\ R!Init
  /\ F!Init
  /\ E!Init
  /\ M!Init
  /\ D!Init
  /\ part = "deploy" \/ (kind = "test" /\ first = "a1")
  /\ <<key, hasText, file.field>> \in
       {<<"ok", FALSE, E!Null>>} \cup
       IF part = "config" THEN {<<"none", TRUE, "a">>, <<"wrong", FALSE, "a">>} ELSE {}

AllNext ==
  \/ /\ part = "log" /\ L!Next
     /\ UNCHANGED <<part, matchVars, vars, heard, tableVars, streamVars, configVars, managerVars,
                    deployVars>>
  \/ /\ part = "match" /\ P!Next
     /\ UNCHANGED <<part, logVars, vars, heard, tableVars, streamVars, configVars, managerVars,
                    deployVars>>
  \/ /\ part = "speech" /\ Next
     /\ UNCHANGED <<part, logVars, matchVars, heard, tableVars, streamVars, configVars, managerVars,
                    deployVars>>
  \/ /\ part = "heard" /\ Hear
     /\ UNCHANGED <<part, logVars, matchVars, vars, tableVars, streamVars, configVars, managerVars,
                    deployVars>>
  \/ /\ part = "table" /\ R!Next
     /\ UNCHANGED <<part, logVars, matchVars, vars, heard, streamVars, configVars, managerVars,
                    deployVars>>
  \/ /\ part = "stream" /\ F!Next
     /\ UNCHANGED <<part, logVars, matchVars, vars, heard, tableVars, configVars, managerVars,
                    deployVars>>
  \/ /\ part = "config" /\ E!Next
     /\ UNCHANGED <<part, logVars, matchVars, vars, heard, tableVars, streamVars, managerVars,
                    deployVars>>
  \/ /\ part = "manager" /\ M!Next
     /\ UNCHANGED <<part, logVars, matchVars, vars, heard, tableVars, streamVars, configVars,
                    deployVars>>
  \/ /\ part = "deploy" /\ D!Next
     /\ tooLate = {}        \* SentAsShown says nothing of what follows
     /\ UNCHANGED <<part, logVars, matchVars, vars, heard, tableVars, streamVars, configVars,
                    managerVars>>

AllSpec == AllInit /\ [][AllNext]_allVars

=============================================================================
