----------------------------- MODULE CallMatching -----------------------------
(***************************************************************************)
(* server/analysis/log_analyzer.py, the second half: which of a day's      *)
(* calls were not recorded.  Calls that ended (SMDR) are matched with      *)
(* recordings that were closed, one each, in five passes over the calls;   *)
(* each pass looks at what the passes before have left.                    *)
(*                                                                         *)
(* A number is a sequence of digits, <<>> when it is not known; a time a   *)
(* number of seconds.  Of recordings that suit a call equally any may be   *)
(* taken: the order of a Python set decides.                               *)
(***************************************************************************)
EXTENDS Integers, Sequences, FiniteSets, SequencesExt

CONSTANTS
  Input,            \* records of the fields below
  SuffixLen,        \* _SUFFIX_LEN
  Confident,        \* _CONFIDENT_DURATION_DIFF
  OverlapTol,       \* _OVERLAP_TOL
  DirPenalty,       \* _DIR_PENALTY
  MatchWindow,      \* MATCH_WINDOW_SECONDS
  GraceWindow, GraceDiff,       \* _GC_TIME_WINDOW, _GC_DURATION_DIFF
  PartialMin,       \* _PARTIAL_MIN_DURATION
  RestartGap,       \* RESTART_GAP_SECONDS
  Minute,           \* seconds that a time without seconds stands for
  Did,              \* the virtual extension calls pass through
  TrunkExt, IvrExt  \* extensions of trunks and of the system

VARIABLES
  input,     \* [calls, closes, graces, fails, skipped, starts, mismatches, norms]
  pass,      \* "confident" .. "start", "collect", "done"
  next,      \* the call the pass looks at
  pairs,     \* matched_pairs: call -> close, a partial function
  graces,    \* call -> grace close, a partial function
  reports,   \* call -> reason, a partial function
  named,     \* mismatches of durations that got a call's numbers
  recovered  \* failed normalizations that a recording makes good

vars == <<input, pass, next, pairs, graces, reports, named, recovered>>

calls == input.calls
closes == input.closes

Init ==
  /\ input \in Input
  /\ pass = "confident"
  /\ next = 1
  /\ pairs = <<>>
  /\ graces = <<>>
  /\ reports = <<>>
  /\ named = {}
  /\ recovered = {}

Abs(x) == IF x < 0 THEN -x ELSE x

-----------------------------------------------------------------------------
(* Calls through the virtual extension have no recording of their own.     *)

InMinute(time) == time \div Minute

\* What trunks called while the extension was called, when it ever failed.
TrunkNumbers ==
  {calls[s].called :
     s \in {t \in DOMAIN calls :
              /\ calls[t].ext \in TrunkExt
              /\ calls[t].called \notin {<<>>, Did}
              /\ \E d \in DOMAIN calls : /\ calls[d].called = Did
                                         /\ InMinute(calls[d].time) = InMinute(calls[t].time)}}

PassedThrough ==
  IF ~\E f \in input.fails : f.cause = "did_3301" THEN {}
  ELSE {s \in DOMAIN calls : \/ calls[s].called \in {Did} \cup TrunkNumbers
                             \/ calls[s].caller \in TrunkNumbers}

Matched == DOMAIN pairs \cup DOMAIN graces

Used == {pairs[s] : s \in DOMAIN pairs}
Free == DOMAIN closes \ Used

-----------------------------------------------------------------------------
(* What may be the recording of a call.                                    *)

\* _num_match: one ends in the other.
NumMatch(a, b) == a # <<>> /\ b # <<>> /\ (IsSuffix(a, b) \/ IsSuffix(b, a))

\* The index by number: the last digits, of a short number all.
Key(n) == IF Len(n) >= SuffixLen THEN SubSeq(n, Len(n) - SuffixLen + 1, Len(n)) ELSE n

\* The numbers of a close, by its CID and by its file's name.
CallerNums(c) == {c.cid.caller, c.name.caller} \ {<<>>}
CalledNums(c) == {c.cid.called, c.name.called} \ {<<>>}

\* A call is looked up by its caller, without one by what it called.
Number(call) == IF call.caller # <<>> THEN call.caller ELSE call.called
SameSide(call, c) == IF call.caller # <<>> THEN CallerNums(c) ELSE CalledNums(c)
OtherSide(call, c) == IF call.caller # <<>> THEN CalledNums(c) ELSE CallerNums(c)

Indexed(call, c) ==
  \E n \in CallerNums(c) \cup CalledNums(c) : Key(n) = Key(Number(call))
NumbersMatch(call, c) ==
  \E n \in CallerNums(c) \cup CalledNums(c) : NumMatch(Number(call), n)
Overlap(call, c) ==
  /\ c.time + OverlapTol >= call.time - call.duration - OverlapTol
  /\ c.time - c.duration - OverlapTol <= call.time + OverlapTol
Agree(a, b) == a = "" \/ b = "" \/ a = b

OfNumber(s, i) ==
  LET call == calls[s]  c == closes[i]
  IN /\ Indexed(call, c) \/ (call.ext # "" /\ call.ext = c.name.ext)
     /\ Overlap(call, c)
     /\ Agree(call.ext, c.name.ext)
     /\ Agree(call.dnis, c.name.dnis)
     /\ NumbersMatch(call, c)

OfExt(s, i) ==
  /\ calls[s].ext # ""
  /\ calls[s].ext = closes[i].name.ext
  /\ Overlap(calls[s], closes[i])

\* The start of both within the window, whatever their extensions.
OfStart(s, i) ==
  LET call == calls[s]  c == closes[i]
  IN /\ Indexed(call, c)
     /\ c.duration > 0
     /\ Abs((call.time - call.duration) - (c.time - c.duration)) <= MatchWindow
     /\ NumbersMatch(call, c)

\* How far the durations are apart, a close of the other direction further.
Cost(s, i) ==
  LET same == \E n \in SameSide(calls[s], closes[i]) : NumMatch(Number(calls[s]), n)
  IN Abs(calls[s].duration - (closes[i].duration + (IF same THEN 0 ELSE DirPenalty)))
Difference(s, i) == Abs(calls[s].duration - closes[i].duration)

Least(C, value) == {i \in C : \A j \in C : value[i] <= value[j]}

-----------------------------------------------------------------------------
(* The passes.                                                             *)

Passes == <<"confident", "number", "ext", "grace", "start", "collect">>
After(p) == Passes[(CHOOSE i \in DOMAIN Passes : Passes[i] = p) + 1]

\* On to the next call, or to the next pass.
Advance ==
  /\ pass' = IF next >= Len(calls) THEN After(pass) ELSE pass
  /\ next' = IF next >= Len(calls) THEN 1 ELSE next + 1

\* One call of a pass: it gets one of the best of its candidates, if it has any.
Visit(p, best) ==
  /\ pass = p
  /\ IF next \in Matched \cup PassedThrough \/ best = {} THEN UNCHANGED pairs
     ELSE \E i \in best : pairs' = [s \in DOMAIN pairs \cup {next} |->
                                      IF s = next THEN i ELSE pairs[s]]
  /\ Advance
  /\ UNCHANGED <<input, graces, reports, named, recovered>>

\* Pass 1: only what is close in duration.
ConfidentMatch ==
  LET C == {i \in Free : OfNumber(next, i)}
  IN Visit("confident", {i \in Least(C, [j \in C |-> Cost(next, j)]) : Cost(next, i) <= Confident})

\* Variant: as in the first pass.
OnlyConfident ==
  LET C == {i \in Free : OfNumber(next, i)}
  IN Visit("number", {i \in Least(C, [j \in C |-> Cost(next, j)]) : Cost(next, i) <= Confident})

\* Pass 2: the best, however far.
NumberMatch ==
  LET C == {i \in Free : OfNumber(next, i)}
  IN Visit("number", Least(C, [i \in C |-> Cost(next, i)]))

\* Pass 3: by the extension alone.
ExtMatch ==
  LET C == {i \in Free : OfExt(next, i)}
  IN Visit("ext", Least(C, [i \in C |-> Difference(next, i)]))

\* Pass 4: a close that lost its name, the first of those closest in duration.
GraceMatch ==
  LET gs == input.graces
      C == {g \in DOMAIN gs \ {graces[s] : s \in DOMAIN graces} :
              /\ Abs(gs[g].time - calls[next].time) <= GraceWindow
              /\ Abs(gs[g].duration - calls[next].duration) <= GraceDiff}
      best == Least(C, [g \in C |-> Abs(gs[g].duration - calls[next].duration)])
  IN /\ pass = "grace"
     /\ graces' = IF next \in Matched \cup PassedThrough \/ best = {} THEN graces
                  ELSE [s \in DOMAIN graces \cup {next} |->
                          IF s = next THEN CHOOSE g \in best : \A h \in best : g <= h
                          ELSE graces[s]]
     /\ Advance
     /\ UNCHANGED <<input, pairs, reports, named, recovered>>

\* Pass 5: recordings that ended long before their call.
StartMatch ==
  LET C == {i \in Free : OfStart(next, i)}
  IN Visit("start", Least(C, [i \in C |-> Cost(next, i)]))

-----------------------------------------------------------------------------
(* What is reported.                                                       *)

\* Less than 70 % of the call.
Partial(s) ==
  /\ s \in DOMAIN pairs
  /\ calls[s].duration >= PartialMin
  /\ closes[pairs[s]].duration > 0
  /\ 10 * closes[pairs[s]].duration < 7 * calls[s].duration

\* n is a part of m.
Within(n, m) == n # <<>> /\ \E k \in 1 .. Len(m) : IsPrefix(n, SubSeq(m, k, Len(m)))

\* A recording without a packet bears a number of the call.
Silent(s) ==
  \E i \in DOMAIN closes :
    /\ ~closes[i].packets /\ closes[i].size > 0
    /\ Abs(calls[s].time - closes[i].time) <= MatchWindow
    /\ \E n \in {calls[s].caller, calls[s].called} :
         Within(n, closes[i].cid.caller) \/ Within(n, closes[i].cid.called)

AfterRestart(time) == \E t \in input.starts : time - t \in 0 .. RestartGap

Reason(s) ==
  LET call == calls[s]
  IN CASE s \in PassedThrough -> "did_passthrough"
       [] Partial(s) -> "partial_recording"
       [] call.ext \in IvrExt /\ call.duration <= 2 -> "ivr_system"
       [] AfterRestart(call.time) -> "restart_gap"
       [] \E f \in input.fails : InMinute(f.time) = InMinute(call.time) -> "db_fail"
       [] Silent(s) -> "silent_recording"
       [] OTHER -> "no_file_close"

\* A caller whose call was skipped in the queue was recorded by another line.
Unrecorded ==
  PassedThrough
    \cup {s \in DOMAIN calls \ PassedThrough :
            \/ Partial(s)
            \/ s \notin Matched /\ (calls[s].caller = <<>> \/ calls[s].caller \notin input.skipped)}

\* A mismatch of durations takes the numbers of the first call of its extension.
NamedBy(m) ==
  {s \in DOMAIN calls : /\ calls[s].ext = m.ext
                        /\ Abs(m.time - calls[s].time) <= MatchWindow
                        /\ \A t \in 1 .. s - 1 :
                             \/ calls[t].ext # m.ext
                             \/ Abs(m.time - calls[t].time) > MatchWindow}

\* A number that could not be normalized turned up in a recording all the same.
Recovered(n) ==
  \E i \in DOMAIN closes :
    /\ Abs(n.time - closes[i].time) <= MatchWindow
    /\ \E m \in CallerNums(closes[i]) \cup CalledNums(closes[i]) : Within(n.number, m)

Collect ==
  /\ pass = "collect"
  /\ reports' = [s \in Unrecorded |-> Reason(s)]
  /\ named' = {m \in input.mismatches : NamedBy(m) # {}}
  /\ recovered' = {n \in input.norms : Recovered(n)}
  /\ pass' = "done"
  /\ UNCHANGED <<input, next, pairs, graces>>

Next == ConfidentMatch \/ NumberMatch \/ ExtMatch \/ GraceMatch \/ StartMatch \/ Collect

Spec == Init /\ [][Next]_vars

-----------------------------------------------------------------------------

\* No recording is given to two calls, none to a call that passed through the
\* virtual extension; and a call that is left without one is left because none
\* that could be its by its number, its extension, its start or its time is
\* left: what an early pass took from it, another call has
\* (log_analyzer.py:1137-1261).
NoneOverlooked ==
  /\ \A s, t \in DOMAIN pairs : pairs[s] = pairs[t] => s = t
  /\ \A s, t \in DOMAIN graces : graces[s] = graces[t] => s = t
  /\ DOMAIN pairs \cap DOMAIN graces = {}
  /\ Matched \cap PassedThrough = {}
  /\ pass = "done" =>
       \A s \in DOMAIN reports \ (Matched \cup PassedThrough) :
         /\ \A i \in Free : ~OfNumber(s, i) /\ ~OfExt(s, i) /\ ~OfStart(s, i)
         /\ \A g \in DOMAIN input.graces \ {graces[t] : t \in DOMAIN graces} :
              \/ Abs(input.graces[g].time - calls[s].time) > GraceWindow
              \/ Abs(input.graces[g].duration - calls[s].duration) > GraceDiff
=============================================================================
