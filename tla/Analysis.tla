------------------------------ MODULE Analysis ------------------------------
(***************************************************************************)
(* What is made of recordings and logs, side by side: the analysis of a    *)
(* day's logs (CallLog), the matching of its calls with recordings         *)
(* (CallMatching), and the transcription of recordings (Speech).  They do  *)
(* not meet: each has a specification of its own, of its own variables,    *)
(* and its properties are stated of that.                                  *)
(***************************************************************************)
EXTENDS Speech

CONSTANTS
  Chan, Version, RestartGap, Window, LineBound, TimeBound,              \* of CallLog
  Input, SuffixLen, Confident, OverlapTol, DirPenalty, MatchWindow,     \* of CallMatching
  GraceWindow, GraceDiff, PartialMin, BeforeGap, Minute, Did, TrunkExt, IvrExt

\* The window of a failure is a number of lines.
ASSUME ContextAssumption == Window \in Nat

\* There are calls, in an order, and when and how long they and the recordings were is a number.
ASSUME InputAssumption ==
  /\ DirPenalty \in Int /\ GraceWindow \in Int /\ GraceDiff \in Int
  /\ \A x \in Input :
       /\ Len(x.calls) \in Nat \ {0} /\ DOMAIN x.calls = 1 .. Len(x.calls)
       /\ Len(x.graces) \in Nat /\ DOMAIN x.graces = 1 .. Len(x.graces)
       /\ \A s \in DOMAIN x.calls : x.calls[s].time \in Int /\ x.calls[s].duration \in Int
       /\ \A i \in DOMAIN x.closes : x.closes[i].duration \in Int
       /\ \A g \in DOMAIN x.graces : x.graces[g].time \in Int /\ x.graces[g].duration \in Int

VARIABLES
  now, lines, version, began, segments, lastInit, recent, counts, calls, skipped, closes,
  graceLines, halves, fails, result,
  input, pass, next, pairs, graces, reports, named, recovered

L == INSTANCE CallLog WITH graces <- graceLines
P == INSTANCE CallMatching WITH RestartGap <- BeforeGap

-----------------------------------------------------------------------------
\* The properties of the modules, where they are explained; TempsDeleted and VocabularyKept
\* are of Speech.
HalvesMeet == L!HalvesMeet /\ L!CauseIsRecent
NoneOverlooked == P!NoneOverlooked
=============================================================================
