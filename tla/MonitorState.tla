----------------------------- MODULE MonitorState -----------------------------
(***************************************************************************)
(* server/analysis/monitor_state.py: the running statistics of one log of  *)
(* a recording system, fed with its lines as they are received and read by *)
(* the dashboard.  Only a reader prunes what is too old.                   *)
(*                                                                         *)
(* Lines come in the order of their times, at most Lag late; a line that   *)
(* has no time is given the server's.                                      *)
(***************************************************************************)
EXTENDS Integers, Sequences, FiniteSets, SequencesExt

CONSTANTS
  Chan, Ext, Thread,   \* channels, extensions, threads' indices
  Window,              \* kind -> for how long an event counts
  IaTimeout,           \* IA_TIMEOUT_SECONDS
  Lag,
  TimeBound, LineBound \* the clock and the lines at most

Kinds == DOMAIN Window

VARIABLES
  now,
  last,          \* last_ts
  threads,       \* rtp_threads, pkt_threads: the pairs <<table, index>>
  events,        \* kind -> times in the order they were noted
  sessions,      \* active_sessions: the channels
  iaPending,     \* ext -> time; a partial function
  iaNoRtp,       \* ia_no_rtp_events
  shown,         \* what to_dict returned last
  lines,         \* every line, history
  ia             \* signals by what became of them, history

vars == <<now, last, threads, events, sessions, iaPending, iaNoRtp, shown, lines, ia>>

Init ==
  /\ now = 0
  /\ last = 0
  /\ threads = {}
  /\ events = [k \in Kinds |-> <<>>]
  /\ sessions = {}
  /\ iaPending = <<>>
  /\ iaNoRtp = <<>>
  /\ shown = [counts |-> [k \in Kinds |-> 0], expired |-> 0, at |-> 0]
  /\ lines = <<>>
  /\ ia = [seen |-> 0, repeated |-> 0, matched |-> 0, expired |-> 0]

-----------------------------------------------------------------------------
(* process_line.                                                           *)

\* The time of a line: its own, or the server's when it has none.
Received(time) ==
  /\ Len(lines) < LineBound
  /\ time \in last .. now
  /\ time >= now - Lag
  /\ last' = time

Noted(kind, time) == [events EXCEPT ![kind] = Append(@, time)]
Line(kind, time) == lines' = Append(lines, [kind |-> kind, time |-> time])

\* Lines that are only counted: matches, SMDR reports, grace periods, mismatches.
Count(kind, time) ==
  /\ Received(time)
  /\ kind \in Kinds
  /\ events' = Noted(kind, time)
  /\ Line(kind, time)
  /\ UNCHANGED <<now, threads, sessions, iaPending, iaNoRtp, shown, ia>>

ThreadStart(t, time) ==
  /\ Received(time)
  /\ threads' = threads \cup {t}
  /\ Line("thread", time)
  /\ UNCHANGED <<now, events, sessions, iaPending, iaNoRtp, shown, ia>>

ThreadEnd(t, time) ==
  /\ Received(time)
  /\ threads' = threads \ {t}
  /\ Line("thread", time)
  /\ UNCHANGED <<now, events, sessions, iaPending, iaNoRtp, shown, ia>>

Oldest == CHOOSE e \in DOMAIN iaPending : \A f \in DOMAIN iaPending : iaPending[e] <= iaPending[f]

\* Any recording that starts answers the oldest signal, expired or not.
IaMatched ==
  IF DOMAIN iaPending = {} THEN UNCHANGED <<iaPending, ia>>
  ELSE /\ iaPending' = [e \in DOMAIN iaPending \ {Oldest} |-> iaPending[e]]
       /\ ia' = [ia EXCEPT !.matched = @ + 1]

RtpStart(time) ==
  /\ Received(time)
  /\ events' = Noted("rtp_start", time)
  /\ IaMatched
  /\ Line("rtp_start", time)
  /\ UNCHANGED <<now, threads, sessions, iaNoRtp, shown>>

FileOpen(c, time) ==
  /\ Received(time)
  /\ events' = Noted("file_open", time)
  /\ sessions' = sessions \cup {c}
  /\ IaMatched
  /\ Line("file_open", time)
  /\ UNCHANGED <<now, threads, iaNoRtp, shown>>

\* BYE and CLOSE end the session of their channel.
SessionEnd(kind, c, time) ==
  /\ Received(time)
  /\ events' = Noted(kind, time)
  /\ sessions' = sessions \ {c}
  /\ Line(kind, time)
  /\ UNCHANGED <<now, threads, iaPending, iaNoRtp, shown, ia>>

\* A second signal of an extension takes the place of the first.
IaSignal(e, time) ==
  /\ Received(time)
  /\ events' = Noted("smdr", time)
  /\ iaPending' = [f \in DOMAIN iaPending \cup {e} |-> IF f = e THEN time ELSE iaPending[f]]
  /\ ia' = [ia EXCEPT !.seen = @ + 1,
                      !.repeated = IF e \in DOMAIN iaPending THEN @ + 1 ELSE @]
  /\ Line("smdr", time)
  /\ UNCHANGED <<now, threads, sessions, iaNoRtp, shown>>

-----------------------------------------------------------------------------
(* to_dict.                                                                *)

\* Variant: an event at the very edge is dropped.
PrunedEdge(times, cutoff) ==
  LET kept == {i \in DOMAIN times : times[i] > cutoff}
  IN IF kept = {} THEN <<>> ELSE SubSeq(times, CHOOSE i \in kept : \A j \in kept : i <= j, Len(times))

\* _prune: from the head until one is young enough.
Pruned(times, cutoff) ==
  LET kept == {i \in DOMAIN times : times[i] >= cutoff}
  IN IF kept = {} THEN <<>> ELSE SubSeq(times, CHOOSE i \in kept : \A j \in kept : i <= j, Len(times))

Expired == {e \in DOMAIN iaPending : iaPending[e] < now - IaTimeout}

\* Variant: an expired signal is noted and kept.
KeptPending == iaPending

StillPending == [e \in DOMAIN iaPending \ Expired |-> iaPending[e]]

\* prune_all and the counts.  The signals that expire now are appended after the
\* old ones were dropped, in the order of the table.
Show ==
  /\ events' = [k \in Kinds |-> Pruned(events[k], now - Window[k])]
  /\ \E order \in SetToSeqs(Expired) :
       iaNoRtp' = Pruned(iaNoRtp, now - Window["smdr"]) \o [i \in DOMAIN order |-> iaPending[order[i]]]
  /\ iaPending' = StillPending
  /\ ia' = [ia EXCEPT !.expired = @ + Cardinality(Expired)]
  /\ shown' = [counts |-> [k \in Kinds |-> Len(events'[k])], expired |-> Len(iaNoRtp'), at |-> now]
  /\ UNCHANGED <<now, last, threads, sessions, lines>>

\* The dashboard's reset: a new state takes the place of the old.
Reset ==
  /\ Len(lines) < LineBound
  /\ last' = 0
  /\ threads' = {}
  /\ events' = [k \in Kinds |-> <<>>]
  /\ sessions' = {}
  /\ iaPending' = <<>>
  /\ iaNoRtp' = <<>>
  /\ Line("reset", now)
  /\ ia' = [seen |-> 0, repeated |-> 0, matched |-> 0, expired |-> 0]
  /\ UNCHANGED <<now, shown>>

Tick ==
  /\ now < TimeBound
  /\ now' = now + 1
  /\ UNCHANGED <<last, threads, events, sessions, iaPending, iaNoRtp, shown, lines, ia>>

Counted == Kinds \ {"rtp_start", "file_open", "rtp_bye", "file_close"}

Next ==
  \/ \E time \in 0 .. now :
       \/ \E k \in Counted : Count(k, time)
       \/ \E t \in Thread : ThreadStart(t, time) \/ ThreadEnd(t, time)
       \/ RtpStart(time)
       \/ \E c \in Chan :
            \/ FileOpen(c, time)
            \/ \E k \in {"rtp_bye", "file_close"} : SessionEnd(k, c, time)
       \/ \E e \in Ext : IaSignal(e, time)
  \/ Show
  \/ Reset
  \/ Tick

Spec == Init /\ [][Next]_vars

-----------------------------------------------------------------------------

\* What a reader is shown is the number of lines of each kind in its window
\* since the last reset, those of its edge included, whoever read before and whenever
\* (monitor_state.py:159-200): pruning never drops what still counts, and no
\* event that is too old hides behind a younger one.
CountsAreOfWindow ==
  [][Show => \A k \in Kinds :
               shown'.counts[k] =
                 Cardinality({i \in DOMAIN lines :
                                /\ lines[i].kind = k
                                /\ lines[i].time >= now - Window[k]
                                /\ \A j \in i .. Len(lines) : lines[j].kind # "reset"})]_vars

\* Every signal of a call has one fate: it waits, a recording answered it, it
\* expired, or a later one of its extension took its place
\* (monitor_state.py:190-200, 274-286, 311-316, 328-345).
IaAccounted ==
  ia.seen = Cardinality(DOMAIN iaPending) + ia.matched + ia.expired + ia.repeated
=============================================================================
