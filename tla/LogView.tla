------------------------------- MODULE LogView -------------------------------
(***************************************************************************)
(* What the server does with the lines of a followed log, and how the      *)
(* dashboard's viewer follows it: the buffer of the agent's session, cut   *)
(* to its newer half when it is full, the file on disk, and a websocket    *)
(* that looks at the buffer's length twice a second (tcp_server.py,        *)
(* routes/logs.py).  The viewer of the recording log (routes/recordings.py) *)
(* has no answer to a buffer that was cut.                                 *)
(*                                                                         *)
(* Lines are numbered as they are received.                                *)
(***************************************************************************)
EXTENDS Integers, Sequences, SequencesExt

CONSTANTS
  Full,          \* the buffer's limit (1000; 500 for the recording log)
  Kept,          \* what a cut leaves (500; 300)
  LineBound,     \* lines at most
  ReturnBound    \* reconnections of the agent at most

VARIABLES
  received,      \* lines received
  session,       \* the agent has a session
  buffer,        \* its log_buffer
  disk,          \* the file of append_realtime_log
  viewer,        \* where it is, its last_index, the lines it is sending, the length it
                 \* looked at; whether it resets its index after a cut
  shown,         \* what the viewer has sent, history
  returns

vars == <<received, session, buffer, disk, viewer, shown, returns>>

Init ==
  /\ received = 0
  /\ session = TRUE
  /\ buffer = <<>>
  /\ disk = <<>>
  /\ viewer \in [at : {"waiting"}, lastIndex : {0}, lines : {<<>>}, upTo : {0},
                 resets : BOOLEAN]
  /\ shown = <<>>
  /\ returns = 0

Newest(seq, n) == SubSeq(seq, Len(seq) - n + 1, Len(seq))

Cut(seq) == IF Len(seq) > Full THEN Newest(seq, Kept) ELSE seq

\* _handle_log_real: with no session the line goes to the disk only.
Receive ==
  /\ received < LineBound
  /\ received' = received + 1
  /\ buffer' = IF session THEN Cut(Append(buffer, received')) ELSE buffer
  /\ disk' = Append(disk, received')
  /\ UNCHANGED <<session, viewer, shown, returns>>

\* The handler of the agent's connection ends.
Leave ==
  /\ session
  /\ session' = FALSE
  /\ buffer' = <<>>
  /\ UNCHANGED <<received, disk, viewer, shown, returns>>

\* The agent returns, maybe before its old session is gone: a new buffer.
Return ==
  /\ returns < ReturnBound
  /\ returns' = returns + 1
  /\ session' = TRUE
  /\ buffer' = <<>>
  /\ UNCHANGED <<received, disk, viewer, shown>>

\* A buffer shorter than the index was cut: its lines are skipped.
Skipped(view) == [view EXCEPT !.lastIndex = Len(buffer)]

\* websocket_logs after its sleep: nothing without a session.
Look ==
  /\ viewer.at = "waiting"
  /\ session
  /\ \/ /\ Len(buffer) < viewer.lastIndex
        /\ viewer.resets
        /\ viewer' = Skipped(viewer)
     \/ /\ Len(buffer) > viewer.lastIndex
        /\ viewer' = [viewer EXCEPT !.at = "sending", !.upTo = Len(buffer),
                        !.lines = SubSeq(buffer, viewer.lastIndex + 1, Len(buffer))]
  /\ UNCHANGED <<received, session, buffer, disk, shown, returns>>

\* Variant: the index becomes the length the buffer has by then.
LengthNow(view) == Len(buffer)

\* The index becomes the length that was looked at.
NextIndex(view) == view.upTo

\* The lines are sent, with an await for each.
Show ==
  /\ viewer.at = "sending"
  /\ IF viewer.lines = <<>>
     THEN /\ viewer' = [viewer EXCEPT !.at = "waiting", !.lastIndex = NextIndex(viewer),
                          !.upTo = 0]
          /\ shown' = shown
     ELSE /\ viewer' = [viewer EXCEPT !.lines = Tail(@)]
          /\ shown' = Append(shown, Head(viewer.lines))
  /\ UNCHANGED <<received, session, buffer, disk, returns>>

Next == Receive \/ Leave \/ Return \/ Look \/ Show

Fairness == WF_vars(Look) /\ WF_vars(Show)

Spec == Init /\ [][Next]_vars /\ Fairness

-----------------------------------------------------------------------------

Increasing(seq) == \A i, j \in DOMAIN seq : i < j => seq[i] < seq[j]

\* The viewer shows no line twice and none before an older one, however the
\* buffer is cut or replaced between its looks and while it sends
\* (routes/logs.py:196-218).
ShownOnce == Increasing(shown \o viewer.lines)

\* The lines of one session are all shown in the end as long as they fit the
\* buffer: only a cut or a new session makes the viewer skip.
ShownInTheEnd ==
  \A n \in 1 .. Full :
    (received >= n) ~> (n \in ToSet(shown) \/ received > Full \/ returns > 0 \/ ~session)
=============================================================================
