------------------------------ MODULE AgentsTab -------------------------------
(***************************************************************************)
(* The tab of the agents (gui/tabs/agents_tab.py): the list of agents, the *)
(* log of the selected one, and the polling of its analysis.  The handlers *)
(* and timers of the window run one at a time; every request to the        *)
(* dashboard is a thread of its own, and so is the connection the log      *)
(* comes over: what they change and when is the matter here, not what they *)
(* show (an analysis is shown whatever agent or folder it was asked for).  *)
(***************************************************************************)
EXTENDS Integers, Sequences, FiniteSets, SequencesExt

CONSTANTS Agent, RequestBound

None == "none"
Timer == 1 .. 5
NoTimer == 0

VARIABLES
  tree,        \* those in the list of the tab
  selected,    \* _selected_agent
  streaming,   \* _is_streaming
  streams,     \* the agents whose log the server has been asked to stream
  pending,     \* timer -> the agent it polls, or None
  afterId,     \* _analysis_after_id; NoTimer too when that timer is not pending any more
  requests,    \* the threads that talk to the dashboard, in the order of their start
  links,       \* the threads of _ws_loop: [agent, at, id]; `at`: "reads", "cancels", "clears"
  late         \* what has come too late, history

vars == <<tree, selected, streaming, streams, pending, afterId, requests, links,
          late>>
pollVars == <<pending, afterId>>

Init ==
  /\ tree = {}
  /\ selected = None /\ streaming = FALSE
  /\ streams = {}
  /\ pending = [i \in Timer |-> None]
  /\ afterId = NoTimer
  /\ requests = <<>>
  /\ links = {}
  /\ late = {}

Asked(kind, agent) == [kind |-> kind, agent |-> agent, answered |-> FALSE]
Room == Len(requests) < RequestBound

-----------------------------------------------------------------------------
(* The polling of the analysis.                                            *)

\* _stop_analysis_polling.
Cancelled(id) == IF id = NoTimer THEN pending ELSE [pending EXCEPT ![id] = None]

\* _start_analysis_polling, or the next turn of _analysis_poll_tick, after what was
\* pending has become p.
Poll(agent, p) ==
  LET i == CHOOSE i \in Timer : p[i] = None /\ \A w \in links : w.id # i
  IN pending' = [p EXCEPT ![i] = agent] /\ afterId' = i

\* Variant: a poll that is started does not end the one before.
PollAnyway(agent) == Poll(agent, pending)
StartPolling(agent) == Poll(agent, Cancelled(afterId))

StopPolling == pending' = Cancelled(afterId) /\ afterId' = NoTimer

\* _analysis_poll_tick.
Tick(i) ==
  /\ pending[i] # None
  /\ LET rest == [pending EXCEPT ![i] = None]
     IN IF selected = pending[i]
        THEN Poll(selected, rest)
        ELSE pending' = rest /\ afterId' = IF afterId = i THEN NoTimer ELSE afterId
  /\ UNCHANGED <<requests, tree, selected, streaming, streams, links, late>>

\* _on_folder_changed: the server is told to begin anew, and then polled.
ChangeFolder ==
  /\ selected # None /\ Room
  /\ requests' = Append(requests, Asked("reset", selected))
  /\ StopPolling
  /\ UNCHANGED <<tree, selected, streaming, streams, links, late>>

-----------------------------------------------------------------------------
(* The list.                                                               *)

\* _refresh_agents, by its timer, and _manual_refresh.
Refresh ==
  /\ Room
  /\ ~\E i \in DOMAIN requests : requests[i].kind = "list"    \* bound
  /\ requests' = Append(requests, Asked("list", None))
  /\ UNCHANGED <<tree, selected, streaming, streams, pollVars, links, late>>

\* _on_agent_selected: the streams of the agent before and of this one are stopped, the
\* connection is made anew, and the polling started.  The thread of the connection
\* before is given two seconds; after that it takes the new event for its own.
SelectAgent(a) ==
  /\ a \in tree /\ a # selected
  /\ Len(requests) < RequestBound - 1
  /\ selected' = a /\ streaming' = FALSE
  /\ requests' = requests
       \o (IF selected = None THEN <<>> ELSE <<Asked("stop", selected)>>)
       \o <<Asked("stop", a)>>
  /\ StartPolling(a)
  /\ \E outlived \in SUBSET links :
       /\ Cardinality(outlived) < 2
       /\ links' = outlived \cup {[agent |-> a, at |-> "reads", id |-> NoTimer]}
       /\ late' = IF outlived = {} THEN late ELSE late \cup {"link"}
  /\ UNCHANGED <<tree, streams>>

-----------------------------------------------------------------------------
(* The log.                                                                *)

\* _start_realtime and _start_log_stream.
StartRealtime ==
  /\ selected # None /\ ~streaming /\ Room
  /\ streaming' = TRUE
  /\ requests' = Append(requests, Asked("start", selected))
  /\ UNCHANGED <<tree, selected, streams, pollVars, links, late>>

\* _stop_realtime, also when the mode is changed, and _stop_log_stream: the polling of
\* the analysis ends too.
StopRealtime ==
  /\ selected # None /\ streaming /\ Room
  /\ streaming' = FALSE
  /\ requests' = Append(requests, Asked("stop", selected))
  /\ StopPolling
  /\ UNCHANGED <<tree, selected, streams, links, late>>

\* _fetch_history.
FetchHistory ==
  /\ selected # None /\ Room
  /\ ~\E i \in DOMAIN requests : requests[i].kind = "history"    \* its button is disabled
  /\ requests' = Append(requests, Asked("history", selected))
  /\ UNCHANGED <<tree, selected, streaming, streams, pollVars, links, late>>

\* _ws_loop ends by itself: from its own thread it stops the stream, and the polling, in
\* two steps, between which the window goes on.
LinkEnds(w) ==
  /\ w.at = "reads" /\ Room
  /\ links' = (links \ {w}) \cup {[w EXCEPT !.at = "cancels", !.id = afterId]}
  /\ UNCHANGED <<tree, selected, streaming, streams, pollVars, requests, late>>

LinkCancels(w) ==
  /\ w.at = "cancels"
  /\ pending' = Cancelled(w.id)
  /\ afterId' = IF w.id = afterId THEN NoTimer ELSE afterId
  /\ links' = (links \ {w}) \cup {[w EXCEPT !.at = "clears"]}
  /\ UNCHANGED <<tree, selected, streaming, streams, requests, late>>

LinkClears(w) ==
  /\ w.at = "clears" /\ Room
  /\ links' = links \ {w}
  /\ IF w.id # NoTimer /\ afterId # NoTimer
     THEN afterId' = NoTimer /\ late' = late \cup {"timer"}
     ELSE UNCHANGED <<afterId, late>>
  /\ requests' = Append(requests, Asked("stop", w.agent))
  /\ UNCHANGED <<tree, selected, streaming, streams, pending>>

-----------------------------------------------------------------------------
(* The requests.                                                           *)

OfStream(r) == r.kind \in {"start", "stop"}

\* The dashboard serves a request: the threads are not in any order.
Serve(i) ==
  LET r == requests[i]
  IN /\ i \in DOMAIN requests /\ ~r.answered
     /\ streams' = CASE r.kind = "start" -> streams \cup {r.agent}
                     [] r.kind = "stop" -> streams \ {r.agent}
                     [] OTHER -> streams
     /\ requests' = IF OfStream(r) THEN RemoveAt(requests, i)
                    ELSE [requests EXCEPT ![i].answered = TRUE]
     /\ late' = IF OfStream(r) /\ \E j \in 1 .. i - 1 : OfStream(requests[j]) /\ requests[j].agent = r.agent
                THEN late \cup {"stream"} ELSE late
     /\ UNCHANGED <<tree, selected, streaming, pollVars, links>>

\* Or it does not: nobody is told.
Fail(i) ==
  /\ i \in DOMAIN requests /\ ~requests[i].answered
  /\ requests' = IF requests[i].kind = "reset" THEN [requests EXCEPT ![i].answered = TRUE]
                 ELSE RemoveAt(requests, i)
  /\ late' = IF OfStream(requests[i]) THEN late \cup {"stream"} ELSE late
  /\ UNCHANGED <<tree, selected, streaming, streams, pollVars, links>>

\* The answer comes to the window: the tree is filled anew,
\* the polling begun after a reset.
Answered(i) ==
  LET r == requests[i]
  IN /\ i \in DOMAIN requests /\ r.answered
     /\ tree' \in IF r.kind = "list" THEN SUBSET Agent ELSE {tree}
     /\ IF r.kind = "reset"
        THEN /\ StartPolling(r.agent)
             /\ late' = IF r.agent # selected THEN late \cup {"reset"} ELSE late
        ELSE UNCHANGED <<pollVars, late>>
     /\ requests' = RemoveAt(requests, i)
     /\ UNCHANGED <<selected, streaming, streams, links>>

Next ==
  \/ Refresh \/ ChangeFolder \/ StartRealtime \/ StopRealtime \/ FetchHistory
  \/ \E a \in Agent : SelectAgent(a)
  \/ \E i \in Timer : Tick(i)
  \/ \E w \in links : LinkEnds(w) \/ LinkCancels(w) \/ LinkClears(w)
  \/ \E i \in 1 .. RequestBound : Serve(i) \/ Fail(i) \/ Answered(i)

Spec == Init /\ [][Next]_vars

-----------------------------------------------------------------------------

\* The analysis is polled by one timer at most, that of the selected agent, which
\* can be cancelled; and the log of an agent is streamed only while the tab shows that it
\* is, or its stop is under way: unless a thread ended late, after the window had gone on
\* (agents_tab.py:641-767, 882-928, 965-1020).
OnlyWhatIsShown ==
  late = {} =>
    /\ \A i \in Timer : pending[i] # None => i = afterId /\ pending[i] = selected
    /\ \A a \in streams :
         \/ a = selected /\ streaming
         \/ \E i \in DOMAIN requests : requests[i].kind = "stop" /\ requests[i].agent = a
=============================================================================
