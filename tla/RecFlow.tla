------------------------------ MODULE RecFlow -------------------------------
(***************************************************************************)
(* The recording-analysis pipeline between the command server and its      *)
(* agents.                                                                 *)
(*                                                                         *)
(* An agent's RecordingWatcher reports one recording at a time and then    *)
(* waits, at most 90 s, for a NEXT.  The server answers every report with  *)
(* an upload request and counts it in _rec_in_flight; the slot comes back  *)
(* when the upload fails or when the STT task of the upload ends, and each *)
(* freed slot lets _try_dispatch_next hand out NEXTs to the agents of      *)
(* _rec_waiting_agents.                                                    *)
(*                                                                         *)
(* A connection is a pair <<agent, n>>, the n-th the agent opens.  The two *)
(* ends leave it independently, and the server's handler of an old         *)
(* connection may outlive the next one.  A Job is one upload, from the     *)
(* request to the return of its slot.                                      *)
(***************************************************************************)
EXTENDS Integers, FiniteSets, SequencesExt

CONSTANTS
  Agent,        \* agent ids
  File,         \* the recordings of the day at each agent
  Job,          \* uploads: bounds how many are open or leaked at a time
  MaxConn,      \* bounds the connections an agent opens
  MaxValues,    \* the values an operator sets _rec_max_concurrent to
  InitialMax,   \* the value the server starts with
  QueueBound,   \* bounds the watcher's event queue
  None,         \* no upload, no recording, no connection
  Commands,     \* the commands operators send: "START", "STOP"
  CommandBound  \* bounds the commands they send to an agent

ASSUME RecFlowAssumption ==
  /\ IsFiniteSet(Job)
  /\ IsFiniteSet(File)
  /\ MaxConn \in Nat \ {0}
  /\ None \notin Job \union File \union (Agent \X (1..MaxConn))
  /\ MaxValues \subseteq Int
  /\ InitialMax \in 1..10
  /\ QueueBound \in Nat
  /\ Commands \subseteq {"START", "STOP"}
  /\ CommandBound \in Nat

Conn == Agent \X (1..MaxConn)

NoConn == 0                            \* no session, or no link

Start == [type |-> "START"]
Stop == [type |-> "STOP"]
NextOne == [type |-> "NEXT"]
UploadReq(j) == [type |-> "UPLOAD_REQ", job |-> j]
SttResult(f) == [type |-> "STT_RESULT", file |-> f]
Analysis(f) == [type |-> "ANALYSIS", file |-> f]
UploadAck(j, ok) == [type |-> "UPLOAD_ACK", job |-> j, ok |-> ok]

ToAgentMsg ==
  {Start, Stop, NextOne} \union {UploadReq(j) : j \in Job}
                         \union {SttResult(f) : f \in File}
ToServerMsg ==
  {Analysis(f) : f \in File}
    \union {UploadAck(j, ok) : j \in Job, ok \in BOOLEAN}

VARIABLES
  \* --- the server -------------------------------------------------------
  inFlight,     \* TCPServer._rec_in_flight
  waiting,      \* TCPServer._rec_waiting_agents
  maxConc,      \* TCPServer._rec_max_concurrent
  gui,          \* set_rec_max_concurrent: "idle", or in its dispatch loop
  session,      \* SessionManager._sessions: the connection of the session
  handler,      \* per connection, where its _handle_client coroutine is
  phase,        \* per job: free, asked, requested, stt, final
  jobConn,      \* per job, the connection its request was written to
  jobFile,      \* per job, the recording
  \* --- the agent --------------------------------------------------------
  made,         \* connections opened so far
  commands,     \* operators' commands sent to it so far
  link,         \* the connection the TCPClient believes it has
  uploading,    \* the upload its receive loop is busy with
  watcher,      \* RecordingWatcher._consume: off, get, wait, check
  current,      \* the recording _consume took from its queue
  queue,        \* RecordingWatcher._event_queue
  processed,    \* RecordingWatcher._processed
  nextEvent,    \* RecordingWatcher._next_event
  firstDone,    \* RecordingWatcher._first_done
  \* --- the agent's database and the network -----------------------------
  analyzed,     \* recordings with a row in rec_transcript
  toAgent,      \* packets on the agent's current connection
  toServer      \* per connection, packets the server has not read

serverVars == <<inFlight, waiting, maxConc, gui, session, handler, phase,
                jobConn, jobFile>>
watcherVars == <<watcher, current, queue, processed, nextEvent, firstDone>>
agentVars == <<made, commands, link, uploading, watcherVars, analyzed>>
vars == <<serverVars, agentVars, toAgent, toServer>>

(* The values the variables take: _rec_max_concurrent is 1 to 10           *)
(* (tcp_server.py:157), an upload under way has a connection and a         *)
(* recording, a watcher that waits or checks has a recording in hand.      *)
TypeOK ==
  /\ inFlight \in Nat
  /\ waiting \in Seq(Agent)
  /\ maxConc \in 1..10
  /\ gui \in {"idle", "dispatch"}
  /\ commands \in [Agent -> 0..CommandBound]
  /\ session \in [Agent -> 0..MaxConn]
  /\ handler \in [Conn -> {"none", "recv", "requesting", "dispatch", "ended"}]
  /\ phase \in [Job -> {"free", "asked", "requested", "stt", "final"}]
  /\ jobConn \in [Job -> Conn \union {None}]
  /\ jobFile \in [Job -> File \union {None}]
  /\ made \in [Agent -> 0..MaxConn]
  /\ link \in [Agent -> 0..MaxConn]
  /\ uploading \in [Agent -> Job \union {None}]
  /\ watcher \in [Agent -> {"off", "get", "wait", "check"}]
  /\ current \in [Agent -> File \union {None}]
  /\ queue \in [Agent -> Seq(File)]
  /\ processed \in [Agent -> SUBSET File]
  /\ nextEvent \in [Agent -> BOOLEAN]
  /\ firstDone \in [Agent -> BOOLEAN]
  /\ analyzed \in [Agent -> SUBSET File]
  /\ toAgent \in [Agent -> Seq(ToAgentMsg)]
  /\ toServer \in [Conn -> Seq(ToServerMsg)]
  /\ \A j \in Job :
       phase[j] # "free" => jobConn[j] \in Conn /\ jobFile[j] \in File
  /\ \A a \in Agent : watcher[a] \in {"wait", "check"} => current[a] \in File

Init ==
  /\ inFlight = 0
  /\ waiting = <<>>
  /\ maxConc = InitialMax
  /\ gui = "idle"
  /\ commands = [a \in Agent |-> 0]
  /\ session = [a \in Agent |-> NoConn]
  /\ handler = [c \in Conn |-> "none"]
  /\ phase = [j \in Job |-> "free"]
  /\ jobConn = [j \in Job |-> None]
  /\ jobFile = [j \in Job |-> None]
  /\ made = [a \in Agent |-> 0]
  /\ link = [a \in Agent |-> NoConn]
  /\ uploading = [a \in Agent |-> None]
  /\ watcher = [a \in Agent |-> "off"]
  /\ current = [a \in Agent |-> None]
  /\ queue = [a \in Agent |-> <<>>]
  /\ processed = [a \in Agent |-> {}]
  /\ nextEvent = [a \in Agent |-> FALSE]
  /\ firstDone = [a \in Agent |-> FALSE]
  /\ analyzed = [a \in Agent |-> {}]
  /\ toAgent = [a \in Agent |-> <<>>]
  /\ toServer = [c \in Conn |-> <<>>]

-----------------------------------------------------------------------------
(***************************************************************************)
(* Packets.  A packet written to a connection the other end has left is    *)
(* lost, whether or not the writer has noticed.  (An ended handler closes  *)
(* its writer a little later than it lets go of its session, so a write to *)
(* it can still pass.)                                                     *)
(***************************************************************************)
Send(a, n, msg) ==                      \* server to agent, on <<a, n>>
  toAgent' = IF link[a] = n THEN [toAgent EXCEPT ![a] = Append(@, msg)]
                            ELSE toAgent

Reply(a, msg) ==                        \* agent to server, rest of toServer
  LET c == <<a, link[a]>> IN
  IF link[a] # NoConn /\ handler[c] # "ended"
  THEN [toServer EXCEPT ![c] = Append(@, msg)]
  ELSE toServer

(***************************************************************************)
(* The finally block of _handle_client for connection c = <<a, n>>, with w *)
(* the waiting list at that moment: only the handler whose session is the  *)
(* current one removes it, and with it one entry of the waiting list.      *)
(***************************************************************************)
EndHandler(c, w) ==
  LET a == c[1] IN
  /\ handler' = [handler EXCEPT ![c] = "ended"]
  /\ toServer' = [toServer EXCEPT ![c] = <<>>]
  /\ IF session[a] = c[2]
     THEN /\ session' = [session EXCEPT ![a] = NoConn]
          /\ waiting' = RemoveFirst(w, a)
     ELSE /\ waiting' = w
          /\ UNCHANGED session

\* The handler leaves its receive loop: end of stream, 90 s of silence.
HandlerEnds(c) ==
  /\ handler[c] = "recv"
  /\ EndHandler(c, waiting)
  /\ UNCHANGED <<inFlight, maxConc, gui, phase, jobConn, jobFile, agentVars,
                 toAgent>>

-----------------------------------------------------------------------------
(***************************************************************************)
(* The server's handlers.                                                  *)
(***************************************************************************)
Received(c) == handler[c] = "recv" /\ toServer[c] # <<>>

\* _handle_rec_analysis up to its first await.  The record it stores is
\* new, so _should_request_upload always holds.
HandleAnalysis(c) ==
  /\ Received(c)
  /\ \E f \in File, j \in Job :
       /\ Head(toServer[c]) = Analysis(f)
       /\ phase[j] = "free"
       /\ phase' = [phase EXCEPT ![j] = "asked"]
       /\ jobConn' = [jobConn EXCEPT ![j] = c]
       /\ jobFile' = [jobFile EXCEPT ![j] = f]
       /\ Send(c[1], c[2], UploadReq(j))
  /\ handler' = [handler EXCEPT ![c] = "requesting"]
  /\ toServer' = [toServer EXCEPT ![c] = Tail(@)]
  /\ UNCHANGED <<inFlight, waiting, maxConc, gui, session, agentVars>>

\* The upload takes its slot after the drain of the request.
UncountedTaken == inFlight              \* variant: the increment forgotten

Taken == inFlight + 1

CountUpload(c) ==
  /\ handler[c] = "requesting"
  /\ \E j \in Job :
       /\ phase[j] = "asked" /\ jobConn[j] = c
       /\ phase' = [phase EXCEPT ![j] = "requested"]
  /\ inFlight' = Taken
  /\ waiting' = Append(waiting, c[1])
  /\ handler' = [handler EXCEPT ![c] = "recv"]
  /\ UNCHANGED <<maxConc, gui, session, jobConn, jobFile, agentVars, toAgent,
                 toServer>>

\* The job is over: its slot was given back, or never taken.
Forget(j) ==
  /\ phase' = [phase EXCEPT ![j] = "free"]
  /\ jobConn' = [jobConn EXCEPT ![j] = None]
  /\ jobFile' = [jobFile EXCEPT ![j] = None]

\* That drain raises: the agent is gone, and the handler with it.
RequestLost(c) ==
  /\ handler[c] = "requesting"
  /\ link[c[1]] # c[2]
  /\ \E j \in Job : phase[j] = "asked" /\ jobConn[j] = c /\ Forget(j)
  /\ EndHandler(c, waiting)
  /\ UNCHANGED <<inFlight, maxConc, gui, agentVars, toAgent>>

\* A slot comes back; the counter never goes below zero.
KeptFreed == inFlight                   \* variant: the slot never returned

Freed == IF inFlight > 0 THEN inFlight - 1 ELSE inFlight

\* _handle_rec_upload_ack.  A failed upload, or one whose WAV is not found
\* in the storage, gives its slot back here; otherwise the STT task keeps it.
HandleUploadAck(c) ==
  /\ Received(c)
  /\ \E j \in Job :
       \/ /\ Head(toServer[c]) = UploadAck(j, TRUE)
          /\ phase' = [phase EXCEPT ![j] = "stt"]
          /\ UNCHANGED <<inFlight, jobConn, jobFile>>
       \/ /\ Head(toServer[c]) = UploadAck(j, FALSE)
          /\ Forget(j)
          /\ inFlight' = Freed
  /\ handler' = [handler EXCEPT ![c] = "dispatch"]
  /\ toServer' = [toServer EXCEPT ![c] = Tail(@)]
  /\ UNCHANGED <<waiting, maxConc, gui, session, agentVars, toAgent>>

\* _run_stt_and_finalize: the result, if there is one, goes to the writer
\* of the connection of the upload; then the slot comes back.
FinishStt(j) ==
  /\ phase[j] = "stt"
  /\ phase' = [phase EXCEPT ![j] = "final"]
  /\ inFlight' = Freed
  /\ \/ Send(jobConn[j][1], jobConn[j][2], SttResult(jobFile[j]))
     \/ UNCHANGED toAgent
  /\ UNCHANGED <<waiting, maxConc, gui, session, handler, jobConn, jobFile,
                 agentVars, toServer>>

\* set_rec_max_concurrent, called by the dashboard.
Clamp(v) == IF v < 1 THEN 1 ELSE IF v > 10 THEN 10 ELSE v

SetMaxConcurrent ==
  /\ gui = "idle"
  /\ \E v \in MaxValues : maxConc' = Clamp(v)
  /\ gui' = "dispatch"
  /\ UNCHANGED <<inFlight, waiting, session, handler, phase, jobConn, jobFile,
                 agentVars, toAgent, toServer>>

-----------------------------------------------------------------------------
(***************************************************************************)
(* _try_dispatch_next, one iteration of its loop per step: other tasks run *)
(* while a NEXT drains.  The loop runs in a connection's handler, in an    *)
(* STT task that has given its slot back, and for the dashboard.           *)
(***************************************************************************)
SpareSlotFree ==                        \* variant: off by one
  waiting # <<>> /\ inFlight < maxConc - 1

SlotFree == waiting # <<>> /\ inFlight < maxConc

SendNext ==
  LET a == Head(waiting) IN
  /\ SlotFree
  /\ waiting' = Tail(waiting)
  /\ IF session[a] = NoConn THEN UNCHANGED toAgent
                            ELSE Send(a, session[a], NextOne)

\* The first waiting agent has a session but its connection is gone: the
\* drain may raise, out of the loop and out of the loop's caller.
SendRaises ==
  LET a == Head(waiting) IN
  /\ SlotFree
  /\ session[a] # NoConn
  /\ link[a] # session[a]
  /\ UNCHANGED toAgent

DispatchInHandler(c) ==
  /\ handler[c] = "dispatch"
  /\ \/ /\ SendNext
        /\ UNCHANGED <<session, handler, toServer>>
     \/ /\ SendRaises
        /\ EndHandler(c, Tail(waiting))
     \/ /\ ~SlotFree
        /\ handler' = [handler EXCEPT ![c] = "recv"]
        /\ UNCHANGED <<waiting, session, toAgent, toServer>>
  /\ UNCHANGED <<inFlight, maxConc, gui, phase, jobConn, jobFile, agentVars>>

DispatchInTask(j) ==
  /\ phase[j] = "final"
  /\ \/ /\ SendNext
        /\ UNCHANGED <<phase, jobConn, jobFile>>
     \/ /\ SendRaises
        /\ waiting' = Tail(waiting)
        /\ Forget(j)
     \/ /\ ~SlotFree
        /\ Forget(j)
        /\ UNCHANGED <<waiting, toAgent>>
  /\ UNCHANGED <<inFlight, maxConc, gui, session, handler, agentVars, toServer>>

DispatchInGui ==
  /\ gui = "dispatch"
  /\ \/ /\ SendNext
        /\ UNCHANGED gui
     \/ /\ SendRaises
        /\ waiting' = Tail(waiting)
        /\ gui' = "idle"
     \/ /\ ~SlotFree
        /\ gui' = "idle"
        /\ UNCHANGED <<waiting, toAgent>>
  /\ UNCHANGED <<inFlight, maxConc, session, handler, phase, jobConn, jobFile,
                 agentVars, toServer>>

\* send_rec_command from the dashboard or from Telegram.
SendCommand(a) ==
  /\ session[a] # NoConn
  /\ commands[a] < CommandBound
  /\ commands' = [commands EXCEPT ![a] = @ + 1]
  /\ \E cmd \in Commands : Send(a, session[a], [type |-> cmd])
  /\ UNCHANGED <<serverVars, made, link, uploading, watcherVars, analyzed,
                 toServer>>

-----------------------------------------------------------------------------
(***************************************************************************)
(* The agent's connection.                                                 *)
(***************************************************************************)
\* TCPClient.connect and _handle_auth: the new session replaces an old one.
Connect(a) ==
  /\ link[a] = NoConn
  /\ made[a] < MaxConn
  /\ LET n == made[a] + 1 IN
       /\ made' = [made EXCEPT ![a] = n]
       /\ link' = [link EXCEPT ![a] = n]
       /\ session' = [session EXCEPT ![a] = n]
       /\ handler' = [handler EXCEPT ![<<a, n>>] = "recv"]
  /\ UNCHANGED <<inFlight, waiting, maxConc, gui, phase, jobConn, jobFile,
                 commands, uploading, watcherVars, analyzed, toAgent, toServer>>

\* The receive loop ends by itself: end of stream, or no packet for a while.
\* The runtime then only reconnects; the watcher keeps running.
ReceiveLoopEnds(a) ==
  /\ link[a] # NoConn
  /\ uploading[a] = None
  /\ link' = [link EXCEPT ![a] = NoConn]
  /\ toAgent' = [toAgent EXCEPT ![a] = <<>>]
  /\ UNCHANGED <<serverVars, made, commands, uploading, watcherVars, analyzed,
                 toServer>>

\* _stop_watcher: the watcher object and what it remembers are gone.
StopWatcher(a) ==
  /\ watcher' = [watcher EXCEPT ![a] = "off"]
  /\ current' = [current EXCEPT ![a] = None]
  /\ queue' = [queue EXCEPT ![a] = <<>>]
  /\ processed' = [processed EXCEPT ![a] = {}]
  /\ nextEvent' = [nextEvent EXCEPT ![a] = FALSE]
  /\ firstDone' = [firstDone EXCEPT ![a] = FALSE]

\* A heartbeat fails: close_on_error cancels the receive loop, with the
\* upload in it, and on_connection_lost stops the watcher.
HeartbeatFails(a) ==
  /\ link[a] # NoConn
  /\ link' = [link EXCEPT ![a] = NoConn]
  /\ uploading' = [uploading EXCEPT ![a] = None]
  /\ toAgent' = [toAgent EXCEPT ![a] = <<>>]
  /\ StopWatcher(a)
  /\ UNCHANGED <<serverVars, made, commands, analyzed, toServer>>

-----------------------------------------------------------------------------
(***************************************************************************)
(* The agent's receive loop: it awaits each handler, so nothing else is    *)
(* read while an upload runs.                                              *)
(***************************************************************************)
ReadPacket(a, msg) ==
  /\ link[a] # NoConn
  /\ uploading[a] = None
  /\ toAgent[a] # <<>>
  /\ Head(toAgent[a]) = msg
  /\ toAgent' = [toAgent EXCEPT ![a] = Tail(@)]
  /\ UNCHANGED <<serverVars, made, commands, link, toServer>>

HandleStart(a) ==
  /\ ReadPacket(a, Start)
  /\ IF watcher[a] = "off"
     THEN watcher' = [watcher EXCEPT ![a] = "get"]
     ELSE UNCHANGED watcher
  /\ UNCHANGED <<uploading, current, queue, processed, nextEvent, firstDone,
                 analyzed>>

HandleStop(a) ==
  /\ ReadPacket(a, Stop)
  /\ StopWatcher(a)
  /\ UNCHANGED <<uploading, analyzed>>

\* resume_next, ignored when no watcher runs.
HandleNext(a) ==
  /\ ReadPacket(a, NextOne)
  /\ nextEvent' = [nextEvent EXCEPT ![a] = watcher[a] # "off"]
  /\ UNCHANGED <<uploading, watcher, current, queue, processed, firstDone,
                 analyzed>>

HandleUploadReq(a) ==
  /\ \E j \in Job : /\ ReadPacket(a, UploadReq(j))
                    /\ uploading' = [uploading EXCEPT ![a] = j]
  /\ UNCHANGED <<watcherVars, analyzed>>

SilentFailure(a) ==                     \* variant: a failure not acknowledged
  /\ uploading[a] # None
  /\ toServer' \in {toServer, Reply(a, UploadAck(uploading[a], TRUE))}
  /\ uploading' = [uploading EXCEPT ![a] = None]
  /\ UNCHANGED <<serverVars, made, commands, link, watcherVars, analyzed,
                 toAgent>>

\* The upload ends, or its file was not found; the acknowledgement says so.
FinishUpload(a) ==
  /\ uploading[a] # None
  /\ \E ok \in BOOLEAN : toServer' = Reply(a, UploadAck(uploading[a], ok))
  /\ uploading' = [uploading EXCEPT ![a] = None]
  /\ UNCHANGED <<serverVars, made, commands, link, watcherVars, analyzed,
                 toAgent>>

\* handle_stt_result: the rows are saved, unless the database fails.
HandleSttResult(a) ==
  /\ \E f \in File : /\ ReadPacket(a, SttResult(f))
                     /\ \/ analyzed' = [analyzed EXCEPT ![a] = @ \union {f}]
                        \/ UNCHANGED analyzed
  /\ UNCHANGED <<uploading, watcherVars>>

-----------------------------------------------------------------------------
(***************************************************************************)
(* The agent's RecordingWatcher.                                           *)
(***************************************************************************)
\* _fetch_and_enqueue: what is recorded by now and found on the disk, not
\* analyzed and not processed, in the order the query happens to give, even
\* when it is in the queue already.
Poll(a) ==
  /\ watcher[a] # "off"
  /\ \E found \in SUBSET ((File \ analyzed[a]) \ processed[a]) :
       /\ Len(queue[a]) + Cardinality(found) <= QueueBound
       /\ \E s \in SetToSeqs(found) : queue' = [queue EXCEPT ![a] = @ \o s]
  /\ UNCHANGED <<serverVars, made, commands, link, uploading, watcher, current,
                 processed, nextEvent, firstDone, analyzed, toAgent, toServer>>

\* The consumer takes a recording, skips one it has processed, and from the
\* second one on clears the event and waits for the server's NEXT.
NeverSeen(a, f) == FALSE                \* variant: duplicates not skipped

Seen(a, f) == f \in processed[a]

TakeRecording(a) ==
  /\ watcher[a] = "get"
  /\ queue[a] # <<>>
  /\ queue' = [queue EXCEPT ![a] = Tail(@)]
  /\ LET f == Head(queue[a]) IN
     \/ /\ Seen(a, f)
        /\ UNCHANGED <<watcher, current, nextEvent>>
     \/ /\ ~Seen(a, f)
        /\ current' = [current EXCEPT ![a] = f]
        /\ watcher' = [watcher EXCEPT ![a] = IF firstDone[a] THEN "wait"
                                                             ELSE "check"]
        /\ nextEvent' = [nextEvent EXCEPT ![a] = ~firstDone[a] /\ @]
  /\ UNCHANGED <<serverVars, made, commands, link, uploading, processed,
                 firstDone, analyzed, toAgent, toServer>>

ResumeAfterWait(a) ==
  /\ watcher[a] = "wait"
  /\ watcher' = [watcher EXCEPT ![a] = "check"]
  /\ UNCHANGED <<serverVars, made, commands, link, uploading, current, queue,
                 processed, nextEvent, firstDone, analyzed, toAgent, toServer>>

ResumeOnNext(a) == nextEvent[a] /\ ResumeAfterWait(a)

NoTimeout(a) == FALSE                   \* variant: a wait without timeout

\* No NEXT for 90 s: the watcher goes on by itself.
ResumeOnTimeout(a) == ~nextEvent[a] /\ ResumeAfterWait(a)

\* The file is gone, filtered (too small, too short), or reported; a report
\* is dropped when the client is not connected.
CheckRecording(a) ==
  /\ watcher[a] = "check"
  /\ watcher' = [watcher EXCEPT ![a] = "get"]
  /\ current' = [current EXCEPT ![a] = None]
  /\ \/ UNCHANGED <<processed, firstDone, toServer>>
     \/ /\ processed' = [processed EXCEPT ![a] = @ \union {current[a]}]
        /\ UNCHANGED <<firstDone, toServer>>
     \/ /\ processed' = [processed EXCEPT ![a] = @ \union {current[a]}]
        /\ firstDone' = [firstDone EXCEPT ![a] = TRUE]
        /\ toServer' = Reply(a, Analysis(current[a]))
  /\ UNCHANGED <<serverVars, made, commands, link, uploading, queue, nextEvent,
                 analyzed, toAgent>>

-----------------------------------------------------------------------------
Handle(c) ==
  \/ HandleAnalysis(c) \/ CountUpload(c) \/ RequestLost(c)
  \/ HandleUploadAck(c) \/ DispatchInHandler(c)

Read(a) ==
  \/ HandleStart(a) \/ HandleStop(a) \/ HandleNext(a)
  \/ HandleUploadReq(a) \/ HandleSttResult(a)

Consume(a) ==
  TakeRecording(a) \/ ResumeOnNext(a) \/ ResumeOnTimeout(a) \/ CheckRecording(a)

Next ==
  \/ \E c \in Conn : Handle(c) \/ HandlerEnds(c)
  \/ \E j \in Job : FinishStt(j) \/ DispatchInTask(j)
  \/ SetMaxConcurrent \/ DispatchInGui
  \/ \E a \in Agent :
       \/ SendCommand(a)
       \/ Connect(a) \/ ReceiveLoopEnds(a) \/ HeartbeatFails(a)
       \/ Read(a) \/ FinishUpload(a) \/ Poll(a) \/ Consume(a)

Spec == Init /\ [][Next]_vars

(***************************************************************************)
(* Every coroutine that can run is eventually scheduled, an upload and an  *)
(* STT task end (both have timeouts), the 90 s timer fires, the server's   *)
(* receive loop gives up a connection the agent has left.  Nothing is      *)
(* assumed of operators, of the recorder or of the network.                *)
(***************************************************************************)
FairSpec ==
  /\ Spec
  /\ \A c \in Conn : WF_vars(Handle(c))
  /\ \A j \in Job : WF_vars(FinishStt(j)) /\ WF_vars(DispatchInTask(j))
  /\ WF_vars(DispatchInGui)
  /\ \A a \in Agent : /\ WF_vars(Read(a)) /\ WF_vars(FinishUpload(a))
                      /\ WF_vars(Consume(a))
  /\ \A c \in Conn : WF_vars(link[c[1]] # c[2] /\ HandlerEnds(c))

-----------------------------------------------------------------------------
(***************************************************************************)
(* What the pipeline keeps, whatever connections are lost.                 *)
(***************************************************************************)
\* The uploads that hold a slot of _rec_in_flight.
Held == {j \in Job : phase[j] \in {"requested", "stt"}}

(* _rec_in_flight counts exactly the uploads that took a slot and have not *)
(* given it back: no interleaving of reports, acknowledgements, STT tasks  *)
(* and lost connections counts one twice, returns one twice or meets the   *)
(* floor of zero (tcp_server.py:1409, 1421, 1490, 1636).                   *)
SlotAccounting == inFlight = Cardinality(Held)

(***************************************************************************)
(* Why: an upload that has no slot yet, or holds one before its STT, has   *)
(* at most one token that can move it on: its request, the upload itself   *)
(* or its acknowledgement, on the connection it was asked for.             *)
(***************************************************************************)
Open(j) == phase[j] \in {"asked", "requested"}

IsReq(a, i, j) == i \in DOMAIN toAgent[a] /\ toAgent[a][i] = UploadReq(j)
IsAck(c, i, j) ==
  /\ i \in DOMAIN toServer[c]
  /\ \E ok \in BOOLEAN : toServer[c][i] = UploadAck(j, ok)

TokensAreOpen ==
  \A j \in Job :
    /\ \A a \in Agent :
         (uploading[a] = j \/ \E i \in DOMAIN toAgent[a] : IsReq(a, i, j)) =>
           Open(j) /\ jobConn[j] = <<a, link[a]>>
    /\ \A c \in Conn : \A i \in DOMAIN toServer[c] :
         IsAck(c, i, j) => Open(j) /\ jobConn[j] = c

TokensAreUnique ==
  \A j \in Job, a \in Agent, c \in Conn :
    /\ \A i, k \in DOMAIN toAgent[a] :
         IsReq(a, i, j) /\ IsReq(a, k, j) => i = k
    /\ \A i, k \in DOMAIN toServer[c] :
         IsAck(c, i, j) /\ IsAck(c, k, j) => i = k
    /\ \A i \in DOMAIN toAgent[a] : IsReq(a, i, j) => uploading[a] # j
    /\ \A i \in DOMAIN toServer[c] : IsAck(c, i, j) =>
         /\ uploading[a] # j
         /\ \A k \in DOMAIN toAgent[a] : ~IsReq(a, k, j)

\* The handler that asked for an upload is still draining its request.
AskedIsDraining ==
  \A j \in Job :
    phase[j] = "asked" =>
      /\ jobConn[j] \in Conn
      /\ handler[jobConn[j]] = "requesting"
      /\ \A k \in Job : phase[k] = "asked" /\ jobConn[k] = jobConn[j] => k = j

ConnectionsInOrder ==
  \A a \in Agent :
    /\ link[a] = NoConn => toAgent[a] = <<>> /\ uploading[a] = None
    /\ \A n \in 1..MaxConn : n > made[a] => handler[<<a, n>>] = "none"

(* An upload is moved on by one token only: no order of acknowledgements,  *)
(* reconnections and cancelled uploads lets a second acknowledgement of    *)
(* one upload reach the server, or one of an upload that is already in its *)
(* STT task or over (tcp_server.py:1403, controller.py:110).               *)
OneToken ==
  TokensAreOpen /\ TokensAreUnique /\ AskedIsDraining /\ ConnectionsInOrder

(* The counter implements the pool: every step of the pipeline takes one   *)
(* slot, gives back one that is held, or leaves the pool alone             *)
(* (tcp_server.py:1373, 1490, 1636).                                       *)
Pool == INSTANCE SlotPool WITH held <- Held, count <- inFlight

ImplementsSlotPool == Pool!Spec

(* One watcher never reports a recording twice, although every poll queues *)
(* again what is still waiting in the queue (watcher.py:138, 183).         *)
ReportedOnce ==
  \A a \in Agent : current[a] # None => current[a] \notin processed[a]

-----------------------------------------------------------------------------
(***************************************************************************)
(* What it keeps as long as no connection is lost.                         *)
(***************************************************************************)
Undisturbed ==
  \A a \in Agent : /\ made[a] <= 1
                   /\ link[a] = made[a]
                   /\ session[a] = made[a]

\* A loop of _try_dispatch_next is running, or will when an upload ends.
DispatchDue ==
  \/ gui = "dispatch"
  \/ \E c \in Conn : handler[c] = "dispatch"
  \/ \E j \in Job : phase[j] \in {"requested", "stt", "final"}

(* No agent is left in _rec_waiting_agents with nobody to call it: while   *)
(* the connections are up, whoever waits has a dispatch loop running now   *)
(* or an open upload whose end starts one (tcp_server.py:1142, 1401).      *)
NoForgottenWaiter == Undisturbed /\ waiting # <<>> => DispatchDue

-----------------------------------------------------------------------------
(***************************************************************************)
(* Liveness, under FairSpec.                                               *)
(***************************************************************************)
Waits(a, f) == \E i \in DOMAIN queue[a] : queue[a][i] = f

(* A recording in a running watcher's queue is checked, whatever happens   *)
(* to the server: the 90 s timeout makes every wait for NEXT end           *)
(* (watcher.py:194).                                                       *)
QueuedIsChecked ==
  \A a \in Agent, f \in File :
    Waits(a, f) ~> \/ watcher[a] = "check" /\ current[a] = f
                   \/ f \in processed[a]
                   \/ watcher[a] = "off"

(* A slot comes back, whatever the upload and the STT end with, or the     *)
(* handler that waits for the acknowledgement is gone                      *)
(* (controller.py:88, 115, tcp_server.py:1489, 1634).                      *)
SlotReturned ==
  \A j \in Job :
    j \in Held ~> (j \notin Held \/ handler[jobConn[j]] = "ended")

-----------------------------------------------------------------------------
(***************************************************************************)
(* What the comments say and the code does not do.                         *)
(***************************************************************************)
(* "The number of recordings the server is processing now"                 *)
(* (tcp_server.py:111): a counted upload is in its STT task or somebody    *)
(* still listens for its acknowledgement.                                  *)
InFlightIsWork ==
  \A j \in Held : phase[j] = "stt" \/ handler[jobConn[j]] # "ended"

\* A NEXT for a, or something that will send one.
NextIsDue(a) ==
  \/ nextEvent[a]
  \/ \E i \in DOMAIN toAgent[a] : toAgent[a][i] = NextOne
  \/ \E i \in DOMAIN waiting : waiting[i] = a
  \/ \E c \in Conn : /\ c[1] = a
                      /\ \/ handler[c] = "requesting"
                         \/ toServer[c] # <<>>

(* "Called when the server's NEXT arrives: resume with the next analysis"  *)
(* (watcher.py:89): while the connection is up, a watcher that waits for a *)
(* NEXT has one coming.                                                    *)
NextWillCome ==
  \A a \in Agent :
    Undisturbed /\ link[a] # NoConn /\ watcher[a] = "wait" => NextIsDue(a)
=============================================================================
