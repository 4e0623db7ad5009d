------------------------------ MODULE RecStream ------------------------------
(***************************************************************************)
(* The recordings kept by the server (airec/storage.py), how they come     *)
(* there (routers/upload.py, and from the agent when one is asked for that *)
(* is not there), and how they are listed and served (routers/stream.py,   *)
(* routers/views.py, dashboard/routes/recordings.py).                      *)
(*                                                                         *)
(* The event loop writes a file in one go, but a body is read in threads   *)
(* of the pool meanwhile: a write empties the file and then fills it.      *)
(* Sizes are in chunks of 64 KB; a file of size s of the v-th write.       *)
(***************************************************************************)
EXTENDS Integers, Sequences, FiniteSets, FiniteSetsExt

CONSTANTS
  Agent, File,
  Size,         \* sizes of recordings
  Start, End,   \* what a Range header may name; -1: nothing
  DayBound, WriteBound, ConnectBound

VARIABLES
  day,
  stored,     \* the files: set of [agent, day, file, size, ulaw, write]
  writing,    \* the file that the event loop has emptied and not yet filled, or NoFile
  writes,     \* writes so far
  connected,  \* agents with a session
  visits,     \* sessions opened so far
  reader      \* what a client of the server is at

vars == <<day, stored, writing, writes, connected, visits, reader>>

NoFile == [agent |-> "none"]
Idle == [at |-> "idle"]

Init ==
  /\ day = 1
  /\ stored = {}
  /\ writing = NoFile
  /\ writes = 0
  /\ connected = {}
  /\ visits = 0
  /\ reader = Idle

Same(f, g) == f.agent = g.agent /\ f.day = g.day /\ f.file = g.file
Newest(files) == {f \in files : \A g \in files : g.agent = f.agent => g.day <= f.day}

\* find_by_filename: of an agent the newest; of the agents the one whose directory
\* comes first, in no order of theirs.
FindByFilename(file) == Newest({f \in stored : f.file = file})

\* The event loop is not in the middle of a write.
LoopFree == writing = NoFile

\* store: today, whatever was there under the name.
Store(agent, file, size, ulaw) ==
  LET f == [agent |-> agent, day |-> day, file |-> file, size |-> size, ulaw |-> ulaw,
            write |-> writes + 1]
  IN /\ writes < WriteBound
     /\ writes' = writes + 1
     /\ writing' = f
     /\ stored' = {g \in stored : ~Same(f, g)} \cup {[f EXCEPT !.size = 0]}

\* write_bytes has written.
Filled ==
  /\ writing # NoFile
  /\ stored' = {g \in stored : ~Same(writing, g)} \cup {writing}
  /\ writing' = NoFile
  /\ reader' = IF reader.at = "stored" THEN [reader EXCEPT !.at = "look"] ELSE reader
  /\ UNCHANGED <<day, writes, connected, visits>>

-----------------------------------------------------------------------------

\* upload_recording: a name that is not one of a WAV file and an empty file are
\* refused.
Upload(a, file) ==
  /\ LoopFree
  /\ \E size \in Size, ulaw \in BOOLEAN : Store(a, file, size, ulaw)
  /\ UNCHANGED <<day, connected, visits, reader>>

Midnight ==
  /\ day < DayBound
  /\ day' = day + 1
  /\ UNCHANGED <<stored, writing, writes, connected, visits, reader>>

Connect(a) ==
  /\ LoopFree
  /\ visits < ConnectBound
  /\ visits' = visits + 1
  /\ connected' = connected \cup {a}
  /\ UNCHANGED <<day, stored, writing, writes, reader>>

Disconnect(a) ==
  /\ LoopFree
  /\ connected' = connected \ {a}
  /\ UNCHANGED <<day, stored, writing, writes, visits, reader>>

\* In a thread of the pool; and in the event loop.
Threaded(r) == reader' = r /\ UNCHANGED <<day, stored, writing, writes, connected, visits>>
Reader(r) == LoopFree /\ Threaded(r)

Refused(code) == [at |-> "refused", code |-> code]

\* Of a request that names no agent: the first session.
AskedAgents(a) == IF a = "" THEN connected ELSE {a}

-----------------------------------------------------------------------------
(* stream_recording.                                                       *)

\* The range as the code reads it; it is cut off at the end of the file, its start
\* is not looked at.
Range0(start) == IF start = -1 THEN 0 ELSE start

\* Variant: the end is taken as it is asked for.
EndAsAsked(end, size) == IF end = -1 THEN size - 1 ELSE end

RangeEnd(end, size) == IF end = -1 \/ end > size - 1 THEN size - 1 ELSE end

\* A body that is sent: from, promised, and what of it was read.
Serve(f, start, end) ==
  LET first == Range0(start)
  IN [at |-> "body", file |-> f, next |-> first, promised |-> RangeEnd(end, f.size) - first + 1,
      ranged |-> start # -1 \/ end # -1, read |-> 0, writes |-> {}]

\* A file of mu-law is transcoded in memory, twice its size, unless that fails.
InMemory(f, start, end) ==
  LET first == Range0(start)
      promised == RangeEnd(end, 2 * f.size) - first + 1
  IN [at |-> "sent", file |-> f, next |-> first, promised |-> promised,
      ranged |-> start # -1 \/ end # -1,
      read |-> Max({0, Min({promised, 2 * f.size - first})}), writes |-> {f.write}]

Responses(f, start, end) ==
  {Serve(f, start, end)} \cup (IF f.ulaw /\ f.size > 0 THEN {InMemory(f, start, end)} ELSE {})

\* What is there is served; else the agent that the request names, or the first one,
\* is asked for it.
Stream(file, a, start, end) ==
  /\ reader.at = "idle"
  /\ \E r \in IF FindByFilename(file) # {}
              THEN UNION {Responses(f, start, end) : f \in FindByFilename(file)}
              ELSE {[at |-> "fetch", file |-> file, agent |-> b, start |-> start, end |-> end] :
                      b \in AskedAgents(a)}
                   \cup (IF AskedAgents(a) = {} THEN {Refused(404)} ELSE {}) :
       Reader(r)

\* _fetch_wav_from_agent: within 120 seconds the file, an error or nothing; also
\* for an agent that is not there.
Fetched ==
  /\ reader.at = "fetch"
  /\ \/ /\ reader.agent \in connected
        /\ LoopFree
        /\ \E size \in Size, ulaw \in BOOLEAN : Store(reader.agent, reader.file, size, ulaw)
        /\ reader' = [reader EXCEPT !.at = "stored"]
        /\ UNCHANGED <<day, connected, visits>>
     \/ Reader(Refused(404))

\* The second look-up, in the same step of the loop as the write.
LookAgain ==
  /\ reader.at = "look"
  /\ \E f \in FindByFilename(reader.file) :
       \E r \in Responses(f, reader.start, reader.end) : Reader(r)

\* iter_range and iter_file: the next chunk, in a thread, of the file as it is now.
ReadChunk ==
  /\ reader.at = "body"
  /\ \E f \in stored :
       /\ Same(f, reader.file)
       /\ reader' =
            IF reader.next >= f.size \/ (reader.ranged /\ reader.read >= reader.promised)
            THEN [reader EXCEPT !.at = "sent"]
            ELSE [reader EXCEPT !.next = @ + 1, !.read = @ + 1, !.writes = @ \cup {f.write}]
  /\ UNCHANGED <<day, stored, writing, writes, connected, visits>>

-----------------------------------------------------------------------------
(* Lists.                                                                  *)

\* list_recordings: of one agent or, when it has no directory, of all; of one day or,
\* where an agent has no directory of that day, of all its days.
ListRecordings(a, d) ==
  LET agents == {f.agent : f \in stored}
      days(b) == {f.day : f \in {g \in stored : g.agent = b}}
  IN {f \in stored :
        /\ a \in agents => f.agent = a
        /\ d \in days(f.agent) => f.day = d}

\* recordings_page (without the recordings of other agents), recording_detail,
\* dashboard_page (the same day for each of the last seven).
Look(a, d) ==
  /\ reader.at = "idle"
  /\ \/ Threaded([at |-> "list", of |-> {f \in ListRecordings(a, d) : a = "" \/ f.agent = a}])
     \/ \E file \in File :
          Threaded([at |-> "list", of |-> IF FindByFilename(file) = {} THEN {}
                                        ELSE {CHOOSE f \in FindByFilename(file) : TRUE}])
     \/ Threaded([at |-> "list", of |-> UNION {ListRecordings("", e) : e \in 1 .. d}])

\* api_rec_list, api_rec_dir_list, api_rec_files, api_rec_detail: the agent answers
\* within its time, or 504; and a detail that it does not have.
AskRecords(a) ==
  /\ reader.at = "idle"
  /\ IF AskedAgents(a) = {} THEN Reader(Refused(503))
     ELSE \E b \in AskedAgents(a) : Reader([at |-> "ask", agent |-> b])

Answered ==
  /\ reader.at = "ask"
  /\ \/ /\ reader.agent \in connected
        /\ Reader([at |-> "list", of |-> {}]) \/ Reader(Refused(404))
     \/ Reader(Refused(504))

\* The client is done with what it got.
Again ==
  /\ reader.at \in {"sent", "list", "refused"}
  /\ Reader(Idle)

Next ==
  \/ Filled \/ Midnight
  \/ \E a \in Agent : Connect(a) \/ Disconnect(a) \/ \E f \in File : Upload(a, f)
  \/ \E f \in File, a \in Agent \cup {""}, s \in Start, e \in End : Stream(f, a, s, e)
  \/ Fetched \/ LookAgain \/ ReadChunk
  \/ \E a \in Agent \cup {""}, d \in 1 .. DayBound : Look(a, d)
  \/ \E a \in Agent \cup {""} : AskRecords(a)
  \/ Answered \/ Again

Spec == Init /\ [][Next]_vars

-----------------------------------------------------------------------------

\* A response has as many bytes as its header says, of one write of the file: unless
\* the file was written anew after its size was read, or the range starts behind its
\* end (stream.py:462-562).
BodyAsPromised ==
  reader.at = "sent" /\ reader.promised >= 0 =>
    \/ reader.read = reader.promised /\ Cardinality(reader.writes) <= 1
    \/ \E f \in stored : Same(f, reader.file) /\ f.write # reader.file.write
=============================================================================
