------------------------------ MODULE LogHistory ------------------------------
(***************************************************************************)
(* The transfer of a day's log files from an agent to the server: the      *)
(* server asks for a day, the agent lists its files, the server selects    *)
(* those it has not stored, the agent sends them (log_cmd_handler.py,      *)
(* tcp_server.py, storage/manager.py).                                     *)
(*                                                                         *)
(* The agent answers each request in a task of its own; the tasks of one   *)
(* connection share the event, the selection and the map of files.  A      *)
(* file's text is its version; two folders may hold files of one name.     *)
(* The files of a list are a set: in what order they are sent makes no     *)
(* difference to what is stored.  A selection holds the entries that are   *)
(* selected, of which the agent is told the names.                         *)
(***************************************************************************)
EXTENDS Integers, Sequences, FiniteSets

CONSTANTS
  Day,
  File,           \* records [day, folder, name]: folder a number, name of one day
  TooLarge,       \* the files LOG_HIST cannot carry
  VersionBound,   \* versions of a file at most
  RequestBound,   \* requests at most
  LossBound       \* lost connections at most

VARIABLES
  text,           \* file -> its version
  tasks,          \* request -> its task, a partial function
  event,          \* _file_select_event
  selection,      \* _selected_filenames
  pending,        \* _pending_file_map: name -> file, a partial function
  up, down,       \* the connection
  stored,         \* name -> <<file, version>> on the server, a partial function
  progress,       \* _hist_progress of the agent, <<>> when there is none
  requests, losses,
  overlap,        \* a selection met another task than its own, history
  acked           \* what the last task that ended had listed, history

vars == <<text, tasks, event, selection, pending, up, down, stored, progress, requests,
          losses, overlap, acked>>

FilesOf(day) == {f \in File : f.day = day}

Init ==
  /\ text = [f \in File |-> 1]
  /\ tasks = <<>>
  /\ event = FALSE
  /\ selection = {}
  /\ pending = <<>>
  /\ up = <<>> /\ down = <<>>
  /\ stored = <<>>
  /\ progress = <<>>
  /\ requests = 0 /\ losses = 0
  /\ overlap = FALSE
  /\ acked = {}

-----------------------------------------------------------------------------
(* The server.                                                             *)

\* A request, which may clear the day's files first (routes/logs.py:147-189).
\* What it overlaps with is noted.
Request(day, clear) ==
  /\ requests < RequestBound
  /\ requests' = requests + 1
  /\ down' = Append(down, [type |-> "request", day |-> day, id |-> requests'])
  /\ stored' = IF clear THEN [n \in {m \in DOMAIN stored : stored[m][1].day # day} |-> stored[n]]
               ELSE stored
  /\ overlap' = (overlap \/ DOMAIN tasks # {} \/ up # <<>> \/ down # <<>>)
  /\ acked' = {}
  /\ UNCHANGED <<text, tasks, event, selection, pending, up, progress, losses>>

\* The size and the digest of what is stored under the name.
IsStored(entry) ==
  /\ entry.file.name \in DOMAIN stored
  /\ stored[entry.file.name][2] = entry.version

\* _handle_log_file_list: what is not stored is selected, the progress reset.
HandleList ==
  /\ up # <<>> /\ Head(up).type = "list"
  /\ LET missing == {e \in Head(up).entries : ~IsStored(e)}
     IN /\ down' = Append(down, [type |-> "select", selected |-> missing])
        /\ progress' = [total |-> Cardinality(missing), received |-> 0]
  /\ up' = Tail(up)
  /\ UNCHANGED <<text, tasks, event, selection, pending, stored, requests, losses, overlap,
                 acked>>

With(file, version) ==
  [n \in DOMAIN stored \cup {file.name} |->
     IF n = file.name THEN <<file, version>> ELSE stored[n]]

\* _handle_log_hist: stored by its name, whatever the folder; the last of the
\* files selected ends the progress.
HandleHist ==
  /\ up # <<>> /\ Head(up).type = "hist"
  /\ stored' = With(Head(up).file, Head(up).version)
  /\ progress' = IF progress = <<>> \/ progress.received + 1 >= progress.total THEN <<>>
                 ELSE [progress EXCEPT !.received = @ + 1]
  /\ up' = Tail(up)
  /\ UNCHANGED <<text, tasks, event, selection, pending, down, requests, losses, overlap,
                 acked>>

\* _handle_cmd_log_ack: logged.
HandleAck ==
  /\ up # <<>> /\ Head(up).type = "ack"
  /\ up' = Tail(up)
  /\ acked' = Head(up).listed
  /\ UNCHANGED <<text, tasks, event, selection, pending, down, stored, progress, requests,
                 losses, overlap>>

-----------------------------------------------------------------------------
(* The agent.                                                              *)

Task(id, task) ==
  [i \in DOMAIN tasks \cup {id} |-> IF i = id THEN task ELSE tasks[i]]
Without(id) == [i \in DOMAIN tasks \ {id} |-> tasks[i]]

\* handle_cmd_log: the request gets a task.
Begin ==
  /\ down # <<>> /\ Head(down).type = "request"
  /\ tasks' = Task(Head(down).id, [at |-> "begun", day |-> Head(down).day, listed |-> {},
                                   todo |-> {}])
  /\ down' = Tail(down)
  /\ UNCHANGED <<text, event, selection, pending, up, stored, progress, requests, losses,
                 overlap, acked>>

\* The one in the last folder.
LastOf(files) == CHOOSE f \in files : \A g \in files : g.folder <= f.folder

\* get_files_metadata_by_folder and send_log_file_list.  An empty list ends the
\* task; the server answers it all the same.
SendList(id) ==
  LET files == FilesOf(tasks[id].day)
      entries == {[file |-> f, version |-> text[f]] : f \in files}
  IN /\ tasks[id].at = "begun"
     /\ up' = Append(up, [type |-> "list", entries |-> entries])
     /\ tasks' = IF files = {} THEN Without(id)
                 ELSE Task(id, [tasks[id] EXCEPT !.at = "sent", !.listed = entries])
     /\ UNCHANGED <<text, event, selection, pending, down, stored, progress, requests, losses,
                    overlap, acked>>

\* Once the list is written, which takes time when the connection is slow: the
\* map, then the event is cleared and the task waits.  Of files of one name the
\* map has the last.
Prepare(id) ==
  LET files == FilesOf(tasks[id].day)
  IN /\ tasks[id].at = "sent"
     /\ pending' = [n \in {f.name : f \in files} |-> LastOf({f \in files : f.name = n})]
     /\ event' = FALSE
     /\ selection' = {}
     /\ tasks' = Task(id, [tasks[id] EXCEPT !.at = "waiting"])
     /\ UNCHANGED <<text, up, down, stored, progress, requests, losses, overlap, acked>>

\* handle_file_select: the event wakes every task that waits.
HandleSelect ==
  /\ down # <<>> /\ Head(down).type = "select"
  /\ event' = TRUE
  /\ selection' = Head(down).selected
  /\ tasks' = [i \in DOMAIN tasks |->
                 IF tasks[i].at = "waiting" THEN [tasks[i] EXCEPT !.at = "woken"] ELSE tasks[i]]
  /\ down' = Tail(down)
  /\ overlap' = (overlap \/ {i \in DOMAIN tasks : tasks[i].at = "waiting"} = {})
  /\ UNCHANGED <<text, pending, up, stored, progress, requests, losses, acked>>

\* Variant: the map is cleared before the files are sent, not after.
WakeAndClear(id) ==
  /\ tasks[id].at = "woken"
  /\ tasks' = Task(id, [tasks[id] EXCEPT !.at = "sending", !.todo = selection])
  /\ pending' = <<>>
  /\ UNCHANGED <<text, event, selection, up, down, stored, progress, requests, losses,
                 overlap, acked>>

\* The task takes the selection there is when it runs.
Wake(id) ==
  /\ tasks[id].at = "woken"
  /\ tasks' = Task(id, [tasks[id] EXCEPT !.at = "sending", !.todo = selection])
  /\ UNCHANGED <<text, event, selection, pending, up, down, stored, progress, requests,
                 losses, overlap, acked>>

\* No selection in time: the map is cleared, whoever's it is.
SelectTimeout(id) ==
  /\ tasks[id].at = "waiting"
  /\ tasks' = Without(id)
  /\ pending' = <<>>
  /\ overlap' = TRUE
  /\ UNCHANGED <<text, event, selection, up, down, stored, progress, requests, losses, acked>>

\* One selected file: not in the map, too large to send, or sent.
SendFile(id, entry) ==
  LET name == entry.file.name
      sends == name \in DOMAIN pending /\ pending[name] \notin TooLarge
  IN /\ tasks[id].at = "sending"
     /\ entry \in tasks[id].todo
     /\ tasks' = Task(id, [tasks[id] EXCEPT !.todo = @ \ {entry}])
     /\ up' = IF sends THEN Append(up, [type |-> "hist", file |-> pending[name],
                                        version |-> text[pending[name]]])
              ELSE up
     /\ UNCHANGED <<text, event, selection, pending, down, stored, progress, requests, losses,
                    overlap, acked>>

\* The acknowledgement, always of success.
SendAck(id) ==
  /\ tasks[id].at = "sending"
  /\ tasks[id].todo = {}
  /\ up' = Append(up, [type |-> "ack", listed |-> tasks[id].listed])
  /\ pending' = <<>>
  /\ tasks' = Without(id)
  /\ UNCHANGED <<text, event, selection, down, stored, progress, requests, losses, overlap,
                 acked>>

\* A program writes one of the files.
Grow(f) ==
  /\ text[f] < VersionBound
  /\ text' = [text EXCEPT ![f] = @ + 1]
  /\ UNCHANGED <<tasks, event, selection, pending, up, down, stored, progress, requests,
                 losses, overlap, acked>>

\* The connection breaks and is made anew; the handler and its tasks stay.
Lose ==
  /\ losses < LossBound
  /\ losses' = losses + 1
  /\ up' = <<>> /\ down' = <<>>
  /\ overlap' = TRUE
  /\ UNCHANGED <<text, tasks, event, selection, pending, stored, progress, requests, acked>>

Next ==
  \/ \E d \in Day, c \in BOOLEAN : Request(d, c)
  \/ HandleList
  \/ HandleHist
  \/ HandleAck
  \/ Begin
  \/ HandleSelect
  \/ \E id \in DOMAIN tasks :
       \/ SendList(id)
       \/ Prepare(id)
       \/ Wake(id)
       \/ SelectTimeout(id)
       \/ \E e \in tasks[id].todo : SendFile(id, e)
       \/ SendAck(id)
  \/ \E f \in File : Grow(f)
  \/ Lose

Spec == Init /\ [][Next]_vars

-----------------------------------------------------------------------------

\* While every selection reached the task that listed the files, and that task
\* only, an acknowledged request leaves on the server, for every name listed, a
\* text of that name at least as new as listed, or one of a file in another
\* folder: all but the files that LOG_HIST cannot carry.  Requests that
\* overlap, a selection that comes before the event is cleared and a time-out
\* break this: the tasks share one selection (log_cmd_handler.py:92-144).
AckedIsStored ==
  ~overlap =>
    \A e \in acked :
      \/ \E f \in TooLarge : f.name = e.file.name
      \/ /\ e.file.name \in DOMAIN stored
         /\ \/ stored[e.file.name][2] >= e.version
            \/ stored[e.file.name][1] # e.file
=============================================================================
