---------------------------- MODULE ServerManager -----------------------------
(***************************************************************************)
(* The server's manager (gui/app.py, gui/tabs/server_tab.py) and the       *)
(* server process it starts, stops and restarts (run_server.py).  The      *)
(* window's handlers and timers run one at a time; a thread for each       *)
(* start reads the output of a process and posts its end to the window;    *)
(* the commands for the dashboard go down the pipe of the process, where   *)
(* a reader takes them one by one.  The dashboard is also started by the   *)
(* configuration, and started and stopped from Telegram.                   *)
(*                                                                         *)
(* A process that is killed is gone (stop_server waits for it).            *)
(***************************************************************************)
EXTENDS Integers, Sequences

CONSTANTS
  AutoStart,                  \* the configuration starts the dashboard
  StartBound, PipeBound       \* processes started; commands in a pipe

Process == 1 .. StartBound
None == 0

VARIABLES
  phase,       \* process -> "unborn", "starting", "ready", "closing" or "dead"
  pipe,        \* process -> the commands in its standard input
  dash,        \* process -> its dashboard: "off", "on" or "stopping"
  stopper,     \* process -> who waits for the dashboard to stop
  changed,     \* the processes whose dashboard the GUI's last command no longer tells of
  proc,        \* _server_proc
  shown,       \* the buttons are those of a server that runs
  dashShown,   \* _dashboard_running
  timers,      \* how many are pending of each kind
  readers,     \* the processes whose output is read by a thread
  posts,       \* those whose _on_server_stopped is to be called
  quit,
  late         \* _on_server_stopped forgot another process than the one that ended, history

guiVars == <<proc, shown, dashShown, timers, quit, late>>
serverVars == <<phase, pipe, dash, stopper, changed>>
vars == <<serverVars, guiVars, readers, posts>>

Init ==
  /\ phase = [p \in Process |-> "unborn"]
  /\ pipe = [p \in Process |-> <<>>]
  /\ dash = [p \in Process |-> "off"]
  /\ stopper = [p \in Process |-> {}]
  /\ changed = {}
  /\ proc = None
  /\ shown = FALSE /\ dashShown = FALSE
  /\ timers = [start |-> 1, dashboard |-> 0, status |-> 0]    \* _auto_start_server
  /\ readers = {}
  /\ posts = {}
  /\ quit = FALSE /\ late = FALSE

-----------------------------------------------------------------------------
(* The server process.                                                     *)

Alive(p) == phase[p] \in {"starting", "ready", "closing"}

\* _main: the dashboard as configured, then the reader of commands.
Ready(p) ==
  /\ phase[p] = "starting"
  /\ phase' = [phase EXCEPT ![p] = "ready"]
  /\ \E auto \in {FALSE, AutoStart} :    \* FALSE too when the dashboard cannot be made
       /\ dash' = [dash EXCEPT ![p] = IF auto THEN "on" ELSE "off"]
       /\ changed' = IF auto THEN changed \cup {p} ELSE changed
  /\ UNCHANGED <<pipe, stopper, guiVars, readers, posts>>

\* With the process go its pipe and its dashboard.
Gone(p) ==
  /\ phase' = [phase EXCEPT ![p] = "dead"]
  /\ pipe' = [pipe EXCEPT ![p] = <<>>]
  /\ dash' = [dash EXCEPT ![p] = "off"]
  /\ stopper' = [stopper EXCEPT ![p] = {}]
  /\ changed' = changed \ {p}

\* It fails to start, or crashes.
Die(p) == Alive(p) /\ Gone(p) /\ UNCHANGED <<guiVars, readers, posts>>

\* DashboardController.start and stop: nothing to start before the dashboard has
\* stopped; whoever stops it waits for the one task that serves it.
StartDashboard(p) == dash' = IF dash[p] = "off" THEN [dash EXCEPT ![p] = "on"] ELSE dash
StopDashboard(p, who) ==
  /\ dash' = IF dash[p] = "off" THEN dash ELSE [dash EXCEPT ![p] = "stopping"]
  /\ stopper' = IF dash[p] = "off" THEN stopper ELSE [stopper EXCEPT ![p] = @ \cup {who}]

\* _stdin_control_reader.
HandleCommand(p) ==
  /\ phase[p] = "ready" /\ pipe[p] # <<>> /\ "stdin" \notin stopper[p]
  /\ pipe' = [pipe EXCEPT ![p] = Tail(@)]
  /\ \/ Head(pipe[p]) = "start" /\ StartDashboard(p) /\ UNCHANGED stopper
     \/ Head(pipe[p]) = "stop" /\ StopDashboard(p, "stdin")
  /\ changed' = changed \ {p}
  /\ UNCHANGED <<phase, guiVars, readers, posts>>

Telegram(p) ==
  /\ phase[p] = "ready" /\ "telegram" \notin stopper[p]
  /\ \/ StartDashboard(p) /\ UNCHANGED stopper
     \/ StopDashboard(p, "telegram")
  /\ changed' = changed \cup {p}
  /\ UNCHANGED <<phase, pipe, guiVars, readers, posts>>

\* The task that serves the dashboard ends, or is cancelled after 10 seconds.
DashboardStopped(p) ==
  /\ Alive(p) /\ dash[p] = "stopping"
  /\ dash' = [dash EXCEPT ![p] = "off"]
  /\ stopper' = [stopper EXCEPT ![p] = {}]
  /\ changed' = IF "telegram" \in stopper[p] THEN changed \cup {p} ELSE changed
  /\ UNCHANGED <<phase, pipe, guiVars, readers, posts>>

\* Ctrl+C: the tasks are ended, then the dashboard and the TCP server.
Interrupt(p) ==
  /\ phase[p] = "ready"
  /\ phase' = [phase EXCEPT ![p] = "closing"]
  /\ StopDashboard(p, "main")
  /\ UNCHANGED <<pipe, changed, guiVars, readers, posts>>

\* The process waits for its thread that reads a line: the next one ends it.
Exit(p) ==
  /\ phase[p] = "closing" /\ dash[p] = "off" /\ pipe[p] # <<>>
  /\ Gone(p)
  /\ UNCHANGED <<guiVars, readers, posts>>

-----------------------------------------------------------------------------
(* The threads that read the output.                                       *)

\* _read_server_output.
OutputEnds(p) ==
  /\ p \in readers /\ phase[p] = "dead"
  /\ readers' = readers \ {p}
  /\ posts' = posts \cup {p}
  /\ UNCHANGED <<serverVars, guiVars>>

-----------------------------------------------------------------------------
(* The window.                                                             *)

IsServerRunning == proc # None /\ Alive(proc)

\* send_server_command.
Send(command) ==
  IF IsServerRunning THEN pipe' = [pipe EXCEPT ![proc] = Append(@, command)] ELSE UNCHANGED pipe

\* Variant: the button of the dashboard is left as it is.
ShowStoppedOnly == shown' = FALSE /\ UNCHANGED dashShown

\* The tab's on_server_stopped.
ShowStopped == shown' = FALSE /\ dashShown' = FALSE

\* _on_server_stopped.
OnServerStopped(p) ==
  /\ ~quit /\ p \in posts
  /\ posts' = posts \ {p}
  /\ proc' = None
  /\ late' = (late \/ proc \notin {None, p})
  /\ ShowStopped
  /\ UNCHANGED <<serverVars, timers, quit, readers>>

\* start_server and _start_server, the timers before them having been set to t.
StartServer(t) ==
  \/ /\ IsServerRunning
     /\ timers' = t
     /\ UNCHANGED <<serverVars, proc, shown, dashShown, quit, late, readers, posts>>
  \/ \E p \in Process :
       /\ ~IsServerRunning
       /\ phase[p] = "unborn" /\ \A q \in 1 .. p - 1 : phase[q] # "unborn"
       /\ phase' = [phase EXCEPT ![p] = "starting"]
       /\ proc' = p
       /\ readers' = readers \cup {p}
       /\ shown' = TRUE
       /\ timers' = [t EXCEPT !.dashboard = @ + 1, !.status = @ + 1]
       /\ UNCHANGED <<pipe, dash, stopper, changed, dashShown, quit, late, posts>>

ClickStart == ~quit /\ ~shown /\ StartServer(timers)

\* The timer of _restart_server, and of the program's start.
StartTimer ==
  /\ ~quit /\ timers.start > 0
  /\ StartServer([timers EXCEPT !.start = @ - 1])

\* stop_server and _stop_server, or nothing when the process is gone already.
StopServer ==
  IF IsServerRunning
  THEN Gone(proc) /\ proc' = None /\ ShowStopped
  ELSE UNCHANGED <<serverVars, proc, shown, dashShown>>

ClickStop ==
  /\ ~quit /\ shown
  /\ StopServer
  /\ UNCHANGED <<timers, quit, late, readers, posts>>

\* _restart_server; one restart is under way at a time.
ClickRestart ==
  /\ ~quit /\ shown /\ timers.start = 0
  /\ StopServer
  /\ timers' = [timers EXCEPT !.start = @ + 1]
  /\ UNCHANGED <<quit, late, readers, posts>>

\* _toggle_dashboard.
ClickDashboard ==
  /\ ~quit /\ shown /\ (proc = None \/ Len(pipe[proc]) < PipeBound)
  /\ Send(IF dashShown THEN "stop" ELSE "start")
  /\ dashShown' = ~dashShown
  /\ UNCHANGED <<phase, dash, stopper, changed, proc, shown, timers, quit, late, readers, posts>>

\* _auto_start_dashboard, three seconds after a start.
DashboardTimer ==
  /\ ~quit /\ timers.dashboard > 0
  /\ timers' = [timers EXCEPT !.dashboard = @ - 1]
  /\ IF IsServerRunning /\ ~dashShown
     THEN Send("start") /\ dashShown' = TRUE
     ELSE UNCHANGED <<pipe, dashShown>>
  /\ UNCHANGED <<phase, dash, stopper, changed, proc, shown, quit, late, readers, posts>>

\* _update_server_status: every start begins a chain of its own, which goes on while
\* the server of the moment runs.
StatusTimer ==
  /\ ~quit /\ timers.status > 0 /\ ~IsServerRunning
  /\ timers' = [timers EXCEPT !.status = @ - 1]
  /\ UNCHANGED <<serverVars, proc, shown, dashShown, quit, late, readers, posts>>

\* _quit_app.
Quit ==
  /\ ~quit /\ quit' = TRUE
  /\ StopServer
  /\ UNCHANGED <<timers, late, readers, posts>>

Next ==
  \/ \E p \in Process :
       \/ Ready(p) \/ Die(p) \/ HandleCommand(p) \/ Telegram(p) \/ DashboardStopped(p)
       \/ Interrupt(p) \/ Exit(p) \/ OutputEnds(p) \/ OnServerStopped(p)
  \/ ClickStart \/ StartTimer \/ ClickStop \/ ClickRestart \/ ClickDashboard
  \/ DashboardTimer \/ StatusTimer \/ Quit

Spec == Init /\ [][Next]_vars

-----------------------------------------------------------------------------

\* Every process whose end is to be reported has been.
Settled == posts = {} /\ \A p \in readers : Alive(p)

\* A server process that lives is the one the GUI can stop, so that none is left when
\* the GUI has quit, unless the end of an earlier one was reported after its start; and
\* when all ends have been reported and all commands are done, the dashboard of that
\* process runs if and only if the GUI shows it, unless it was changed by others since
\* the GUI's last command (app.py:221-324, server_tab.py:241-301, run_server.py:383-482).
ServerKnown ==
  ~late => \A p \in Process :
    Alive(p) =>
      /\ proc = p /\ ~quit
      /\ phase[p] = "ready" /\ pipe[p] = <<>> /\ dash[p] # "stopping" /\ p \notin changed /\ Settled
         => (dashShown <=> dash[p] = "on")
=============================================================================
