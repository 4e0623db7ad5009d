--------------------------- MODULE ProcessControl ---------------------------
(***************************************************************************)
(* One monitored program on an agent and everything that starts and stops  *)
(* it: the control commands of the servers (CtrlHandler), the deployment   *)
(* of staged files (ProcessDeployer), the monitor loop, the scheduled      *)
(* restart and the hot reload of the configuration.                        *)
(*                                                                         *)
(* All of them are coroutines of one event loop.  ProcessManager.kill_all  *)
(* and start block the loop, so what lies between two awaits is one step:  *)
(* a bare restart is one, a scheduled restart three; a deployment is one,  *)
(* or two when the first look of its health check finds no instance.  The  *)
(* archive of an update is extracted by a thread, which a lost connection  *)
(* does not stop.                                                          *)
(***************************************************************************)
EXTENDS Integers, FiniteSets

CONSTANTS
  Server,        \* the connections commands come from
  DayLength,     \* minutes of a day
  LastMinute,    \* bounds the clock
  CommandBound,  \* bounds the commands
  FaultBound     \* bounds crashes, refused starts, failed copies, survivors

ASSUME ControlAssumption ==
  /\ DayLength \in Nat \ {0}
  /\ LastMinute \in Nat
  /\ CommandBound \in Nat
  /\ FaultBound \in Nat

Nothing == 0                            \* no file
Agents  == -1                           \* a file of the agent itself
Version == {Agents} \union (1 .. CommandBound + 1)
Part    == {"exe", "lib"}               \* the executable, the files beside it
NoFiles == [p \in Part |-> Nothing]

VARIABLES
  alive,      \* the versions of the program of which an instance runs
  files,      \* the program's directory
  backup,     \* the latest backup of the executable
  staged,     \* SelfUpdater.update_dir, which the deployers share
  writing,    \* per server, the parts its extracting thread has to write
  at,         \* per server, the await its handler stands at
  found,      \* per server, the executable its deployment found
  put,        \* per server, the executable its deployment put in place
  auto,       \* ProcessMonitorLoop._auto_restart
  mon,        \* the await the monitor loop stands at
  prev,       \* ProcessMonitorLoop._prev_alive
  sched,      \* the await of ProcessScheduler._do_restart, and its attempt
  times,      \* the scheduled minutes of a day
  scheduler,  \* there is a ProcessScheduler
  triggered,  \* ProcessScheduler._triggered_dates
  now,        \* the clock, in minutes
  commands,   \* commands so far; an update's version is taken from it
  faults      \* faults so far

program  == <<alive, files, backup>>
deploys  == <<staged, writing, at, found, put>>
monitor  == <<auto, mon, prev>>
schedule == <<sched, times, scheduler, triggered>>
bounds   == <<now, commands, faults>>
vars     == <<program, deploys, monitor, schedule, bounds>>

Idle == [stage |-> "idle", attempt |-> 0]

(* The values the variables take.                                          *)
TypeOK ==
  /\ alive \subseteq Version
  /\ files \in [Part -> Version]
  /\ backup \in Version \union {Nothing}
  /\ staged \in [Part -> Version \union {Nothing}]
  /\ writing \in [Server -> [todo : SUBSET Part, version : Version]]
  /\ at \in [Server -> {"idle", "extracting", "health", "updating"}]
  /\ found \in [Server -> Version]
  /\ put \in [Server -> Version]
  /\ auto \in BOOLEAN
  /\ mon \in {"idle", "down", "told"}
  /\ prev \in {"unknown", "up", "down"}
  /\ sched \in [stage : {"idle", "killed", "started"}, attempt : 0 .. 2]
  /\ times \subseteq 0 .. DayLength - 1
  /\ scheduler \in BOOLEAN
  /\ triggered \subseteq 0 .. LastMinute
  /\ now \in 0 .. LastMinute
  /\ commands \in 0 .. CommandBound
  /\ faults \in 0 .. FaultBound

Init ==
  /\ alive = {1}
  /\ files = [p \in Part |-> 1]
  /\ backup = Nothing
  /\ staged = NoFiles
  /\ writing = [s \in Server |-> [todo |-> {}, version |-> 1]]
  /\ at = [s \in Server |-> "idle"]
  /\ found = [s \in Server |-> 1]
  /\ put = [s \in Server |-> 1]
  /\ auto \in BOOLEAN
  /\ mon = "idle"
  /\ prev = "unknown"
  /\ sched = Idle
  /\ times = {0}
  /\ scheduler = TRUE
  /\ triggered = {}
  /\ now = 0
  /\ commands = 0
  /\ faults = 0

-----------------------------------------------------------------------------
(* The operating system: what kill_all and start may leave.                *)

Fault(t) ==
  /\ t => faults < FaultBound
  /\ faults' = IF t THEN faults + 1 ELSE faults

\* kill_all returns False when instances survive a forced kill.
Survivors(t) == IF t THEN SUBSET alive ELSE {{}}

\* start runs the executable in place, or raises; it never asks whether an
\* instance runs already.
Started(t, exe) == IF t THEN {{exe}, {}} ELSE {{exe}}

\* An instance ends by itself.
Crash ==
  /\ \E v \in alive : alive' = alive \ {v}
  /\ Fault(TRUE)
  /\ UNCHANGED <<files, backup, deploys, monitor, schedule, now, commands>>

-----------------------------------------------------------------------------
(* Control commands.                                                       *)

\* Variant: every command is a task of its own.
ConcurrentCommand(s) ==
  /\ commands < CommandBound
  /\ commands' = commands + 1

\* A connection's receive loop awaits each handler before it reads on.
Command(s) ==
  /\ at[s] = "idle"
  /\ commands < CommandBound
  /\ commands' = commands + 1

HasStaged == staged # NoFiles

\* RESTART without staged files.
BareRestart(s) ==
  /\ Command(s)
  /\ ~HasStaged
  /\ \E t \in BOOLEAN : \E left \in Survivors(t), new \in Started(t, files["exe"]) :
       /\ Fault(t)
       /\ alive' = left \union new
  /\ UNCHANGED <<files, backup, deploys, monitor, schedule, now>>

\* The monitors are created after the handlers: the table a handler was
\* given was empty, and `process_monitors or {}` replaced it by its own.  So
\* no command pauses or resumes the monitor.
AutoAfter(wanted) == auto

Stop(s) ==
  /\ Command(s)
  /\ auto' = AutoAfter(FALSE)
  /\ \E t \in BOOLEAN : \E left \in Survivors(t) : Fault(t) /\ alive' = left
  /\ UNCHANGED <<files, backup, deploys, mon, prev, schedule, now>>

Start(s) ==
  /\ Command(s)
  /\ \E t \in BOOLEAN : \E new \in Started(t, files["exe"]) :
       /\ Fault(t)
       /\ alive' = alive \union new
       /\ auto' = IF new = {} THEN auto ELSE AutoAfter(TRUE)
  /\ UNCHANGED <<files, backup, deploys, mon, prev, schedule, now>>

Backup(s) ==
  /\ Command(s)
  /\ backup' = files["exe"]
  /\ UNCHANGED <<alive, files, deploys, monitor, schedule, now, faults>>

\* ProcessManager.rollback restores the executable, not what lies beside it.
Restored(dir, from) == [dir EXCEPT !["exe"] = from]

Rollback(s) ==
  /\ Command(s)
  /\ \E t \in BOOLEAN : \E left \in Survivors(t), new \in Started(t, backup) :
       /\ Fault(t)
       /\ IF backup = Nothing
          THEN alive' = left /\ UNCHANGED files
          ELSE /\ files' = Restored(files, backup)
               /\ alive' = left \union new
  /\ UNCHANGED <<backup, deploys, monitor, schedule, now>>

-----------------------------------------------------------------------------
(* Deployment of what is staged: RESTART with staged files.                *)

StagedParts == {p \in Part : staged[p] # Nothing}

Copied(parts) ==
  [p \in Part |-> IF p \in parts THEN staged[p] ELSE files[p]]

\* execute_deploy from the backup to the kill.
BeginDeploy(s) ==
  /\ Command(s)
  /\ HasStaged
  /\ backup' = files["exe"]
  /\ found' = [found EXCEPT ![s] = files["exe"]]

\* The files are copied and the program is started.  The health check looks
\* at once: an instance, any instance, verifies the deployment, and the
\* staging directory is removed.  Without one (it has ended already) the
\* health check sleeps.
Deploy(s) ==
  /\ BeginDeploy(s)
  /\ files' = Copied(StagedParts)
  /\ put' = [put EXCEPT ![s] = files'["exe"]]
  /\ \E t \in BOOLEAN : \E left \in Survivors(t), new \in Started(t, files'["exe"]) :
       /\ Fault(t)
       /\ alive' = left \union new
  /\ IF alive' # {} THEN staged' = NoFiles /\ UNCHANGED at
                    ELSE at' = [at EXCEPT ![s] = "health"] /\ UNCHANGED staged
  /\ UNCHANGED <<writing, monitor, schedule, now>>

\* A copy or the start raises: kill, roll back, start, in the same step.
DeployFails(s) ==
  /\ BeginDeploy(s)
  /\ \E parts \in SUBSET StagedParts : files' = Restored(Copied(parts), files["exe"])
  /\ \E new \in Started(TRUE, files["exe"]) : alive' = new
  /\ Fault(TRUE)
  /\ UNCHANGED <<staged, writing, at, put, monitor, schedule, now>>

\* A later look of the health check.
HealthGood(s) ==
  /\ at[s] = "health"
  /\ alive # {}
  /\ at' = [at EXCEPT ![s] = "idle"]
  /\ staged' = NoFiles
  /\ UNCHANGED <<program, writing, found, put, monitor, schedule, bounds>>

\* 30 s without an instance: kill, roll back, start.  What started in the
\* second after the last look is killed as well.
HealthBad(s) ==
  /\ at[s] = "health"
  /\ at' = [at EXCEPT ![s] = "idle"]
  /\ files' = Restored(files, backup)
  /\ \E t \in BOOLEAN : \E left \in Survivors(t), new \in Started(t, backup) :
       Fault(t) /\ alive' = left \union new
  /\ UNCHANGED <<backup, staged, writing, found, put, monitor, schedule, now, commands>>

-----------------------------------------------------------------------------
(* Staging: CMD_DEPLOY for the program, CMD_DEPLOY of an agent's archive.  *)

\* The directory is emptied and a thread begins to extract the archive.  (A
\* bound: one thread per connection at a time.)
Stage(s) ==
  /\ Command(s)
  /\ writing[s].todo = {}
  /\ staged' = NoFiles
  /\ \E parts \in {Part, {"exe"}} :
       writing' = [writing EXCEPT ![s] = [todo |-> parts, version |-> commands + 2]]
  /\ at' = [at EXCEPT ![s] = "extracting"]
  /\ UNCHANGED <<program, found, put, monitor, schedule, now, faults>>

Extract(s) ==
  /\ \E p \in writing[s].todo :
       /\ writing' = [writing EXCEPT ![s].todo = @ \ {p}]
       /\ staged' = [staged EXCEPT ![p] = writing[s].version]
  /\ UNCHANGED <<program, at, found, put, monitor, schedule, bounds>>

\* A single executable is copied beside what is staged already.
StageFile(s) ==
  /\ Command(s)
  /\ staged' = [staged EXCEPT !["exe"] = commands + 2]
  /\ UNCHANGED <<program, writing, at, found, put, monitor, schedule, now, faults>>

\* The thread is through: flag and answer.
Staged(s) ==
  /\ at[s] = "extracting"
  /\ writing[s].todo = {}
  /\ at' = [at EXCEPT ![s] = "idle"]
  /\ UNCHANGED <<program, staged, writing, found, put, monitor, schedule, bounds>>

\* An archive for the agent goes to the same directory.  The handler answers,
\* sleeps, and leaves the rest to the updater script.
StageAgent(s) ==
  /\ Command(s)
  /\ staged' = [p \in Part |-> Agents]
  /\ at' = [at EXCEPT ![s] = "updating"]
  /\ UNCHANGED <<program, writing, found, put, monitor, schedule, now, faults>>

\* The agent's process ends: all its coroutines and threads are gone, the
\* program runs on.
AgentGone ==
  /\ writing' = [s \in Server |-> [writing[s] EXCEPT !.todo = {}]]
  /\ at' = [s \in Server |-> "idle"]
  /\ mon' = "idle"
  /\ prev' = "unknown"
  /\ sched' = Idle
  /\ triggered' = {}
  /\ scheduler' = (times # {})

\* The updater script stops the agent, installs what is staged, removes the
\* staging directory and starts the agent.
UpdateAgent(s) ==
  /\ at[s] = "updating"
  /\ AgentGone
  /\ staged' = NoFiles
  /\ UNCHANGED <<program, found, put, auto, times, bounds>>

\* The agent crashes and is started again; what it staged stays.
AgentCrash ==
  /\ AgentGone
  /\ Fault(TRUE)
  /\ UNCHANGED <<program, staged, found, put, auto, times, now, commands>>

\* close_on_error cancels the handler at its await; the thread goes on.
LoseConnection(s) ==
  /\ at[s] # "idle"
  /\ at' = [at EXCEPT ![s] = "idle"]
  /\ Fault(TRUE)
  /\ UNCHANGED <<program, staged, writing, found, put, monitor, schedule,
                 now, commands>>

-----------------------------------------------------------------------------
(* ProcessMonitorLoop.run.                                                 *)

\* Variant: what is down without a restart is not noted.
NotedWhenUp(up) ==
  \/ /\ ~up /\ auto
     /\ \E t \in BOOLEAN : \E new \in Started(t, files["exe"]) :
          /\ Fault(t)
          /\ alive' = alive \union new
          /\ mon' = IF new = {} THEN "idle" ELSE "told"
     /\ UNCHANGED prev
  \/ /\ up \/ ~auto
     /\ mon' = "idle"
     /\ prev' = IF up THEN "up" ELSE prev
     /\ UNCHANGED <<alive, faults>>

\* After the notification: the flag is read now, whether the program runs
\* was read before it.
Decide(up) ==
  \/ /\ ~up /\ auto
     /\ \E t \in BOOLEAN : \E new \in Started(t, files["exe"]) :
          /\ Fault(t)
          /\ alive' = alive \union new
          /\ mon' = IF new = {} THEN "idle" ELSE "told"
     /\ UNCHANGED prev
  \/ /\ up \/ ~auto
     /\ mon' = "idle"
     /\ prev' = IF up THEN "up" ELSE "down"
     /\ UNCHANGED <<alive, faults>>

\* Variant: only a program that was seen running is looked after.
CheckFalls ==
  /\ mon = "idle"
  /\ CASE alive # {} -> Decide(TRUE)
       [] alive = {} /\ prev = "up" -> mon' = "down" /\ UNCHANGED <<prev, alive, faults>>
       [] OTHER -> UNCHANGED <<mon, prev, alive, faults>>
  /\ UNCHANGED <<files, backup, deploys, auto, schedule, now, commands>>

Check ==
  /\ mon = "idle"
  /\ IF prev = "up" /\ alive = {}
     THEN mon' = "down" /\ UNCHANGED <<prev, alive, faults>>
     ELSE Decide(alive # {})
  /\ UNCHANGED <<files, backup, deploys, auto, schedule, now, commands>>

CheckGoesOn ==
  /\ mon = "down"
  /\ Decide(FALSE)
  /\ UNCHANGED <<files, backup, deploys, auto, schedule, now, commands>>

RestartTold ==
  /\ mon = "told"
  /\ mon' = "idle"
  /\ prev' = "up"
  /\ UNCHANGED <<program, deploys, auto, schedule, bounds>>

-----------------------------------------------------------------------------
(* ProcessScheduler.                                                       *)

Tick ==
  /\ now < LastMinute
  /\ now' = now + 1
  /\ UNCHANGED <<program, deploys, monitor, schedule, commands, faults>>

SameDay(m) == m \div DayLength = now \div DayLength

\* kill_all, then a sleep of 3 s.
KillFor(attempt) ==
  /\ \E t \in BOOLEAN : \E left \in Survivors(t) : Fault(t) /\ alive' = left
  /\ sched' = [stage |-> "killed", attempt |-> attempt]

\* check_and_restart: once a day at each of the times.
Trigger ==
  /\ scheduler
  /\ sched = Idle
  /\ now % DayLength \in times
  /\ now \notin triggered
  /\ triggered' = {m \in triggered : SameDay(m)} \union {now}
  /\ KillFor(1)
  /\ UNCHANGED <<files, backup, deploys, monitor, times, scheduler, now, commands>>

\* A start that raises, or an instance that is not there 5 s later, uses up
\* an attempt.
NextAttempt ==
  IF sched.attempt < 2 THEN KillFor(sched.attempt + 1)
                       ELSE sched' = Idle /\ UNCHANGED <<alive, faults>>

ScheduledStart ==
  /\ sched.stage = "killed"
  /\ alive' = alive \union {files["exe"]}
  /\ sched' = [sched EXCEPT !.stage = "started"]
  /\ UNCHANGED <<files, backup, deploys, monitor, times, scheduler, triggered, bounds>>

ScheduledStartRaises ==
  /\ sched.stage = "killed"
  /\ faults < FaultBound
  /\ NextAttempt
  /\ UNCHANGED <<files, backup, deploys, monitor, times, scheduler, triggered, now, commands>>

ScheduledVerify ==
  /\ sched.stage = "started"
  /\ IF alive # {} THEN sched' = Idle /\ UNCHANGED <<alive, faults>>
                   ELSE NextAttempt
  /\ UNCHANGED <<files, backup, deploys, monitor, times, scheduler, triggered, now, commands>>

-----------------------------------------------------------------------------
\* CMD_CONFIG and _on_config_reload: the schedule, the monitor's flag.  An
\* agent that was started without a schedule has no scheduler to tell.
Reload(s) ==
  /\ Command(s)
  /\ \/ /\ times' \in SUBSET (0 .. DayLength - 1) \ {times}
        /\ triggered' = IF scheduler THEN {} ELSE triggered
        /\ UNCHANGED auto
     \/ auto' = ~auto /\ UNCHANGED <<times, triggered>>
  /\ UNCHANGED <<program, deploys, mon, prev, sched, scheduler, now, faults>>

Next ==
  \/ \E s \in Server :
       \/ BareRestart(s) \/ Stop(s) \/ Start(s) \/ Backup(s) \/ Rollback(s)
       \/ Deploy(s) \/ DeployFails(s) \/ HealthGood(s) \/ HealthBad(s)
       \/ Stage(s) \/ StageFile(s) \/ Extract(s) \/ Staged(s)
       \/ StageAgent(s) \/ UpdateAgent(s)
       \/ LoseConnection(s) \/ Reload(s)
  \/ Crash \/ AgentCrash \/ Check \/ CheckGoesOn \/ RestartTold
  \/ Tick \/ Trigger \/ ScheduledStart \/ ScheduledStartRaises \/ ScheduledVerify

Spec == Init /\ [][Next]_vars

\* The loops of the agent go on: their sleeps, their notifications (the bot's
\* requests have timeouts) and the health check end.
FairSpec ==
  /\ Spec
  /\ WF_vars(Check) /\ WF_vars(CheckGoesOn) /\ WF_vars(RestartTold)
  /\ WF_vars(ScheduledStart \/ ScheduledStartRaises) /\ WF_vars(ScheduledVerify)
  /\ \A s \in Server : WF_vars(HealthGood(s) \/ HealthBad(s))

-----------------------------------------------------------------------------
(* What the answer to a deployment says of the program is so.  One that a  *)
(* later look of the health check verifies has its executable still in     *)
(* place, whatever monitor, schedule, crashes and lost threads did since   *)
(* it was copied, and its backup is what it found; one whose health check  *)
(* fails leaves the executable it found (ProcessDeployer.execute_deploy).  *)
(* It takes that one server gives the commands.                            *)
OutcomeIsTrue ==
  [][\A s \in Server :
       /\ HealthGood(s) => files["exe"] = put[s] /\ backup = found[s]
       /\ HealthBad(s) => files'["exe"] = found[s]]_vars

(* With automatic restart on, a program that is down is up again, or the   *)
(* restart is switched off (ProcessMonitorLoop.run).                       *)
Recovered == (alive = {} /\ auto) ~> (alive # {} \/ ~auto)

(* A program that stays down is reported as down (process_status).         *)
DownIsReported == [](alive = {} => <>(alive # {} \/ prev = "down"))
=============================================================================
