----------------------------- MODULE Ownership ------------------------------
(***************************************************************************)
(* One agent, several command servers: RecordingOwnership lets the first   *)
(* server whose START arrives own the recordings, and each server's        *)
(* RecordingController runs a watcher for its server.                      *)
(*                                                                         *)
(* try_acquire and release await nothing while they hold their lock, so    *)
(* each is one step, and so is the handling of a START.  Stopping a        *)
(* watcher does await: on_connection_lost gives the ownership back in a    *)
(* later step than the one that cancelled the watcher.                     *)
(***************************************************************************)
EXTENDS Naturals, Sequences, FiniteSets

CONSTANTS
  Server,       \* names of the configured servers
  None,         \* no owner
  ChannelBound  \* bounds the commands on the way to the agent

ASSUME OwnershipAssumption == None \notin Server /\ ChannelBound \in Nat

Commands == {"START", "STOP"}

VARIABLES
  owner,        \* RecordingOwnership._owner
  watcher,      \* per server, _rec_watcher: off, running, stopping
  link,         \* per server, the TCPClient: down, up, or "lost" while
                \* on_connection_lost runs
  channel       \* per server, commands the agent has not read

vars == <<owner, watcher, link, channel>>

(* The values the variables take; what a connection carried goes with it.  *)
TypeOK ==
  /\ owner \in Server \union {None}
  /\ watcher \in [Server -> {"off", "running", "stopping"}]
  /\ link \in [Server -> {"down", "up", "lost"}]
  /\ channel \in [Server -> Seq(Commands)]
  /\ \A s \in Server : link[s] # "up" => channel[s] = <<>>

Init ==
  /\ owner = None
  /\ watcher = [s \in Server |-> "off"]
  /\ link = [s \in Server |-> "down"]
  /\ channel = [s \in Server |-> <<>>]

-----------------------------------------------------------------------------
\* TCPClient.connect, at the start or from the reconnect branch of the
\* heartbeat loop.
Connect(s) ==
  /\ link[s] = "down"
  /\ link' = [link EXCEPT ![s] = "up"]
  /\ UNCHANGED <<owner, watcher, channel>>

\* The server sends CMD_REC.
Command(s) ==
  /\ link[s] = "up"
  /\ Len(channel[s]) < ChannelBound
  /\ \E cmd \in Commands : channel' = [channel EXCEPT ![s] = Append(@, cmd)]
  /\ UNCHANGED <<owner, watcher, link>>

\* The receive loop reads cmd; while it awaits the end of a watcher it
\* reads nothing.
ReadCommand(s, cmd) ==
  /\ link[s] = "up"
  /\ watcher[s] # "stopping"
  /\ channel[s] # <<>>
  /\ Head(channel[s]) = cmd
  /\ channel' = [channel EXCEPT ![s] = Tail(@)]
  /\ UNCHANGED link

\* try_acquire: the answer; a free ownership is taken with it.
Acquires(s) == owner \in {None, s}

HandleStart(s) ==
  /\ ReadCommand(s, "START")
  /\ IF Acquires(s)
     THEN /\ owner' = s
          /\ watcher' = [watcher EXCEPT ![s] = "running"]
     ELSE UNCHANGED <<owner, watcher>>

\* STOP ends the watcher and keeps the ownership.
Stopping(s) == IF watcher[s] = "running" THEN "stopping" ELSE watcher[s]

HandleStop(s) ==
  /\ ReadCommand(s, "STOP")
  /\ watcher' = [watcher EXCEPT ![s] = Stopping(s)]
  /\ UNCHANGED owner

\* The cancelled tasks of the watcher have ended.
WatcherStopped(s) ==
  /\ watcher[s] = "stopping"
  /\ watcher' = [watcher EXCEPT ![s] = "off"]
  /\ UNCHANGED <<owner, link, channel>>

\* What was not read on a connection is lost with it.
Emptied(s) == [channel EXCEPT ![s] = <<>>]

\* The receive loop ends by itself: end of stream, no packet for a while, a
\* DISCONNECT.  Nobody calls on_connection_lost.
ReceiveLoopEnds(s) ==
  /\ link[s] = "up"
  /\ watcher[s] # "stopping"
  /\ link' = [link EXCEPT ![s] = "down"]
  /\ channel' = Emptied(s)
  /\ UNCHANGED <<owner, watcher>>

\* A heartbeat cannot be sent: close_on_error, then on_connection_lost up
\* to the end of the watcher.
HeartbeatFails(s) ==
  /\ link[s] = "up"
  /\ link' = [link EXCEPT ![s] = "lost"]
  /\ channel' = Emptied(s)
  /\ watcher' = [watcher EXCEPT ![s] = Stopping(s)]
  /\ UNCHANGED owner

NotReleased(s) == owner                 \* variant: release forgotten

\* release: only the owner gives the ownership back.
Released(s) == IF owner = s THEN None ELSE owner

EarlyRelease(s) == TRUE                 \* variant: released while it stops

ReadyToRelease(s) == watcher[s] = "off"

Release(s) ==
  /\ link[s] = "lost"
  /\ ReadyToRelease(s)
  /\ owner' = Released(s)
  /\ link' = [link EXCEPT ![s] = "down"]
  /\ UNCHANGED <<watcher, channel>>

-----------------------------------------------------------------------------
Read(s) == HandleStart(s) \/ HandleStop(s)

Next ==
  \E s \in Server :
    \/ Connect(s) \/ Command(s) \/ Read(s) \/ WatcherStopped(s)
    \/ ReceiveLoopEnds(s) \/ HeartbeatFails(s) \/ Release(s)

Spec == Init /\ [][Next]_vars

(***************************************************************************)
(* The agent's coroutines are scheduled.  Whether a server answers and     *)
(* what it commands is left open.                                          *)
(***************************************************************************)
FairSpec ==
  /\ Spec
  /\ \A s \in Server : /\ WF_vars(Read(s))
                       /\ WF_vars(WatcherStopped(s))
                       /\ WF_vars(Release(s))

-----------------------------------------------------------------------------
(* A watcher runs only for the server that owns the recordings, from its   *)
(* START to the end of its last task, so two servers never have the same   *)
(* recordings analyzed (server_connection.py:33, controller.py:440).       *)
WatcherIsOwners == \A s \in Server : watcher[s] # "off" => owner = s

(* The ownership changes hands only through a release: it is never taken   *)
(* from a server that has it, and no other server's loss gives it back     *)
(* (server_connection.py:46, 54).                                          *)
NeverTakenOver ==
  [][\A s \in Server :
       owner = s /\ owner' # s => owner' = None /\ link[s] = "lost"]_vars

(* A lost connection that a heartbeat discovers frees the recordings for   *)
(* the other servers (controller.py:440).                                  *)
LossReleases == \A s \in Server : link[s] = "lost" ~> owner # s

(* "Owner disconnects -> released" (server_connection.py:36): an owner     *)
(* whose connection is gone is back or gives the ownership up.             *)
OwnerGoneReleases ==
  \A s \in Server : owner = s /\ link[s] = "down" ~> owner # s \/ link[s] = "up"
=============================================================================
