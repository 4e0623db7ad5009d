------------------------------ MODULE LogRecords ------------------------------
(***************************************************************************)
(* What is kept of the logs and how it is counted: the transfer of a day's *)
(* files (LogHistory) and the running statistics (MonitorState).  A        *)
(* behaviour is of one of them, chosen at the start; the variables of the  *)
(* other keep their first value.                                           *)
(***************************************************************************)
EXTENDS Integers, Sequences, FiniteSets

CONSTANTS
  Day, File, TooLarge, VersionBound, RequestBound, LossBound,      \* of LogHistory
  Chan, Ext, Thread, Window, IaTimeout, Lag, TimeBound, EventBound \* of MonitorState

\* The kinds of line that are counted, each for its window.
EventKind == {"rtp_start", "rtp_bye", "file_open", "file_close", "smdr", "mismatch"}
ASSUME WindowAssumption == Window \in [EventKind -> Nat]

\* A folder's number is a byte (protocol.py: LogRealPayload).
ASSUME FileAssumption == \A f \in File : f.folder \in 0 .. 255

VARIABLES
  record,
  written, tasks, event, selection, pending, up, down, stored, progress, requests, losses,
  overlap, acked,
  now, last, threads, events, sessions, iaPending, iaNoRtp, report, lines, ia

H == INSTANCE LogHistory WITH text <- written
M == INSTANCE MonitorState WITH shown <- report, LineBound <- EventBound

historyVars == <<written, tasks, event, selection, pending, up, down, stored, progress, requests,
                 losses, overlap, acked>>
monitorVars == <<now, last, threads, events, sessions, iaPending, iaNoRtp, report, lines, ia>>
keptVars == <<record, historyVars, monitorVars>>

\* "neither" is for what a module adds to them.
KeptInit ==
  /\ record \in {"history", "monitor", "neither"}
  /\ H!Init
  /\ M!Init

KeptNext ==
  \/ record = "history" /\ H!Next /\ UNCHANGED <<record, monitorVars>>
  \/ record = "monitor" /\ M!Next /\ UNCHANGED <<record, historyVars>>

KeptSpec == KeptInit /\ [][KeptNext]_keptVars

-----------------------------------------------------------------------------
\* The properties of the two modules, where they are explained.
AckedIsStored == H!AckedIsStored
IaAccounted == M!IaAccounted
CountsAreOfWindow == M!CountsAreOfWindow
=============================================================================
