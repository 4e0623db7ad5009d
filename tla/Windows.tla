------------------------------ MODULE Windows -------------------------------
(***************************************************************************)
(* The windows of the server, side by side: an agent's configuration       *)
(* (ConfigEdit), the manager of the server's process (ServerManager) and   *)
(* those that deploy (DeployTab).  Each has a specification of its own, of *)
(* its own variables, and its properties are stated of that.               *)
(***************************************************************************)
EXTENDS Integers

CONSTANTS
  Editor, Value, ItemBound, ApplyBound,         \* of ConfigEdit
  AutoStart, StartBound, PipeBound,             \* of ServerManager
  Target,                                       \* of DeployTab: the agents
  AskBound, FileBound, JobBound

\* An agent is not what stands for none, for the first one, or for one that is read later.
ASSUME TargetAssumption == Target \cap {"none", "(auto)", "later", ""} = {}

VARIABLES
  key, hasText, file, backup, editor, queue, applies, last,
  phase, pipe, dash, stopper, changed, proc, shown, dashShown, timers, readers, posts, quit, late,
  kind, first, chosen, listed, asks, files, jobs, sent, tooLate

E == INSTANCE ConfigEdit
M == INSTANCE ServerManager
D == INSTANCE DeployTab WITH Agent <- Target, shown <- listed, late <- tooLate

-----------------------------------------------------------------------------
\* The properties of the modules, where they are explained.
OnlyEditedWritten == E!OnlyEditedWritten
ServerKnown == M!ServerKnown
SentAsShown == D!SentAsShown
=============================================================================
