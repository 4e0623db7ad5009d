------------------------------ MODULE RecStore ------------------------------
(***************************************************************************)
(* The recordings at the server, side by side: the table that shows them   *)
(* (RecTable), and the files that are kept and served (RecStream).  Each   *)
(* has a specification of its own, of its own variables, and its           *)
(* properties are stated of that.                                          *)
(***************************************************************************)
EXTENDS Integers

CONSTANTS
  Agent,                                                  \* of both
  File, InOut, MaxRecords,                                \* of RecTable
  Served, Size, Start, End, DayBound, WriteBound, ConnectBound        \* of RecStream

\* No agent is what stands for none.
ASSUME AgentAssumption == "none" \notin Agent

\* The table holds a record at least.
ASSUME MaxAssumption == MaxRecords \in Nat \ {0}

\* Recordings have a size, and what a request names of one are numbers.
ASSUME RangeAssumption == Size \subseteq Nat /\ Start \subseteq Int /\ End \subseteq Int

VARIABLES
  records, pending, job, results,
  day, stored, writing, writes, connected, visits, reader

R == INSTANCE RecTable
F == INSTANCE RecStream WITH File <- Served

-----------------------------------------------------------------------------
\* The properties of the modules, where they are explained.
DirectionKnown == R!DirectionKnown
BodyAsPromised == F!BodyAsPromised
=============================================================================
