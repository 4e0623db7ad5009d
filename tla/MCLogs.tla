------------------------------- MODULE MCLogs -------------------------------
(***************************************************************************)
(* What becomes of a log line on its way to a reader: the agent follows    *)
(* the file, the server keeps the line for the viewer.  A behaviour is one *)
(* of the two parts, chosen at the start; the variables of the other keep  *)
(* one of their initial values.                                            *)
(***************************************************************************)
EXTENDS Integers, Sequences, FiniteSets

CONSTANTS
  Followed, WriteBound, QueueBound, RotateBound, ReloadBound, ReadFaults,
  Full, Kept, LineBound, ReturnBound

\* The folders have a number of files; a cut leaves no more than the limit (500 of 1000).
ASSUME FiniteFollowed == IsFiniteSet(Followed)
ASSUME KeptAssumption == Full \in Nat /\ Kept \in Nat /\ Kept <= Full

VARIABLES
  part,
  size, gen, watched, positions, queue, observing, consumer, orphans, reloads, faults, seen,
  start,
  received, session, buffer, disk, viewer, shown, returns

T == INSTANCE LogTail WITH File <- Followed
V == INSTANCE LogView

tailVars == <<size, gen, watched, positions, queue, observing, consumer, orphans, reloads,
              faults, seen, start>>
viewVars == <<received, session, buffer, disk, viewer, shown, returns>>
vars == <<part, tailVars, viewVars>>

\* The part that is not chosen starts at one of its initial states.
Init ==
  /\ part \in {"tail", "view"}
  /\ T!Init /\ (part # "tail" => size = [f \in Followed |-> 0])
  /\ V!Init /\ (part # "view" => viewer.resets)

Next ==
  \/ part = "tail" /\ T!Next /\ UNCHANGED <<part, viewVars>>
  \/ part = "view" /\ V!Next /\ UNCHANGED <<part, tailVars>>

Spec == Init /\ [][Next]_vars /\ T!Fairness /\ V!Fairness

-----------------------------------------------------------------------------
\* The properties of the two modules, where they are explained.  Each line is read once
\* and shown once, and none is passed over (log_watcher.py, logs.py).
EachLineOnce == T!NeverTwice /\ T!NothingSkipped /\ V!ShownOnce
FollowedToTheEnd == T!FollowedToTheEnd
ShownInTheEnd == V!ShownInTheEnd
=============================================================================
