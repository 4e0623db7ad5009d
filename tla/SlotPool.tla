------------------------------ MODULE SlotPool ------------------------------
(***************************************************************************)
(* What the server's counter of recordings in process promises: a pool of  *)
(* slots in which every upload takes one slot when it is counted and gives *)
(* back that very slot, once.  RecFlow implements it.                      *)
(***************************************************************************)
EXTENDS Integers

CONSTANT Job

VARIABLES
  held,     \* the uploads that hold a slot
  count     \* the number the server shows and compares with its maximum

vars == <<held, count>>

Init == held = {} /\ count = 0

Take(j) ==
  /\ j \notin held
  /\ held' = held \union {j}
  /\ count' = count + 1

Give(j) ==
  /\ j \in held
  /\ held' = held \ {j}
  /\ count' = count - 1

Next == \E j \in Job : Take(j) \/ Give(j)

Spec == Init /\ [][Next]_vars

=============================================================================
