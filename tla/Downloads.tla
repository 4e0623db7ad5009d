------------------------------- MODULE Downloads -------------------------------
(***************************************************************************)
(* Files that the server fetches from its agents: send_file_get, the       *)
(* receiver kept for each agent and the pieces that carry no request id    *)
(* (tcp_server.py, file_handler.py, file_transfer.py).                     *)
(*                                                                         *)
(* A piece is <<file, version, place>>; a file's digest is its pieces.     *)
(* After a reconnection the old connection's handler may still have        *)
(* packets to read.                                                        *)
(***************************************************************************)
EXTENDS Integers, Sequences, FiniteSets, SequencesExt

CONSTANTS
  Agent,
  Request,        \* records [agent, file]
  Pieces,         \* the pieces of a file's versions: <<n1, n2, ...>>
  Unsteady        \* the agents whose connection may break, once

VARIABLES
  at,             \* request -> its coroutine
  result,         \* request -> "none", "pending", "ok", "error"
  lock,           \* agent -> the requests whose lock is the one in the table
  gets,           \* _file_get_save_paths: the requests in their order
  receiver,       \* agent -> the pieces expected and received; a partial function
  saved,          \* request -> what is at its save path
  session, link,
  down,           \* agent -> requests on the connection
  up, old,        \* agent -> packets of the connection, of the one before
  broken,         \* the agents whose connection did
  crossed         \* requests that met another, history

vars == <<at, result, lock, gets, receiver, saved, session, link, down, up, old, broken,
          crossed>>

Content(file, version) == [i \in 1 .. Pieces[version] |-> <<file, version, i>>]

Init ==
  /\ at = [r \in Request |-> "new"]
  /\ result = [r \in Request |-> "none"]
  /\ lock = [a \in Agent |-> {}]
  /\ gets = <<>>
  /\ receiver = <<>>
  /\ saved = [r \in Request |-> <<>>]
  /\ session = [a \in Agent |-> TRUE] /\ link = [a \in Agent |-> TRUE]
  /\ down = [a \in Agent |-> <<>>]
  /\ up = [a \in Agent |-> <<>>] /\ old = [a \in Agent |-> <<>>]
  /\ broken = {}
  /\ crossed = {}

WithoutReceiver(a) == [b \in DOMAIN receiver \ {a} |-> receiver[b]]
WithReceiver(a, rcv) ==
  [b \in DOMAIN receiver \cup {a} |-> IF b = a THEN rcv ELSE receiver[b]]

-----------------------------------------------------------------------------
(* send_file_get.                                                          *)

\* lock.locked(); the lock is made anew after _cleanup_agent_state.
LockFree(a) == lock[a] = {}

\* What may take the place of another: an open request of another agent or of a
\* lock that was dropped, the entry of a failed one, packets of one that is over.
Meets(q, r) ==
  /\ q # r
  /\ \/ q \in ToSet(gets) /\ (q.agent # r.agent \/ at[q] = "ended" \/ q \in crossed)
     \/ at[q] = "ended" /\ down[q.agent] \o up[q.agent] \o old[q.agent] # <<>>

Ask(r) ==
  LET met == {q \in Request : Meets(q, r)}
  IN /\ at[r] = "new"
     /\ session[r.agent]
     /\ LockFree(r.agent)
     /\ at' = [at EXCEPT ![r] = "draining"]
     /\ result' = [result EXCEPT ![r] = "pending"]
     /\ lock' = [lock EXCEPT ![r.agent] = @ \cup {r}]
     /\ gets' = Append(gets, r)
     /\ down' = IF link[r.agent] THEN [down EXCEPT ![r.agent] = Append(@, r)] ELSE down
     /\ crossed' = crossed \cup met \cup (IF met = {} THEN {} ELSE {r})
     /\ UNCHANGED <<receiver, saved, session, link, up, old, broken>>

Drained(r) ==
  /\ at[r] = "draining"
  /\ at' = [at EXCEPT ![r] = "open"]
  /\ UNCHANGED <<result, lock, gets, receiver, saved, session, link, down, up, old, broken,
                 crossed>>

\* The drain raises: the lock goes, the entries stay for good.
DrainRaises(r) ==
  /\ at[r] = "draining"
  /\ ~link[r.agent]
  /\ at' = [at EXCEPT ![r] = "ended"]
  /\ lock' = [lock EXCEPT ![r.agent] = @ \ {r}]
  /\ UNCHANGED <<result, gets, receiver, saved, session, link, down, up, old, broken, crossed>>

\* The end of the coroutine: its entries and its lock go.
Ends(r) ==
  /\ at' = [at EXCEPT ![r] = "ended"]
  /\ \E i \in DOMAIN gets : gets[i] = r /\ gets' = RemoveAt(gets, i)
  /\ lock' = [lock EXCEPT ![r.agent] = @ \ {r}]

Finish(r) ==
  /\ at[r] = "open"
  /\ result[r] \in {"ok", "error"}
  /\ Ends(r)
  /\ UNCHANGED <<result, receiver, saved, session, link, down, up, old, broken, crossed>>

\* After 120 s: the receiver of the agent goes, too.
TimeOut(r) ==
  /\ at[r] = "open"
  /\ result[r] = "pending"
  /\ result' = [result EXCEPT ![r] = "error"]
  /\ receiver' = WithoutReceiver(r.agent)
  /\ Ends(r)
  /\ UNCHANGED <<saved, session, link, down, up, old, broken, crossed>>

-----------------------------------------------------------------------------
(* handle_cmd_file_get.                                                    *)

\* No file, too large, or disabled.
Refuse(a) ==
  /\ down[a] # <<>>
  /\ down' = [down EXCEPT ![a] = Tail(@)]
  /\ up' = [up EXCEPT ![a] = Append(@, [type |-> "refusal", request |-> Head(down[a])])]
  /\ UNCHANGED <<at, result, lock, gets, receiver, saved, session, link, old, broken, crossed>>

\* The size and the digest of one version, the pieces of it or of a later one.
Serve(a, version, read) ==
  LET r == Head(down[a])
      pieces == Content(r.file, read)
  IN /\ down[a] # <<>>
     /\ read \in {version, version + 1}
     /\ down' = [down EXCEPT ![a] = Tail(@)]
     /\ up' = [up EXCEPT ![a] =
                 @ \o <<[type |-> "accepted", request |-> r, digest |-> Content(r.file, version)]>>
                   \o [i \in DOMAIN pieces |-> [type |-> "piece", piece |-> pieces[i]]]]
     /\ UNCHANGED <<at, result, lock, gets, receiver, saved, session, link, old, broken, crossed>>

-----------------------------------------------------------------------------
(* The server's handlers of one packet, of the connection or the one before. *)

\* _handle_file_get_ack: a success makes a receiver, whoever waits for it.
Acknowledged(a, packet) ==
  /\ IF packet.type = "refusal"
     THEN /\ result' = IF /\ result[packet.request] = "pending"
                          /\ packet.request \in ToSet(gets)
                       THEN [result EXCEPT ![packet.request] = "error"] ELSE result
          /\ receiver' = receiver
     ELSE /\ receiver' = WithReceiver(a, [digest |-> packet.digest, pieces |-> <<>>])
          /\ result' = result
  /\ UNCHANGED <<gets, saved>>

\* receive_chunk: a place that is filled stays as it is.
With(pieces, piece) ==
  IF \E i \in DOMAIN pieces : pieces[i][3] = piece[3] THEN pieces ELSE Append(pieces, piece)

\* Variant: the digest is not compared.
AnyDigest(rcv) == TRUE

\* assemble: the pieces by their place, as much as expected, are the file.
Assembled(rcv) ==
  SubSeq(SetToSortSeq(ToSet(rcv.pieces), LAMBDA p, q : p[3] < q[3]), 1, Len(rcv.digest))
DigestMatches(rcv) == Assembled(rcv) = rcv.digest

\* _handle_file_chunk_from_agent: a complete file goes to the first request of
\* the table, of whatever agent; its future may be done.
Received(a, packet) ==
  LET rcv == [receiver[a] EXCEPT !.pieces = With(@, packet.piece)]
      outcome == IF DigestMatches(rcv) THEN "ok" ELSE "error"
  IN IF a \notin DOMAIN receiver
     THEN UNCHANGED <<receiver, result, saved, gets>>
     ELSE IF Len(rcv.pieces) < Len(rcv.digest)
     THEN receiver' = WithReceiver(a, rcv) /\ UNCHANGED <<result, saved, gets>>
     ELSE /\ receiver' = WithoutReceiver(a)
          /\ IF gets = <<>> THEN UNCHANGED <<result, saved>>
             ELSE /\ result' = IF result[gets[1]] = "pending"
                               THEN [result EXCEPT ![gets[1]] = outcome] ELSE result
                  /\ saved' = IF outcome = "ok"
                              THEN [saved EXCEPT ![gets[1]] = Assembled(rcv)] ELSE saved
          /\ gets' = gets

HandlePacket(a, packet) ==
  IF packet.type = "piece" THEN Received(a, packet) ELSE Acknowledged(a, packet)

Handle(a) ==
  /\ up[a] # <<>>
  /\ HandlePacket(a, Head(up[a]))
  /\ up' = [up EXCEPT ![a] = Tail(@)]
  /\ UNCHANGED <<at, lock, session, link, down, old, broken, crossed>>

HandleOld(a) ==
  /\ old[a] # <<>>
  /\ HandlePacket(a, Head(old[a]))
  /\ old' = [old EXCEPT ![a] = Tail(@)]
  /\ UNCHANGED <<at, lock, session, link, down, up, broken, crossed>>

-----------------------------------------------------------------------------

\* The connection breaks; some of what was sent has reached the server.
Lose(a) ==
  /\ link[a]
  /\ a \in Unsteady \ broken
  /\ broken' = broken \cup {a}
  /\ link' = [link EXCEPT ![a] = FALSE]
  /\ \E n \in 0 .. Len(up[a]) : old' = [old EXCEPT ![a] = SubSeq(up[a], 1, n)]
  /\ up' = [up EXCEPT ![a] = <<>>]
  /\ down' = [down EXCEPT ![a] = <<>>]
  /\ UNCHANGED <<at, result, lock, gets, receiver, saved, session, crossed>>

\* The finally of the handler, unless the agent has a new session: the receiver
\* and the lock of the agent go, the requests stay.
HandlerEnds(a) ==
  /\ ~link[a] /\ session[a]
  /\ old[a] = <<>>
  /\ session' = [session EXCEPT ![a] = FALSE]
  /\ receiver' = WithoutReceiver(a)
  /\ lock' = [lock EXCEPT ![a] = {}]
  /\ crossed' = crossed \cup {r \in lock[a] : at[r] # "ended"}
  /\ UNCHANGED <<at, result, gets, saved, link, down, up, old, broken>>

Return(a) ==
  /\ ~link[a]
  /\ link' = [link EXCEPT ![a] = TRUE]
  /\ session' = [session EXCEPT ![a] = TRUE]
  /\ UNCHANGED <<at, result, lock, gets, receiver, saved, down, up, old, broken, crossed>>

Next ==
  \/ \E r \in Request : Ask(r) \/ Drained(r) \/ DrainRaises(r) \/ Finish(r) \/ TimeOut(r)
  \/ \E a \in Agent :
       \/ Refuse(a)
       \/ \E version, read \in DOMAIN Pieces : Serve(a, version, read)
       \/ Handle(a)
       \/ HandleOld(a)
       \/ Lose(a)
       \/ HandlerEnds(a)
       \/ Return(a)

Spec == Init /\ [][Next]_vars

-----------------------------------------------------------------------------

\* Whatever is at a save path is one whole version of one file, although pieces
\* carry no request id, come late from requests that timed out, and two
\* connections of one agent fill one receiver (file_transfer.py:44-62).
SavedIsWhole ==
  \A r \in Request :
    saved[r] # <<>> =>
      \E q \in Request, v \in DOMAIN Pieces : saved[r] = Content(q.file, v)

\* A download that met no other, of any agent, and nothing left under way of an
\* earlier one, has its own file when it reports success.  With two agents at
\* once the first request of the table takes what is finished first
\* (tcp_server.py:916-957).
OwnFile ==
  \A r \in Request \ crossed :
    result[r] = "ok" => saved[r] # <<>> /\ saved[r][1][1] = r.file
=============================================================================
