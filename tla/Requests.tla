------------------------------- MODULE Requests -------------------------------
(***************************************************************************)
(* The server's questions to its agents and the futures that wait for the  *)
(* answers (tcp_server.py).  Each kind of question has a table of its own, *)
(* kept by agent, by agent and action, or by the question's own id; a      *)
(* behaviour is about one kind, chosen at the start.                       *)
(*                                                                         *)
(* A future is named by the request that made it.                          *)
(***************************************************************************)
EXTENDS Integers, Sequences, FiniteSets

CONSTANTS
  Agent,
  Request,       \* records [agent, action, id]
  IdStarts,      \* {<<a, b>>: the id of b starts with the id of a}
  LossBound      \* lost connections at most

Kinds == {"config", "exec", "data", "control", "file"}

VARIABLES
  kind,
  at,            \* request -> where its coroutine is
  waits,         \* request -> the future it waits for
  pending,       \* the futures that are not done
  result,        \* future -> the request whose answer it got; a partial function
  table,         \* key -> future; a partial function
  session, link, \* agent -> the server has a session; its connection is up
  down, up,      \* agent -> packets on the connection: the requests, the answers to them
  losses,
  crossed        \* requests that met another of the same key, history

vars == <<kind, at, waits, pending, result, table, session, link, down, up, losses, crossed>>

\* Variant: file requests are kept by their agent, too.
KeyByAgent(r) == IF kind = "control" THEN <<r.agent, r.action>> ELSE r.agent

Key(r) ==
  CASE kind = "file" -> r.id
    [] kind = "control" -> <<r.agent, r.action>>
    [] OTHER -> r.agent

KeyAgent(k) == IF kind = "control" THEN k[1] ELSE k

Init ==
  /\ kind \in Kinds
  /\ at = [r \in Request |-> "new"]
  /\ waits = [r \in Request |-> r]
  /\ pending = {}
  /\ result = <<>>
  /\ table = <<>>
  /\ session = [a \in Agent |-> TRUE]
  /\ link = [a \in Agent |-> TRUE]
  /\ down = [a \in Agent |-> <<>>] /\ up = [a \in Agent |-> <<>>]
  /\ losses = 0
  /\ crossed = {}

Without(k) == [j \in DOMAIN table \ {k} |-> table[j]]
With(f, k, v) == [j \in DOMAIN f \cup {k} |-> IF j = k THEN v ELSE f[j]]
Open(r) == at[r] \in {"draining", "waiting"}
UnderWay(r) ==
  r \in {down[r.agent][i] : i \in DOMAIN down[r.agent]}
        \cup {up[r.agent][i] : i \in DOMAIN up[r.agent]}

-----------------------------------------------------------------------------
(* The coroutine of a request.                                             *)

\* The future goes into the table, whatever is there; the packet is written.
Ask(r) ==
  LET met == {q \in Request \ {r} : /\ q.agent = r.agent
                                    /\ kind = "control" => q.action = r.action
                                    /\ Open(q) \/ UnderWay(q)}
  IN /\ at[r] = "new"
     /\ session[r.agent]
     /\ at' = [at EXCEPT ![r] = "draining"]
     /\ pending' = pending \cup {r}
     /\ table' = With(table, Key(r), r)
     /\ down' = IF link[r.agent] THEN [down EXCEPT ![r.agent] = Append(@, r)] ELSE down
     /\ crossed' = crossed \cup met \cup (IF met = {} THEN {} ELSE {r})
     /\ UNCHANGED <<kind, waits, result, session, link, up, losses>>

\* The drain is over.  Control and file requests look their future up again, in
\* a table where their key may be gone (KeyError) or another request's.
Drained(r) ==
  /\ at[r] = "draining"
  /\ IF kind \notin {"control", "file"}
     THEN at' = [at EXCEPT ![r] = "waiting"] /\ waits' = waits
     ELSE IF Key(r) \in DOMAIN table
     THEN /\ at' = [at EXCEPT ![r] = "waiting"]
          /\ waits' = [waits EXCEPT ![r] = table[Key(r)]]
     ELSE at' = [at EXCEPT ![r] = "failed"] /\ waits' = waits
  /\ UNCHANGED <<kind, pending, result, table, session, link, down, up, losses, crossed>>

\* The drain raises; the future stays in the table.
DrainRaises(r) ==
  /\ at[r] = "draining"
  /\ ~link[r.agent]
  /\ at' = [at EXCEPT ![r] = "failed"]
  /\ UNCHANGED <<kind, waits, pending, result, table, session, link, down, up, losses, crossed>>

\* The finally of control and file requests takes the key away, whoever's it is.
Left(r) == IF kind \in {"control", "file"} THEN Without(Key(r)) ELSE table

\* wait_for ends with the future: its answer, or its cancellation by another.
Finish(r) ==
  /\ at[r] = "waiting"
  /\ waits[r] \notin pending
  /\ at' = [at EXCEPT ![r] = IF waits[r] \in DOMAIN result THEN "answered" ELSE "failed"]
  /\ table' = Left(r)
  /\ UNCHANGED <<kind, waits, pending, result, session, link, down, up, losses, crossed>>

\* wait_for cancels the future.  A data request takes its agent's entry away, a
\* configuration or execution request leaves it.
TimeOut(r) ==
  /\ at[r] = "waiting"
  /\ waits[r] \in pending
  /\ at' = [at EXCEPT ![r] = "timed out"]
  /\ pending' = pending \ {waits[r]}
  /\ table' = IF kind = "data" THEN Without(Key(r)) ELSE Left(r)
  /\ UNCHANGED <<kind, waits, result, session, link, down, up, losses, crossed>>

-----------------------------------------------------------------------------
(* The connection.                                                         *)

\* The agent's handlers run in its receive loop, one packet after the other.
Answer(a) ==
  /\ down[a] # <<>>
  /\ down' = [down EXCEPT ![a] = Tail(@)]
  /\ up' = [up EXCEPT ![a] = Append(@, Head(down[a]))]
  /\ UNCHANGED <<kind, at, waits, pending, result, table, session, link, losses, crossed>>

\* _handle_config_ack, _handle_rec_data_resp, the branch of CMD_EXEC_ACK: the
\* entry is taken out; _handle_cmd_ctrl_ack and the handlers of files leave it.
HandleAnswer(a) ==
  LET q == Head(up[a])
      k == Key(q)
  IN /\ up[a] # <<>>
     /\ up' = [up EXCEPT ![a] = Tail(@)]
     /\ table' = IF kind \in {"control", "file"} THEN table ELSE Without(k)
     /\ IF k \in DOMAIN table /\ table[k] \in pending
        THEN pending' = pending \ {table[k]} /\ result' = With(result, table[k], q)
        ELSE UNCHANGED <<pending, result>>
     /\ UNCHANGED <<kind, at, waits, session, link, down, losses, crossed>>

Lose(a) ==
  /\ link[a]
  /\ losses < LossBound
  /\ losses' = losses + 1
  /\ link' = [link EXCEPT ![a] = FALSE]
  /\ down' = [down EXCEPT ![a] = <<>>]
  /\ up' = [up EXCEPT ![a] = <<>>]
  /\ UNCHANGED <<kind, at, waits, pending, result, table, session, crossed>>

\* The finally of _handle_client with _cleanup_agent_state: keys that start with
\* the agent's id are dropped, other agents' among them; data requests and file
\* requests, whose ids do not, stay.
HandlerEnds(a) ==
  /\ ~link[a]
  /\ session[a]
  /\ session' = [session EXCEPT ![a] = FALSE]
  /\ table' = IF kind \in {"data", "file"} THEN table
              ELSE [k \in {j \in DOMAIN table : <<a, KeyAgent(j)>> \notin IdStarts} |-> table[k]]
  /\ UNCHANGED <<kind, at, waits, pending, result, link, down, up, losses, crossed>>

\* The agent is back; when its old session is still there it is replaced, and
\* the handler of the old connection will clean nothing.
Return(a) ==
  /\ ~link[a]
  /\ link' = [link EXCEPT ![a] = TRUE]
  /\ session' = [session EXCEPT ![a] = TRUE]
  /\ UNCHANGED <<kind, at, waits, pending, result, table, down, up, losses, crossed>>

Next ==
  \/ \E r \in Request :
       \/ Ask(r)
       \/ Drained(r)
       \/ DrainRaises(r)
       \/ Finish(r)
       \/ TimeOut(r)
  \/ \E a \in Agent :
       \/ Answer(a)
       \/ HandleAnswer(a)
       \/ Lose(a)
       \/ HandlerEnds(a)
       \/ Return(a)

Spec == Init /\ [][Next]_vars

-----------------------------------------------------------------------------

\* What a request is answered with is the answer to itself, unless it met
\* another of its agent (and action): one that was open, or whose answer came
\* after its timeout.  A file request is never answered with another's
\* (tcp_server.py:646-704, 960-1004, 1033-1078, 1651-1703).
OwnAnswer ==
  \A r \in Request :
    at[r] = "answered" /\ result[waits[r]] # r => r \in crossed /\ kind # "file"
=============================================================================
