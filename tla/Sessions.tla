------------------------------ MODULE Sessions ------------------------------
(***************************************************************************)
(* The life of an agent's session on the command server: _handle_client    *)
(* and _handle_auth of TCPServer over SessionManager.                      *)
(*                                                                         *)
(* One _handle_client coroutine runs per connection.  Between the creation *)
(* of the session and the moment the coroutine notes which session is its  *)
(* own it awaits twice, for the drain of AUTH_ACK and for the notification *)
(* (a call to Telegram), and the agent may be back on a new connection by  *)
(* then.  A connection is <<agent, n>>, the n-th the agent opens; the      *)
(* session created on it has its name, for a session id is never reused.   *)
(***************************************************************************)
EXTENDS Naturals, FiniteSets

CONSTANTS
  Agent,        \* agent ids
  MaxConn,      \* bounds the connections an agent opens
  MaxAgents,    \* SessionManager._max_agents
  None          \* no session

ASSUME SessionsAssumption ==
  /\ IsFiniteSet(Agent)
  /\ MaxConn \in Nat \ {0}
  /\ MaxAgents \in Nat
  /\ None \notin Agent \X (1..MaxConn)

Conn == Agent \X (1..MaxConn)

VARIABLES
  sessions,     \* SessionManager._sessions
  stage,        \* per connection, where its _handle_client is
  mine,         \* its local session_id
  closed,       \* connections whose server-side writer is closed
  made,         \* per agent, the connections it has opened
  link          \* per agent, the connection it is on; 0 is none

vars == <<sessions, stage, mine, closed, made, link>>

Stages == {"none", "auth", "ack", "notify", "recv", "closing", "gone",
           "failed"}

Connected == {a \in Agent : sessions[a] # None}

(* The values the variables take; _sessions stays within its limit         *)
(* (session_mgr.py:35).                                                    *)
TypeOK ==
  /\ sessions \in [Agent -> Conn \union {None}]
  /\ Cardinality(Connected) <= MaxAgents
  /\ stage \in [Conn -> Stages]
  /\ mine \in [Conn -> Conn \union {None}]
  /\ closed \in SUBSET Conn
  /\ made \in [Agent -> 0..MaxConn]
  /\ link \in [Agent -> 0..MaxConn]

Init ==
  /\ sessions = [a \in Agent |-> None]
  /\ stage = [c \in Conn |-> "none"]
  /\ mine = [c \in Conn |-> None]
  /\ closed = {}
  /\ made = [a \in Agent |-> 0]
  /\ link = [a \in Agent |-> 0]

-----------------------------------------------------------------------------
\* The agent opens a connection and sends AUTH, with the right token.
Open(a) ==
  /\ link[a] = 0
  /\ made[a] < MaxConn
  /\ made' = [made EXCEPT ![a] = @ + 1]
  /\ link' = [link EXCEPT ![a] = made[a] + 1]
  /\ stage' = [stage EXCEPT ![<<a, made[a] + 1>>] = "auth"]
  /\ UNCHANGED <<sessions, mine, closed>>

\* The agent leaves: it stops, fails, times out or is told FAILED.
Leave(a) ==
  /\ link[a] # 0
  /\ link' = [link EXCEPT ![a] = 0]
  /\ UNCHANGED <<sessions, stage, mine, closed, made>>

\* The other end of connection c is gone, or this end is closed.
Broken(c) == link[c[1]] # c[2] \/ c \in closed

-----------------------------------------------------------------------------
\* create_session refuses a new agent when all the places are taken.
Full(a) ==
  /\ sessions[a] = None
  /\ Cardinality(Connected) >= MaxAgents

\* No session: the limit is reached, or the agent left before its AUTH.
AuthFails(c) ==
  /\ stage[c] = "auth"
  /\ Full(c[1]) \/ Broken(c)
  /\ stage' = [stage EXCEPT ![c] = "gone"]
  /\ closed' = closed \union {c}
  /\ UNCHANGED <<sessions, mine, made, link>>

\* create_session: the new session takes the place of the agent's old one,
\* whose writer it closes; AUTH_ACK is written.
CreateSession(c) ==
  LET a == c[1] IN
  /\ stage[c] = "auth"
  /\ ~Full(a)
  /\ sessions' = [sessions EXCEPT ![a] = c]
  /\ closed' = closed \union ({sessions[a]} \ {None})
  /\ stage' = [stage EXCEPT ![c] = "ack"]
  /\ UNCHANGED <<mine, made, link>>

\* The drain of AUTH_ACK returns.
AckDrained(c) ==
  /\ stage[c] = "ack"
  /\ stage' = [stage EXCEPT ![c] = "notify"]
  /\ UNCHANGED <<sessions, mine, closed, made, link>>

\* It raises, out of _handle_auth: agent_id is still None in _handle_client,
\* whose finally block then removes no session.
AckLost(c) ==
  /\ stage[c] = "ack"
  /\ Broken(c)
  /\ stage' = [stage EXCEPT ![c] = "failed"]
  /\ closed' = closed \union {c}
  /\ UNCHANGED <<sessions, mine, made, link>>

\* The notification ends, however it ends; the handler takes the agent's
\* current session for its own and starts to receive.
Notified(c) ==
  /\ stage[c] = "notify"
  /\ mine' = [mine EXCEPT ![c] = sessions[c[1]]]
  /\ stage' = [stage EXCEPT ![c] = "recv"]
  /\ UNCHANGED <<sessions, closed, made, link>>

SwappedIsOurs(c) ==                     \* variant: the comparison reversed
  LET cur == sessions[c[1]] IN
  cur # None /\ (mine[c] = None \/ cur # mine[c])

\* The agent's session is the one this handler noted, or it noted none.
IsOurs(c) ==
  LET cur == sessions[c[1]] IN
  cur # None /\ (mine[c] = None \/ cur = mine[c])

\* The receive loop ends, by an error, a DISCONNECT or 90 s of silence, and
\* the finally block removes the session it takes for its own.
RecvEnds(c) ==
  /\ stage[c] = "recv"
  /\ sessions' = IF IsOurs(c) THEN [sessions EXCEPT ![c[1]] = None]
                              ELSE sessions
  /\ stage' = [stage EXCEPT ![c] = "closing"]
  /\ UNCHANGED <<mine, closed, made, link>>

\* Its notification sent, the handler closes its writer and ends.
CloseWriter(c) ==
  /\ stage[c] = "closing"
  /\ closed' = closed \union {c}
  /\ stage' = [stage EXCEPT ![c] = "gone"]
  /\ UNCHANGED <<sessions, mine, made, link>>

-----------------------------------------------------------------------------
Authenticate(c) ==
  AuthFails(c) \/ CreateSession(c) \/ AckDrained(c) \/ AckLost(c) \/ Notified(c)

Next ==
  \/ \E a \in Agent : Open(a) \/ Leave(a)
  \/ \E c \in Conn : Authenticate(c) \/ RecvEnds(c) \/ CloseWriter(c)

Spec == Init /\ [][Next]_vars

(***************************************************************************)
(* The server's coroutines are scheduled, drains and notifications end,    *)
(* and a receive loop ends once its connection is broken: it reads the end *)
(* of the stream, or nothing for 90 s.                                     *)
(***************************************************************************)
FairSpec ==
  /\ Spec
  /\ \A c \in Conn : /\ WF_vars(Authenticate(c))
                     /\ WF_vars(Broken(c) /\ RecvEnds(c))
                     /\ WF_vars(CloseWriter(c))

-----------------------------------------------------------------------------
(* A session is never left behind by a handler that got as far as its      *)
(* receive loop: whatever other connections of the agent do in between,    *)
(* its end removes the session if it is still there.  Only a handler whose *)
(* AUTH_ACK was lost leaves one (tcp_server.py:305, 309).                  *)
NoOrphanSession ==
  \A a \in Agent, c \in Conn :
    sessions[a] = c => /\ c[1] = a
                       /\ stage[c] \in {"ack", "notify", "recv", "failed"}

(* The session of a connection its agent has left goes away, or is         *)
(* replaced, or is one that a lost AUTH_ACK left (tcp_server.py:422, 429). *)
StaleSessionEnds ==
  \A c \in Conn :
    sessions[c[1]] = c /\ link[c[1]] # c[2] ~>
      sessions[c[1]] # c \/ stage[c] = "failed"

(* "Remove only while the current session is ours (not when the agent has  *)
(* reconnected and a new session was created)" (tcp_server.py:306): a      *)
(* connection that is up and served keeps its session.                     *)
LiveSessionKept ==
  \A c \in Conn : stage[c] = "recv" /\ ~Broken(c) => sessions[c[1]] = c
=============================================================================
