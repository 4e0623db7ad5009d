------------------------------ MODULE Uploads -------------------------------
(***************************************************************************)
(* Files on their way from the command server to one agent: uploads of the *)
(* file manager (send_file_put) and deployments of a program               *)
(* (send_deploy).                                                          *)
(*                                                                         *)
(* Both send FILE_CHUNK packets that do not say which file they belong to. *)
(* The agent gives a chunk to the upload it is receiving, and else to the  *)
(* deployment handler.  Uploads to an agent take its transfer lock,        *)
(* deployments do not, and both await a drain after every few chunks: what *)
(* is written between two drains is a piece here.  What the agent has      *)
(* received survives a reconnection; the server's lock does not.           *)
(***************************************************************************)
EXTENDS Naturals, Sequences, FiniteSets

CONSTANTS
  Put,          \* calls of send_file_put
  Deploy,       \* calls of send_deploy, each of a single executable
  Size,         \* the pieces of each one's file
  MaxConn,      \* bounds the connections the agent opens
  None,         \* no request, no file
  Old,          \* the program installed at first
  Mixed         \* a file put together from pieces of several

Req == Put \union Deploy

ASSUME UploadsAssumption ==
  /\ Put \intersect Deploy = {}
  /\ Size \in [Req -> Nat]
  /\ MaxConn \in Nat \ {0}
  /\ None \notin Req \union {Old, Mixed}
  /\ Old \notin Req \union {Mixed}
  /\ Mixed \notin Req

Conn == 1..MaxConn
NoConn == 0

PutCmd(r) == [type |-> "PUT", req |-> r]
DeployCmd(r) == [type |-> "DEPLOY", req |-> r]
Chunk(p) == [type |-> "CHUNK", piece |-> p]
PutAck(r, res) == [type |-> "PUT_ACK", req |-> r, res |-> res]
CtrlAck(res) == [type |-> "CTRL_ACK", res |-> res]

VARIABLES
  \* --- the server -------------------------------------------------------
  session,      \* the connection of the agent's session
  served,       \* connections whose _handle_client is alive
  lock,         \* who holds the lock in _file_transfer_locks
  future,       \* _deploy_results: the deployment that put its future there
  stage,        \* per request, where its coroutine is
  conn,         \* the connection it writes to
  sent,         \* the pieces it has written
  outcome,      \* what its future was resolved with
  waitsFor,     \* the request whose future it waits for
  \* --- the agent --------------------------------------------------------
  made,         \* connections opened so far
  link,         \* the connection it is on
  put,          \* FileHandler._receiver: the upload it is receiving
  putGot,       \* its pieces
  dep,          \* DeployHandler.receiver: the last deployment announced
  depGot,       \* its pieces
  running,      \* _execute_deploy: idle, or in its health check
  program,      \* what is at process_path
  backup,       \* the newest file of backup_dir
  file,         \* per upload, what is at its destination
  \* --- the network ------------------------------------------------------
  toAgent,      \* packets on the agent's connection
  toServer      \* per connection, packets the server has not read

senderVars == <<stage, conn, sent, waitsFor>>
serverVars == <<session, served, lock, future, outcome, senderVars>>
receiverVars == <<put, putGot, dep, depGot>>
programVars == <<running, program, backup>>
agentVars == <<made, link, receiverVars, programVars, file>>
vars == <<serverVars, agentVars, toAgent, toServer>>

\* the pieces of a file, by their numbers
Whole(r) == {r} \X (0..(Size[r] - 1))

Piece == UNION {Whole(r) : r \in Req}
Stored == Req \union {None, Old, Mixed}

ToAgentMsg == {PutCmd(r) : r \in Put} \union {DeployCmd(r) : r \in Deploy}
                \union {Chunk(p) : p \in Piece}
ToServerMsg ==
  {PutAck(r, res) : r \in Put, res \in {"ok", "failed"}}
    \union {CtrlAck(res) : res \in {"ok", "failed"}}

ServerOK ==
  /\ session \in Conn \union {NoConn}
  /\ served \in SUBSET Conn
  /\ lock \in Put \union {None}
  /\ future \in Deploy \union {None}
  /\ stage \in [Req -> {"idle", "sending", "waiting", "done", "failed"}]
  /\ conn \in [Req -> Conn \union {NoConn}]
  /\ sent \in [Req -> Nat]
  /\ \A r \in Req : sent[r] <= Size[r]
  /\ outcome \in [Req -> {"none", "ok", "failed", "cancelled"}]
  /\ waitsFor \in [Req -> Req \union {None}]

AgentOK ==
  /\ made \in Conn \union {NoConn}
  /\ link \in {NoConn, made}
  /\ put \in Put \union {None}
  /\ putGot \in SUBSET Piece
  /\ dep \in Deploy \union {None}
  /\ depGot \in SUBSET Piece
  /\ running \in {"idle", "health"}
  /\ link = NoConn => running = "idle"
  /\ program \in Stored
  /\ backup \in Stored
  /\ file \in [Put -> Stored]

NetworkOK ==
  /\ toAgent \in Seq(ToAgentMsg)
  /\ link = NoConn => toAgent = <<>>
  /\ toServer \in [Conn -> Seq(ToServerMsg)]

(* The values the variables take: nobody writes more pieces than its file  *)
(* has, and what was under way on a connection the agent has left is gone  *)
(* (tcp_server.py:873, tcp_client.py:334).                                 *)
TypeOK == ServerOK /\ AgentOK /\ NetworkOK

Init ==
  /\ session = NoConn
  /\ served = {}
  /\ lock = None
  /\ future = None
  /\ stage = [r \in Req |-> "idle"]
  /\ conn = [r \in Req |-> NoConn]
  /\ sent = [r \in Req |-> 0]
  /\ outcome = [r \in Req |-> "none"]
  /\ waitsFor = [r \in Req |-> None]
  /\ made = 0
  /\ link = NoConn
  /\ put = None
  /\ putGot = {}
  /\ dep = None
  /\ depGot = {}
  /\ running = "idle"
  /\ program \in {Old, None}
  /\ backup = None
  /\ file = [r \in Put |-> None]
  /\ toAgent = <<>>
  /\ toServer = [n \in Conn |-> <<>>]

-----------------------------------------------------------------------------
(***************************************************************************)
(* Both ends of connection n are there.  What is written when they are not *)
(* is lost, and the writer may be told so.                                 *)
(***************************************************************************)
Up(n) == link = n /\ n \in served

Write(n, msg) ==
  toAgent' = IF Up(n) THEN Append(toAgent, msg) ELSE toAgent

Reply(msg) ==
  toServer' = IF Up(link) THEN [toServer EXCEPT ![link] = Append(@, msg)]
                          ELSE toServer

-----------------------------------------------------------------------------
(***************************************************************************)
(* The server: send_file_put and send_deploy.                              *)
(***************************************************************************)
AnyLock == TRUE                         \* variant: the lock not looked at

\* "another transfer is in progress" otherwise
LockFree == lock = None

BeginPut(r) ==
  /\ stage[r] = "idle"
  /\ session # NoConn
  /\ LockFree
  /\ lock' = r
  /\ stage' = [stage EXCEPT ![r] = "sending"]
  /\ conn' = [conn EXCEPT ![r] = session]
  /\ Write(session, PutCmd(r))
  /\ UNCHANGED <<session, served, future, sent, outcome, waitsFor, agentVars,
                 toServer>>

BeginDeploy(r) ==
  /\ stage[r] = "idle"
  /\ session # NoConn
  /\ future' = r
  /\ stage' = [stage EXCEPT ![r] = "sending"]
  /\ conn' = [conn EXCEPT ![r] = session]
  /\ Write(session, DeployCmd(r))
  /\ UNCHANGED <<session, served, lock, sent, outcome, waitsFor, agentVars,
                 toServer>>

MorePieces(r) == sent[r] < Size[r]

SendPiece(r) ==
  /\ stage[r] = "sending"
  /\ MorePieces(r)
  /\ Write(conn[r], Chunk(<<r, sent[r]>>))
  /\ sent' = [sent EXCEPT ![r] = @ + 1]
  /\ UNCHANGED <<session, served, lock, future, stage, conn, outcome, waitsFor,
                 agentVars, toServer>>

KeptLock(r) == lock                     \* variant: the lock never released

\* The lock is r's, unless a disconnect has dropped it meanwhile.
Unlocked(r) == IF lock = r THEN None ELSE lock

Ends(r, how) ==
  /\ stage' = [stage EXCEPT ![r] = how]
  /\ lock' = Unlocked(r)
  /\ UNCHANGED <<session, served, future, conn, sent, waitsFor, agentVars,
                 toAgent, toServer>>

\* All is written.  An upload waits for its own future; the caller of a
\* deployment for whichever is in _deploy_results by now.
SendEnds(r) ==
  /\ stage[r] = "sending"
  /\ sent[r] = Size[r]
  /\ waitsFor' = [waitsFor EXCEPT ![r] = IF r \in Put THEN r ELSE future]
  /\ stage' = [stage EXCEPT ![r] = IF waitsFor'[r] = None THEN "done"
                                                          ELSE "waiting"]
  /\ UNCHANGED <<session, served, lock, future, conn, sent, outcome, agentVars,
                 toAgent, toServer>>

\* A drain raises: the connection is gone.
SendRaises(r) ==
  /\ stage[r] = "sending"
  /\ ~Up(conn[r])
  /\ Ends(r, "failed")
  /\ UNCHANGED outcome

Answered(r) ==
  /\ stage[r] = "waiting"
  /\ outcome[waitsFor[r]] # "none"
  /\ Ends(r, "done")
  /\ UNCHANGED outcome

\* 120 s without an answer; wait_for cancels the future.
TimesOut(r) ==
  /\ stage[r] = "waiting"
  /\ outcome[waitsFor[r]] = "none"
  /\ outcome' = [outcome EXCEPT ![waitsFor[r]] = "cancelled"]
  /\ Ends(r, "failed")

\* A future is resolved once.
Resolve(r, res) ==
  outcome' = IF r # None /\ outcome[r] = "none"
             THEN [outcome EXCEPT ![r] = res]
             ELSE outcome

HandleAck(n) ==
  /\ n \in served
  /\ toServer[n] # <<>>
  /\ LET ack == Head(toServer[n]) IN
     Resolve(IF ack.type = "PUT_ACK" THEN ack.req ELSE future, ack.res)
  /\ toServer' = [toServer EXCEPT ![n] = Tail(@)]
  /\ UNCHANGED <<session, served, lock, future, senderVars, agentVars, toAgent>>

\* _handle_client ends; the session's own handler drops the agent's lock
\* and the future of its deployment.
HandlerEnds(n) ==
  /\ n \in served
  /\ served' = served \ {n}
  /\ toServer' = [toServer EXCEPT ![n] = <<>>]
  /\ IF session = n
     THEN session' = NoConn /\ lock' = None /\ future' = None
     ELSE UNCHANGED <<session, lock, future>>
  /\ UNCHANGED <<outcome, senderVars, agentVars, toAgent>>

-----------------------------------------------------------------------------
(***************************************************************************)
(* The agent's connection.                                                 *)
(***************************************************************************)
Connect ==
  /\ link = NoConn
  /\ made < MaxConn
  /\ made' = made + 1
  /\ link' = made + 1
  /\ session' = made + 1
  /\ served' = served \union {made + 1}
  /\ UNCHANGED <<lock, future, outcome, senderVars, receiverVars, programVars,
                 file, toAgent, toServer>>

LoseLink ==
  /\ link' = NoConn
  /\ toAgent' = <<>>

ReceiveLoopEnds ==
  /\ link # NoConn
  /\ running = "idle"
  /\ LoseLink
  /\ UNCHANGED <<serverVars, made, receiverVars, programVars, file, toServer>>

\* close_on_error cancels the receive loop, with the health check in it.
HeartbeatFails ==
  /\ link # NoConn
  /\ LoseLink
  /\ running' = "idle"
  /\ UNCHANGED <<serverVars, made, receiverVars, program, backup, file,
                 toServer>>

-----------------------------------------------------------------------------
(***************************************************************************)
(* The agent's handlers.  What they write to the disk or the connection    *)
(* may raise, and a failed heartbeat cancels them in the middle: either    *)
(* way the receive loop ends with them.                                    *)
(***************************************************************************)
Read(msg) ==
  /\ link # NoConn
  /\ running = "idle"
  /\ toAgent # <<>>
  /\ Head(toAgent) = msg

Handled == toAgent' = Tail(toAgent) /\ UNCHANGED link

Raises == LoseLink /\ UNCHANGED toServer

\* Accepted, or refused: disabled, a path that must not be written, too
\* large.  The server sends the pieces of a refused upload all the same.
HandlePut(r) ==
  /\ Read(PutCmd(r))
  /\ \/ /\ put' = r
        /\ putGot' = {}
        /\ Handled
        /\ UNCHANGED toServer
     \/ /\ (Reply(PutAck(r, "failed")) /\ Handled) \/ Raises
        /\ UNCHANGED <<put, putGot>>
  /\ UNCHANGED <<serverVars, made, dep, depGot, programVars, file>>

\* CMD_DEPLOY; an upload not yet complete is forgotten.
HandleDeploy(r) ==
  /\ Read(DeployCmd(r))
  /\ Handled
  /\ put' = None
  /\ putGot' = {}
  /\ dep' = r
  /\ depGot' = {}
  /\ UNCHANGED <<serverVars, made, programVars, file, toServer>>

-----------------------------------------------------------------------------
(***************************************************************************)
(* FileTransferReceiver: pieces go by their number, the first one of a     *)
(* number stays; the file is complete when it is long enough, and taken if *)
(* its hash, that of its first pieces by number, is the one announced.     *)
(* All pieces are as long as each other.                                   *)
(***************************************************************************)
With(got, p) == IF \E q \in got : q[2] = p[2] THEN got ELSE got \union {p}

\* variant: a piece more than the file has
CompleteLate(got, r) == Cardinality(got) > Size[r]

Complete(got, r) == Cardinality(got) >= Size[r]

AnyHash(got, r) == TRUE                 \* variant: the hash not compared

HashMatches(got, r) == Whole(r) \subseteq got

Content(got, r) == IF Whole(r) \subseteq got THEN r ELSE Mixed

ReadPiece(p) ==
  /\ Read(Chunk(p))
  /\ UNCHANGED <<serverVars, made, dep>>

StoreForPut(p) ==
  LET got == With(putGot, p) IN
  /\ ReadPiece(p)
  /\ put # None
  /\ putGot' = got
  /\ \/ ~Complete(got, put) /\ Handled /\ UNCHANGED toServer
     \/ Raises                          \* at the FILE_ACK
  /\ UNCHANGED <<put, depGot, programVars, file>>

FinishPut(p) ==
  LET got == With(putGot, p)
      ok == HashMatches(got, put)
      res == IF ok THEN "ok" ELSE "failed"
      stored == IF ok THEN [file EXCEPT ![put] = Content(got, put)] ELSE file
  IN
  /\ ReadPiece(p)
  /\ put # None
  /\ Complete(got, put)
  /\ \/ /\ file' = stored
        /\ put' = None
        /\ putGot' = {}
        /\ Reply(PutAck(put, res))
        /\ Handled
     \/ /\ file' \in {file, stored}
        /\ putGot' = got
        /\ UNCHANGED put
        /\ Raises
  /\ UNCHANGED <<depGot, programVars>>

\* No upload is being received: the piece is the deployment handler's.
ForDeploy(p) == ReadPiece(p) /\ put = None /\ UNCHANGED <<put, putGot, file>>

\* Nothing was ever announced: nothing is already complete, and writing it
\* to the transfer directory itself raises.
NeverAnnounced(p) ==
  /\ ForDeploy(p)
  /\ dep = None
  /\ Raises
  /\ UNCHANGED <<depGot, programVars>>

\* A file that was taken takes no more pieces.
Taken(p) ==
  IF Complete(depGot, dep) /\ HashMatches(depGot, dep) THEN depGot
                                                       ELSE With(depGot, p)

StoreForDeploy(p) ==
  /\ ForDeploy(p)
  /\ dep # None
  /\ depGot' = Taken(p)
  /\ \/ ~Complete(depGot', dep) /\ Handled /\ UNCHANGED toServer
     \/ Raises                          \* at the FILE_ACK
  /\ UNCHANGED programVars

RejectDeploy(p) ==
  /\ ForDeploy(p)
  /\ dep # None
  /\ depGot' = Taken(p)
  /\ Complete(depGot', dep)
  /\ ~HashMatches(depGot', dep)
  /\ (Reply(CtrlAck("failed")) /\ Handled) \/ Raises
  /\ UNCHANGED programVars

\* _execute_deploy up to its health check: the program is backed up, killed,
\* replaced and started; or the copy or the start raises, and the receive
\* loop ends.
Install(p) ==
  /\ ForDeploy(p)
  /\ dep # None
  /\ depGot' = Taken(p)
  /\ Complete(depGot', dep)
  /\ HashMatches(depGot', dep)
  /\ backup' = IF program = None THEN backup ELSE program
  /\ \/ /\ program' = Content(depGot', dep)
        /\ running' = "health"
        /\ Handled
        /\ UNCHANGED toServer
     \/ /\ program' \in {program, Content(depGot', dep)}
        /\ Raises
        /\ UNCHANGED running

Verified ==
  /\ running = "health"
  /\ running' = "idle"
  /\ \/ Reply(CtrlAck("ok")) /\ UNCHANGED <<link, toAgent>>
     \/ Raises
  /\ UNCHANGED <<serverVars, made, receiverVars, program, backup, file>>

RollBack ==
  /\ running = "health"
  /\ running' = "idle"
  /\ \/ /\ program' = IF backup = None THEN program ELSE backup
        /\ \/ Reply(CtrlAck("failed")) /\ UNCHANGED <<link, toAgent>>
           \/ Raises
     \/ Raises /\ UNCHANGED program      \* at the copy
  /\ UNCHANGED <<serverVars, made, receiverVars, backup, file>>

-----------------------------------------------------------------------------
Serve(r) ==
  SendPiece(r) \/ SendEnds(r) \/ SendRaises(r) \/ Answered(r) \/ TimesOut(r)

HandleChunk(p) ==
  \/ StoreForPut(p) \/ FinishPut(p) \/ NeverAnnounced(p)
  \/ StoreForDeploy(p) \/ RejectDeploy(p) \/ Install(p)

HandlePacket ==
  \/ \E r \in Put : HandlePut(r)
  \/ \E r \in Deploy : HandleDeploy(r)
  \/ \E p \in Piece : HandleChunk(p)
  \/ Verified \/ RollBack

Next ==
  \/ \E r \in Put : BeginPut(r)
  \/ \E r \in Deploy : BeginDeploy(r)
  \/ \E r \in Req : Serve(r)
  \/ \E n \in Conn : HandleAck(n) \/ HandlerEnds(n)
  \/ Connect \/ ReceiveLoopEnds \/ HeartbeatFails
  \/ HandlePacket

Spec == Init /\ [][Next]_vars

(***************************************************************************)
(* The coroutines of both sides are scheduled, drains end, and a wait for  *)
(* an answer ends by its timeout.                                          *)
(***************************************************************************)
FairSpec ==
  /\ Spec
  /\ \A r \in Req : WF_vars(Serve(r))
  /\ WF_vars(HandlePacket)

-----------------------------------------------------------------------------
(* Uploads exclude each other on a connection, although a disconnect drops *)
(* the lock under an upload that has not noticed (tcp_server.py:133, 840). *)
OneWriter ==
  \A p, q \in Put :
    /\ stage[p] \in {"sending", "waiting"}
    /\ stage[q] \in {"sending", "waiting"}
    /\ conn[p] = conn[q]
    => p = q

(* An upload that reports success has put its own file, whole, at its      *)
(* destination, whatever pieces of other files came in between             *)
(* (file_handler.py:263, file_transfer.py:56).                             *)
PutIsThere ==
  \A r \in Put : file[r] \in {None, r} /\ (outcome[r] = "ok" => file[r] = r)

(* What is installed, and what a roll back would restore, is the old       *)
(* program or one whole deployed file (deploy_handler.py:89, 112, 124).    *)
ProgramIntact == Mixed \notin {program, backup}

(* The transfer lock comes back, or "another transfer is in progress"      *)
(* would be the answer for ever (tcp_server.py:840, 887).                  *)
LockReturned == \A r \in Put : lock = r ~> lock # r

\* The only connection holds and no deployment came in between.
Alone ==
  /\ made = 1 /\ link = 1 /\ session = 1
  /\ \A d \in Deploy : stage[d] = "idle"

(* An agent that receives an upload stops receiving it, as long as the     *)
(* connection holds and nobody deploys: every piece arrives and the last   *)
(* one completes the file (file_handler.py:253, tcp_server.py:874).  An    *)
(* empty file has no piece and is never complete.                          *)
PutCompleted ==
  \A r \in Put : Size[r] > 0 => (put = r /\ Alone ~> put # r \/ ~Alone)

(* "Routes FILE_CHUNK to the active transfer context"                      *)
(* (agent_runtime.py:673): a piece that no transfer waits for never        *)
(* installs a deployment over itself.                                      *)
NotDeployedAgain == running = "health" => program # backup
=============================================================================
