--------------------------- MODULE Uploads_proofs ---------------------------
(***************************************************************************)
(* Uploads and deployments to one agent, for any number of requests, sizes *)
(* and connections: uploads exclude each other on a connection, a reported *)
(* upload is there, and the program is never a mixture.                    *)
(***************************************************************************)
EXTENDS Uploads, TLAPS

(* A packet at the head of a connection is one that may travel there.      *)
LEMMA HeadAndTail ==
  ASSUME NEW S, NEW q \in Seq(S), q # <<>>
  PROVE  Head(q) \in S /\ Tail(q) \in Seq(S)
OBVIOUS

(* What is put together is one of the files, or a mixture.                 *)
LEMMA ContentStored ==
  ASSUME NEW got, NEW r \in Req
  PROVE  Content(got, r) \in Stored
BY DEF Content, Stored

(* A file whose hash matches is the one that was announced.                *)
LEMMA HashTells ==
  ASSUME NEW got, NEW r, HashMatches(got, r)
  PROVE  Content(got, r) = r
BY DEF HashMatches, Content

LEMMA WithPieces ==
  ASSUME NEW got \in SUBSET Piece, NEW p \in Piece
  PROVE  With(got, p) \in SUBSET Piece
BY DEF With

(* A piece knows its request and its number.                               *)
LEMMA PieceOfFile ==
  ASSUME NEW r \in Req, NEW i \in Nat, i < Size[r]
  PROVE  <<r, i>> \in Piece
BY UploadsAssumption DEF Piece, Whole

LEMMA AckTypes ==
  /\ \A r \in Put, res \in {"ok", "failed"} : PutAck(r, res) \in ToServerMsg
  /\ \A res \in {"ok", "failed"} : CtrlAck(res) \in ToServerMsg
BY DEF ToServerMsg

(* What the server and the agent write are packets.                        *)
LEMMA WriteTypes ==
  ASSUME TypeOK, NEW n \in Conn, NEW msg \in ToAgentMsg, Write(n, msg),
         UNCHANGED <<link, toServer>>
  PROVE  NetworkOK'
BY DEF Write, TypeOK, NetworkOK, Up, Conn, NoConn

LEMMA ReplyTypes ==
  ASSUME TypeOK, NEW msg \in ToServerMsg, Reply(msg)
  PROVE  toServer' \in [Conn -> Seq(ToServerMsg)]
<1>1. CASE Up(link)
  <2>1. link \in Conn
    BY <1>1 DEF Up, TypeOK, ServerOK
  <2>2. Append(toServer[link], msg) \in Seq(ToServerMsg)
    BY <2>1 DEF TypeOK, NetworkOK
  <2> QED
    BY <1>1, <2>1, <2>2 DEF Reply, TypeOK, NetworkOK
<1>2. CASE ~Up(link)
  BY <1>2 DEF Reply, TypeOK, NetworkOK
<1> QED
  BY <1>1, <1>2

(* The parts a step leaves alone.                                          *)
LEMMA ServerAlone ==
  ASSUME TypeOK, UNCHANGED serverVars
  PROVE  ServerOK'
BY DEF TypeOK, ServerOK, serverVars, senderVars

LEMMA AgentAlone ==
  ASSUME TypeOK, UNCHANGED agentVars
  PROVE  AgentOK'
BY DEF TypeOK, AgentOK, agentVars, receiverVars, programVars

(* A connection that is lost takes its packets with it.                    *)
LEMMA LostTypes ==
  ASSUME TypeOK, LoseLink, UNCHANGED toServer
  PROVE  NetworkOK' /\ link' = NoConn
BY DEF TypeOK, NetworkOK, LoseLink

(* A packet that is read leaves the others.                                *)
LEMMA ReadTypes ==
  ASSUME TypeOK, NEW msg, Read(msg)
  PROVE  /\ link # NoConn
         /\ running = "idle"
         /\ msg \in ToAgentMsg
         /\ Tail(toAgent) \in Seq(ToAgentMsg)
BY HeadAndTail DEF Read, TypeOK, NetworkOK

LEMMA HandledTypes ==
  ASSUME TypeOK, NEW msg, Read(msg), Handled,
         toServer' \in [Conn -> Seq(ToServerMsg)]
  PROVE  NetworkOK' /\ link' = link
BY ReadTypes DEF NetworkOK, Handled

-----------------------------------------------------------------------------
(* The server's own steps keep the types.                                  *)
LEMMA ServerTypes ==
  ASSUME TypeOK,
         \/ \E r \in Put : BeginPut(r)
         \/ \E r \in Deploy : BeginDeploy(r)
         \/ \E r \in Req : Serve(r)
         \/ \E n \in Conn : HandleAck(n) \/ HandlerEnds(n)
  PROVE  TypeOK'
<1> USE UploadsAssumption DEF Req
<1>1. ASSUME NEW r \in Put, BeginPut(r)
      PROVE  TypeOK'
  <2>1. session \in Conn /\ PutCmd(r) \in ToAgentMsg
    BY <1>1 DEF ToAgentMsg, BeginPut, TypeOK, ServerOK
  <2>2. AgentOK'
    BY <1>1, AgentAlone DEF BeginPut
  <2>3. NetworkOK'
    BY <1>1, <2>1, WriteTypes DEF BeginPut, agentVars
  <2>4. ServerOK'
    BY <1>1, <2>1 DEF BeginPut, TypeOK, ServerOK
  <2> QED
    BY <2>2, <2>3, <2>4 DEF TypeOK
<1>2. ASSUME NEW r \in Deploy, BeginDeploy(r)
      PROVE  TypeOK'
  <2>1. session \in Conn /\ DeployCmd(r) \in ToAgentMsg
    BY <1>2 DEF ToAgentMsg, BeginDeploy, TypeOK, ServerOK
  <2>2. AgentOK'
    BY <1>2, AgentAlone DEF BeginDeploy
  <2>3. NetworkOK'
    BY <1>2, <2>1, WriteTypes DEF BeginDeploy, agentVars
  <2>4. ServerOK'
    BY <1>2, <2>1 DEF BeginDeploy, TypeOK, ServerOK
  <2> QED
    BY <2>2, <2>3, <2>4 DEF TypeOK
<1>3. ASSUME NEW r \in Req, SendPiece(r)
      PROVE  TypeOK'
  <2>1. Chunk(<<r, sent[r]>>) \in ToAgentMsg
    BY <1>3, PieceOfFile
       DEF SendPiece, MorePieces, ToAgentMsg, TypeOK, ServerOK
  <2>2. AgentOK'
    BY <1>3, AgentAlone DEF SendPiece
  <2>3. NetworkOK'
    BY <1>3, <2>1 DEF SendPiece, Write, agentVars, TypeOK, NetworkOK, Up, Conn,
                      ServerOK, NoConn
  <2>4. ServerOK'
    BY <1>3 DEF SendPiece, MorePieces, TypeOK, ServerOK
  <2> QED
    BY <2>2, <2>3, <2>4 DEF TypeOK
<1>4. ASSUME NEW r \in Req,
             SendEnds(r) \/ SendRaises(r) \/ Answered(r) \/ TimesOut(r)
      PROVE  TypeOK'
  <2>1. AgentOK'
    BY <1>4, AgentAlone DEF SendEnds, SendRaises, Answered, TimesOut, Ends
  <2>2. NetworkOK'
    BY <1>4 DEF SendEnds, SendRaises, Answered, TimesOut, Ends, agentVars,
                TypeOK, NetworkOK
  <2>3. CASE SendEnds(r)
    BY <2>1, <2>2, <2>3 DEF SendEnds, TypeOK, ServerOK
  <2>4. CASE SendRaises(r) \/ Answered(r) \/ TimesOut(r)
    BY <2>1, <2>2, <2>4
       DEF SendRaises, Answered, TimesOut, Ends, Unlocked, TypeOK, ServerOK
  <2> QED
    BY <1>4, <2>3, <2>4
<1>5. ASSUME NEW n \in Conn, HandleAck(n)
      PROVE  TypeOK'
  <2> DEFINE ack == Head(toServer[n])
  <2>1. ack \in ToServerMsg /\ Tail(toServer[n]) \in Seq(ToServerMsg)
    BY <1>5, HeadAndTail DEF HandleAck, TypeOK, NetworkOK
  <2>2. ack.res \in {"ok", "failed"}
    BY <2>1 DEF ToServerMsg, PutAck, CtrlAck
  <2>3. ServerOK'
    BY <1>5, <2>2 DEF HandleAck, Resolve, TypeOK, ServerOK, senderVars
  <2>4. NetworkOK'
    BY <1>5, <2>1 DEF HandleAck, TypeOK, NetworkOK, agentVars
  <2>5. AgentOK'
    BY <1>5, AgentAlone DEF HandleAck
  <2> QED
    BY <2>3, <2>4, <2>5 DEF TypeOK
<1>6. ASSUME NEW n \in Conn, HandlerEnds(n)
      PROVE  TypeOK'
  <2>1. AgentOK'
    BY <1>6, AgentAlone DEF HandlerEnds
  <2>2. NetworkOK'
    BY <1>6 DEF HandlerEnds, TypeOK, NetworkOK, agentVars
  <2>3. ServerOK'
    BY <1>6 DEF HandlerEnds, TypeOK, ServerOK, senderVars
  <2> QED
    BY <2>1, <2>2, <2>3 DEF TypeOK
<1> QED
  BY <1>1, <1>2, <1>3, <1>4, <1>5, <1>6 DEF Serve

(* So do the agent's connection and handlers.                              *)
LEMMA AgentTypes ==
  ASSUME TypeOK,
         Connect \/ ReceiveLoopEnds \/ HeartbeatFails \/ HandlePacket
  PROVE  TypeOK'
<1> USE UploadsAssumption DEF Req
<1>1. CASE Connect
  <2>1. made + 1 \in Conn /\ made + 1 # NoConn
    BY <1>1 DEF Connect, TypeOK, AgentOK, Conn, NoConn
  <2>2. ServerOK'
    BY <1>1, <2>1 DEF Connect, TypeOK, ServerOK, senderVars
  <2>3. AgentOK'
    BY <1>1, <2>1 DEF Connect, TypeOK, AgentOK, receiverVars, programVars
  <2>4. NetworkOK'
    BY <1>1, <2>1 DEF Connect, TypeOK, NetworkOK
  <2> QED
    BY <2>2, <2>3, <2>4 DEF TypeOK
<1>2. CASE ReceiveLoopEnds \/ HeartbeatFails
  <2>1. ServerOK' /\ NetworkOK' /\ link' = NoConn
    BY <1>2, ServerAlone, LostTypes DEF ReceiveLoopEnds, HeartbeatFails
  <2>2. AgentOK'
    BY <1>2, <2>1 DEF ReceiveLoopEnds, HeartbeatFails, TypeOK, AgentOK,
                      receiverVars, programVars
  <2> QED
    BY <2>1, <2>2 DEF TypeOK
<1>3. ASSUME NEW r \in Put, HandlePut(r)
      PROVE  TypeOK'
  <2>1. ServerOK'
    BY <1>3, ServerAlone DEF HandlePut
  <2>2. NetworkOK' /\ link' \in {link, NoConn}
    BY <1>3, AckTypes, ReplyTypes, HandledTypes, LostTypes
       DEF HandlePut, Raises, TypeOK, NetworkOK
  <2>3. AgentOK'
    BY <1>3, <2>2, ReadTypes DEF HandlePut, TypeOK, AgentOK, programVars
  <2> QED
    BY <2>1, <2>2, <2>3 DEF TypeOK
<1>4. ASSUME NEW r \in Deploy, HandleDeploy(r)
      PROVE  TypeOK'
  <2>1. ServerOK'
    BY <1>4, ServerAlone DEF HandleDeploy
  <2>2. NetworkOK' /\ link' = link
    BY <1>4, HandledTypes DEF HandleDeploy, TypeOK, NetworkOK
  <2>3. AgentOK'
    BY <1>4, <2>2 DEF HandleDeploy, TypeOK, AgentOK, programVars
  <2> QED
    BY <2>1, <2>2, <2>3 DEF TypeOK
<1>5. ASSUME NEW p \in Piece, StoreForPut(p)
      PROVE  TypeOK'
  <2>1. ServerOK'
    BY <1>5, ServerAlone DEF StoreForPut, ReadPiece
  <2>2. NetworkOK' /\ link' \in {link, NoConn} /\ running = "idle"
    BY <1>5, ReadTypes, HandledTypes, LostTypes
       DEF StoreForPut, ReadPiece, Raises, TypeOK, NetworkOK
  <2>3. With(putGot, p) \in SUBSET Piece
    BY WithPieces DEF TypeOK, AgentOK
  <2>4. AgentOK'
    BY <1>5, <2>2, <2>3
       DEF StoreForPut, ReadPiece, TypeOK, AgentOK, programVars
  <2> QED
    BY <2>1, <2>2, <2>4 DEF TypeOK
<1>6. ASSUME NEW p \in Piece, FinishPut(p)
      PROVE  TypeOK'
  <2> DEFINE got == With(putGot, p)
             ok == HashMatches(got, put)
             res == IF ok THEN "ok" ELSE "failed"
             stored == IF ok THEN [file EXCEPT ![put] = Content(got, put)]
                             ELSE file
  <2>1. put \in Put
    BY <1>6 DEF FinishPut, TypeOK, AgentOK
  <2>2. got \in SUBSET Piece
    BY WithPieces DEF TypeOK, AgentOK
  <2>3. stored \in [Put -> Stored]
    BY <2>1, ContentStored DEF TypeOK, AgentOK
  <2>4. PutAck(put, res) \in ToServerMsg
    BY <2>1, AckTypes
  <2>5. ServerOK'
    BY <1>6, ServerAlone DEF FinishPut, ReadPiece
  <2>6. NetworkOK' /\ link' \in {link, NoConn} /\ running = "idle"
    BY <1>6, <2>4, ReadTypes, ReplyTypes, HandledTypes, LostTypes
       DEF FinishPut, ReadPiece, Raises
  <2>7. file' \in [Put -> Stored] /\ putGot' \in SUBSET Piece
          /\ put' \in Put \union {None}
    <3> HIDE DEF stored, got
    <3> QED
      BY <1>6, <2>1, <2>2, <2>3 DEF FinishPut, TypeOK, AgentOK, stored, got
  <2>8. AgentOK'
    BY <1>6, <2>6, <2>7
       DEF FinishPut, ReadPiece, TypeOK, AgentOK, programVars
  <2> QED
    BY <2>5, <2>6, <2>8 DEF TypeOK
<1>7. ASSUME NEW p \in Piece, ForDeploy(p)
      PROVE  /\ ServerOK'
             /\ link # NoConn /\ running = "idle"
             /\ Taken(p) \in SUBSET Piece
             /\ UNCHANGED <<made, put, putGot, file, dep>>
  BY <1>7, ServerAlone, ReadTypes, WithPieces
     DEF ForDeploy, ReadPiece, Taken, TypeOK, AgentOK
<1>8. ASSUME NEW p \in Piece, NeverAnnounced(p)
      PROVE  TypeOK'
  <2>1. NetworkOK' /\ link' = NoConn
    BY <1>8, LostTypes DEF NeverAnnounced, Raises
  <2>2. ServerOK' /\ AgentOK'
    BY <1>7, <1>8, <2>1 DEF NeverAnnounced, ForDeploy, ReadPiece, TypeOK,
                            AgentOK, programVars
  <2> QED
    BY <2>1, <2>2 DEF TypeOK
<1>9. ASSUME NEW p \in Piece, StoreForDeploy(p) \/ RejectDeploy(p)
      PROVE  TypeOK'
  <2>1. ForDeploy(p) /\ Read(Chunk(p)) /\ depGot' = Taken(p)
          /\ UNCHANGED programVars
    BY <1>9 DEF StoreForDeploy, RejectDeploy, ForDeploy, ReadPiece
  <2>2. NetworkOK' /\ link' \in {link, NoConn}
    BY <1>9, <2>1, AckTypes, ReplyTypes, HandledTypes, LostTypes
       DEF StoreForDeploy, RejectDeploy, Raises, TypeOK, NetworkOK
  <2>3. ServerOK' /\ AgentOK'
    BY <1>7, <2>1, <2>2 DEF TypeOK, AgentOK, programVars
  <2> QED
    BY <2>2, <2>3 DEF TypeOK
<1>10. ASSUME NEW p \in Piece, Install(p)
       PROVE  TypeOK'
  <2>1. ForDeploy(p) /\ Read(Chunk(p)) /\ depGot' = Taken(p) /\ dep \in Deploy
    BY <1>10 DEF Install, ForDeploy, ReadPiece, TypeOK, AgentOK
  <2>2. Content(depGot', dep) \in Stored
    BY <2>1, ContentStored
  <2>3. \/ NetworkOK' /\ link' = link
        \/ NetworkOK' /\ link' = NoConn /\ running' = running
    BY <1>10, <2>1, HandledTypes, LostTypes
       DEF Install, Raises, TypeOK, NetworkOK
  <2>4. program' \in Stored /\ backup' \in Stored
          /\ running' \in {"idle", "health"}
    BY <1>7, <1>10, <2>1, <2>2 DEF Install, TypeOK, AgentOK
  <2>5. ServerOK' /\ AgentOK'
    BY <1>7, <2>1, <2>3, <2>4 DEF TypeOK, AgentOK
  <2> QED
    BY <2>3, <2>5 DEF TypeOK
<1>11. CASE Verified \/ RollBack
  <2>1. ServerOK'
    BY <1>11, ServerAlone DEF Verified, RollBack
  <2>2. NetworkOK' /\ link' \in {link, NoConn}
    BY <1>11, AckTypes, ReplyTypes, LostTypes
       DEF Verified, RollBack, Raises, TypeOK, NetworkOK
  <2>3. AgentOK'
    BY <1>11, <2>2 DEF Verified, RollBack, TypeOK, AgentOK, receiverVars
  <2> QED
    BY <2>1, <2>2, <2>3 DEF TypeOK
<1> QED
  BY <1>1, <1>2, <1>3, <1>4, <1>5, <1>6, <1>8, <1>9, <1>10, <1>11
     DEF HandlePacket, HandleChunk

LEMMA TypeStep == TypeOK /\ [Next]_vars => TypeOK'
<1> SUFFICES ASSUME TypeOK, [Next]_vars
             PROVE  TypeOK'
  OBVIOUS
<1>1. CASE Next
  BY <1>1, ServerTypes, AgentTypes DEF Next
<1>2. CASE UNCHANGED vars
  BY <1>2, ServerAlone, AgentAlone DEF vars, agentVars, TypeOK, NetworkOK
<1> QED
  BY <1>1, <1>2

LEMMA TypeInit == Init => TypeOK
BY UploadsAssumption DEF Init, TypeOK, ServerOK, AgentOK, NetworkOK, Req, Conn, NoConn, Stored

(* The values of the variables, whatever the requests, the sizes of their  *)
(* files and the number of connections: a request never writes more pieces *)
(* than its file has (tcp_server.py:873).                                  *)
THEOREM UploadTypes == Spec => []TypeOK
<1>1. TypeOK /\ [Next]_vars => TypeOK'
  BY TypeStep
<1> QED
  BY <1>1, TypeInit, PTL DEF Spec

-----------------------------------------------------------------------------
(***************************************************************************)
(* Uploads exclude each other on a connection.  The lock says so only for  *)
(* the session's connection; an upload that a disconnect robbed of its     *)
(* lock stays on an older one, which no later upload will use.             *)
(***************************************************************************)
Active(r) == stage[r] \in {"sending", "waiting"}

LockInv ==
  /\ session <= made
  /\ \A r \in Put : Active(r) =>
       /\ conn[r] \in 1..made
       /\ conn[r] = session => lock = r

LEMMA LockStep ==
  TypeOK /\ LockInv /\ OneWriter /\ [Next]_vars => LockInv' /\ OneWriter'
<1> SUFFICES ASSUME TypeOK, LockInv, OneWriter, [Next]_vars
             PROVE  LockInv' /\ OneWriter'
  OBVIOUS
<1> USE UploadsAssumption DEF LockInv, OneWriter, Active
<1>0. /\ made \in Nat /\ session \in Nat /\ made \in Conn \union {NoConn}
      /\ session \in Conn \union {NoConn}
      /\ conn \in [Req -> Conn \union {NoConn}]
      /\ stage \in [Req -> {"idle", "sending", "waiting", "done", "failed"}]
  BY DEF TypeOK, ServerOK, AgentOK, Conn, NoConn
<1>1. ASSUME NEW r \in Put, BeginPut(r)
      PROVE  LockInv' /\ OneWriter'
  <2>1. /\ session \in 1..made
        /\ \A q \in Put : Active(q) => conn[q] # session
    BY <1>0, <1>1 DEF BeginPut, LockFree, NoConn, Req
  <2>2. /\ stage' = [stage EXCEPT ![r] = "sending"]
        /\ conn' = [conn EXCEPT ![r] = session]
        /\ lock' = r
        /\ UNCHANGED <<session, made>>
    BY <1>1 DEF BeginPut, agentVars
  <2> QED
    BY <1>0, <2>1, <2>2 DEF Req
<1>2. ASSUME NEW r \in Deploy, BeginDeploy(r)
      PROVE  LockInv' /\ OneWriter'
  <2>1. \A q \in Put : stage'[q] = stage[q] /\ conn'[q] = conn[q]
    BY <1>0, <1>2 DEF BeginDeploy, Req
  <2> QED
    BY <1>2, <2>1 DEF BeginDeploy, agentVars
<1>3. ASSUME NEW r \in Req, SendPiece(r) \/ SendEnds(r)
      PROVE  LockInv' /\ OneWriter'
  <2>1. \A q \in Put : Active(q)' => Active(q)
    BY <1>0, <1>3 DEF SendPiece, SendEnds, Req
  <2> QED
    BY <1>3, <2>1 DEF SendPiece, SendEnds, agentVars
<1>4. ASSUME NEW r \in Req, SendRaises(r) \/ Answered(r) \/ TimesOut(r)
      PROVE  LockInv' /\ OneWriter'
  <2>1. \A q \in Put : Active(q)' => Active(q) /\ q # r
    BY <1>0, <1>4 DEF SendRaises, Answered, TimesOut, Ends, Req
  <2>2. lock' = Unlocked(r) /\ UNCHANGED <<session, conn, made>>
    BY <1>4 DEF SendRaises, Answered, TimesOut, Ends, agentVars
  <2> QED
    BY <2>1, <2>2 DEF Unlocked
<1>5. ASSUME NEW n \in Conn, HandlerEnds(n)
      PROVE  LockInv' /\ OneWriter'
  <2>1. UNCHANGED <<stage, conn, made>>
    BY <1>5 DEF HandlerEnds, senderVars, agentVars
  <2>2. \/ session' = NoConn
        \/ UNCHANGED <<session, lock>>
    BY <1>5 DEF HandlerEnds
  <2> QED
    BY <1>0, <2>1, <2>2 DEF NoConn
<1>6. CASE Connect
  <2>1. /\ made' = made + 1 /\ session' = made + 1
        /\ UNCHANGED <<stage, conn, lock>>
    BY <1>6 DEF Connect, senderVars
  <2> QED
    BY <1>0, <2>1
<1>7. CASE UNCHANGED <<session, lock, stage, conn, made>>
  BY <1>7
<1>8. CASE UNCHANGED vars \/ (\E n \in Conn : HandleAck(n))
             \/ ReceiveLoopEnds \/ HeartbeatFails \/ HandlePacket
  BY <1>7, <1>8
     DEF vars, serverVars, senderVars, agentVars, HandleAck, ReceiveLoopEnds,
         HeartbeatFails, HandlePacket, HandlePut, HandleDeploy, HandleChunk,
         StoreForPut, FinishPut, NeverAnnounced, StoreForDeploy, RejectDeploy,
         Install, ForDeploy, ReadPiece, Verified, RollBack
<1> QED
  BY <1>1, <1>2, <1>3, <1>4, <1>5, <1>6, <1>8 DEF Next, Serve

LEMMA LockInit == Init => LockInv /\ OneWriter
BY DEF Init, LockInv, OneWriter, Active, NoConn, Req

(* However often the agent loses its connection and the server its lock,   *)
(* two uploads never write to one connection (tcp_server.py:133, 840).     *)
THEOREM WritersExclude == Spec => []OneWriter
<1>1. TypeOK /\ LockInv /\ OneWriter /\ [Next]_vars => LockInv' /\ OneWriter'
  BY LockStep
<1>2. Init => LockInv /\ OneWriter
  BY LockInit
<1> QED
  BY <1>1, <1>2, UploadTypes, PTL DEF Spec

-----------------------------------------------------------------------------
(***************************************************************************)
(* An upload that reports success is there: the report is sent after the   *)
(* file was stored, and no file that is there is ever replaced by another. *)
(***************************************************************************)
OwnFiles == \A r \in Put : file[r] \in {None, r}

\* Every acknowledgement of success under way is of a file that is there.
AcksTrue ==
  \A n \in Conn : \A i \in 1..Len(toServer[n]) :
    LET ack == toServer[n][i] IN
    ack.type = "PUT_ACK" /\ ack.res = "ok" => file[ack.req] = ack.req

ReportsTrue == \A r \in Put : outcome[r] = "ok" => file[r] = r

Truth == OwnFiles /\ AcksTrue /\ ReportsTrue

(* What is there stays: a step that only adds files and true               *)
(* acknowledgements, and resolves no future, keeps the truth.              *)
LEMMA TruthKept ==
  ASSUME TypeOK, Truth,
         UNCHANGED outcome,
         \A r \in Put : file'[r] \in {file[r], r},
         \A n \in Conn : \A i \in 1..Len(toServer'[n]) :
           \/ i \in 1..Len(toServer[n]) /\ toServer'[n][i] = toServer[n][i]
           \/ LET ack == toServer'[n][i] IN
              ack.type = "PUT_ACK" /\ ack.res = "ok"
                => ack.req \in Put /\ file'[ack.req] = ack.req
  PROVE  Truth'
<1>1. \A r \in Put : file[r] = r => file'[r] = r
  OBVIOUS
<1>2. \A n \in Conn : \A i \in 1..Len(toServer[n]) :
        LET ack == toServer[n][i] IN
        ack.type = "PUT_ACK" => ack.req \in Put
  <2>1. \A ack \in ToServerMsg : ack.type = "PUT_ACK" => ack.req \in Put
    BY DEF ToServerMsg, PutAck, CtrlAck
  <2>2. \A n \in Conn : \A i \in 1..Len(toServer[n]) :
          toServer[n][i] \in ToServerMsg
    BY DEF TypeOK, NetworkOK
  <2> QED
    BY <2>1, <2>2
<1>3. OwnFiles' /\ ReportsTrue'
  BY <1>1 DEF Truth, OwnFiles, ReportsTrue
<1>4. ASSUME NEW n \in Conn, NEW i \in 1..Len(toServer'[n]),
             toServer'[n][i].type = "PUT_ACK", toServer'[n][i].res = "ok"
      PROVE  file'[toServer'[n][i].req] = toServer'[n][i].req
  <2>1. CASE i \in 1..Len(toServer[n]) /\ toServer'[n][i] = toServer[n][i]
    BY <1>1, <1>2, <1>4, <2>1 DEF Truth, AcksTrue
  <2> QED
    BY <1>4, <2>1
<1>5. AcksTrue'
  BY <1>4 DEF AcksTrue
<1> QED
  BY <1>3, <1>5 DEF Truth

(* An acknowledgement is added at the end of the agent's connection.       *)
LEMMA ReplyAdds ==
  ASSUME TypeOK, NEW msg, Reply(msg)
  PROVE  \A n \in Conn : \A i \in 1..Len(toServer'[n]) :
           \/ i \in 1..Len(toServer[n]) /\ toServer'[n][i] = toServer[n][i]
           \/ toServer'[n][i] = msg
<1> SUFFICES ASSUME NEW n \in Conn, NEW i \in 1..Len(toServer'[n])
             PROVE  \/ /\ i \in 1..Len(toServer[n])
                       /\ toServer'[n][i] = toServer[n][i]
                    \/ toServer'[n][i] = msg
  OBVIOUS
<1>1. toServer[n] \in Seq(ToServerMsg) /\ toServer \in [Conn -> Seq(ToServerMsg)]
  BY DEF TypeOK, NetworkOK
<1>2. toServer'[n] = toServer[n] \/ toServer'[n] = Append(toServer[n], msg)
  BY <1>1 DEF Reply
<1> QED
  BY <1>1, <1>2

LEMMA TruthStep == TypeOK /\ Truth /\ [Next]_vars => Truth'
<1> SUFFICES ASSUME TypeOK, Truth, [Next]_vars
             PROVE  Truth'
  OBVIOUS
<1> USE UploadsAssumption
<1>1. file \in [Put -> Stored]
        /\ outcome \in [Req -> {"none", "ok", "failed", "cancelled"}]
        /\ toServer \in [Conn -> Seq(ToServerMsg)]
  BY DEF TypeOK, AgentOK, ServerOK, NetworkOK
<1>2. CASE UNCHANGED <<outcome, file, toServer>>
  BY <1>2, TruthKept
<1>3. ASSUME NEW r \in Req, TimesOut(r)
      PROVE  Truth'
  <2>1. \A q \in Put : outcome'[q] = "ok" => outcome[q] = "ok"
    BY <1>1, <1>3 DEF TimesOut, Req
  <2>2. UNCHANGED <<file, toServer>>
    BY <1>3 DEF TimesOut, Ends, agentVars
  <2> QED
    BY <2>1, <2>2 DEF Truth, OwnFiles, AcksTrue, ReportsTrue
<1>4. ASSUME NEW n \in Conn, HandleAck(n)
      PROVE  Truth'
  <2> DEFINE ack == Head(toServer[n])
  <2>1. ack \in ToServerMsg /\ ack = toServer[n][1] /\ 1 \in 1..Len(toServer[n])
    BY <1>1, <1>4, HeadAndTail DEF HandleAck
  <2>2. /\ ack.type = "PUT_ACK" => ack.req \in Put
        /\ ack.type # "PUT_ACK" => future \in Deploy \union {None}
    BY <2>1 DEF ToServerMsg, PutAck, CtrlAck, TypeOK, ServerOK
  <2>3. ack.type = "PUT_ACK" /\ ack.res = "ok" => file[ack.req] = ack.req
    BY <2>1 DEF Truth, AcksTrue
  <2>4. \A q \in Put : outcome'[q] = "ok" => file[q] = q
    BY <1>1, <1>4, <2>2, <2>3 DEF HandleAck, Resolve, Truth, ReportsTrue, Req
  <2>5. UNCHANGED file
    BY <1>4 DEF HandleAck, agentVars
  <2>6. toServer' = [toServer EXCEPT ![n] = Tail(toServer[n])]
    BY <1>4 DEF HandleAck
  <2>7. \A m \in Conn : \A i \in 1..Len(toServer'[m]) :
          \E k \in 1..Len(toServer[m]) : toServer'[m][i] = toServer[m][k]
    <3> SUFFICES ASSUME NEW m \in Conn, NEW i \in 1..Len(toServer'[m])
                 PROVE  \E k \in 1..Len(toServer[m]) :
                          toServer'[m][i] = toServer[m][k]
      OBVIOUS
    <3>1. CASE m = n
      <4>1. toServer'[m] = Tail(toServer[m]) /\ toServer[m] \in Seq(ToServerMsg)
              /\ toServer[m] # <<>>
        BY <1>1, <1>4, <2>6, <3>1 DEF HandleAck
      <4>2. i + 1 \in 1..Len(toServer[m])
              /\ toServer'[m][i] = toServer[m][i + 1]
        BY <4>1
      <4> QED
        BY <4>2
    <3>2. CASE m # n
      BY <1>1, <2>6, <3>2
    <3> QED
      BY <3>1, <3>2
  <2>8. AcksTrue'
    BY <2>5, <2>7 DEF Truth, AcksTrue
  <2> QED
    BY <2>4, <2>5, <2>8 DEF Truth, OwnFiles, ReportsTrue
<1>5. ASSUME NEW n \in Conn, HandlerEnds(n)
      PROVE  Truth'
  <2>1. UNCHANGED <<outcome, file>>
    BY <1>5 DEF HandlerEnds, agentVars
  <2>2. \A m \in Conn : toServer'[m] \in {toServer[m], <<>>}
    BY <1>1, <1>5 DEF HandlerEnds
  <2> QED
    BY <2>1, <2>2, TruthKept
<1>6. ASSUME NEW r \in Put, HandlePut(r)
      PROVE  Truth'
  <2>1. UNCHANGED <<outcome, file>>
    BY <1>6 DEF HandlePut, serverVars
  <2>2. Reply(PutAck(r, "failed")) \/ UNCHANGED toServer
    BY <1>6 DEF HandlePut, Raises
  <2> QED
    BY <1>2, <2>1, <2>2, ReplyAdds, TruthKept DEF PutAck
<1>7. ASSUME NEW p \in Piece, FinishPut(p)
      PROVE  Truth'
  <2> DEFINE got == With(putGot, p)
             ok == HashMatches(got, put)
             stored == IF ok THEN [file EXCEPT ![put] = Content(got, put)]
                             ELSE file
             ack == PutAck(put, IF ok THEN "ok" ELSE "failed")
  <2>1. put \in Put
    BY <1>7 DEF FinishPut, TypeOK, AgentOK
  <2>2. UNCHANGED outcome
    BY <1>7 DEF FinishPut, ReadPiece, serverVars
  <2>3. /\ \A r \in Put : stored[r] \in {file[r], r}
        /\ ok => stored[put] = put
    BY <1>1, <2>1, HashTells
  <2>4. ack.type = "PUT_ACK" /\ ack.res = "ok"
          => ack.req = put /\ stored[ack.req] = ack.req
    BY <2>3 DEF PutAck
  <2>5. \/ file' = stored /\ Reply(ack)
        \/ file' \in {file, stored} /\ UNCHANGED toServer
    BY <1>7 DEF FinishPut, Raises
  <2> HIDE DEF stored, ack
  <2>6. CASE file' = stored /\ Reply(ack)
    BY <2>1, <2>2, <2>3, <2>4, <2>6, ReplyAdds, TruthKept
  <2>7. CASE file' \in {file, stored} /\ UNCHANGED toServer
    BY <2>2, <2>3, <2>7, TruthKept
  <2> QED
    BY <2>5, <2>6, <2>7
<1>8. ASSUME NEW res, Reply(CtrlAck(res)) \/ UNCHANGED toServer,
             UNCHANGED <<outcome, file>>
      PROVE  Truth'
  <2>1. CtrlAck(res).type # "PUT_ACK"
    BY DEF CtrlAck
  <2> QED
    BY <1>2, <1>8, <2>1, ReplyAdds, TruthKept
<1>9. CASE Verified \/ RollBack \/ (\E p \in Piece : RejectDeploy(p))
  <2>1. UNCHANGED <<outcome, file>>
    BY <1>9 DEF Verified, RollBack, RejectDeploy, ForDeploy, ReadPiece,
                serverVars
  <2>2. \E res \in {"ok", "failed"} :
          Reply(CtrlAck(res)) \/ UNCHANGED toServer
    BY <1>9 DEF Verified, RollBack, RejectDeploy, Raises
  <2> QED
    BY <1>8, <2>1, <2>2
<1>10. CASE \/ \E r \in Put : BeginPut(r)
            \/ \E r \in Deploy : BeginDeploy(r)
            \/ \E r \in Req : SendPiece(r) \/ SendEnds(r) \/ SendRaises(r)
                                \/ Answered(r)
            \/ Connect \/ ReceiveLoopEnds \/ HeartbeatFails
            \/ UNCHANGED vars
  BY <1>2, <1>10
     DEF BeginPut, BeginDeploy, SendPiece, SendEnds, SendRaises, Answered,
         Ends, Connect, ReceiveLoopEnds, HeartbeatFails, LoseLink, agentVars,
         serverVars, vars
<1>11. CASE \/ \E r \in Deploy : HandleDeploy(r)
            \/ \E p \in Piece : StoreForPut(p) \/ NeverAnnounced(p)
                                  \/ StoreForDeploy(p) \/ Install(p)
  BY <1>2, <1>11
     DEF HandleDeploy, StoreForPut, NeverAnnounced, StoreForDeploy, Install,
         ForDeploy, ReadPiece, Raises, serverVars
<1> QED
  BY <1>3, <1>4, <1>5, <1>6, <1>7, <1>9, <1>10, <1>11
     DEF Next, Serve, HandlePacket, HandleChunk

LEMMA TruthInit == Init => Truth
BY UploadsAssumption
   DEF Init, Truth, OwnFiles, AcksTrue, ReportsTrue, Req, Conn

(* An upload that reports success has put its own file, whole, at its      *)
(* destination, whatever pieces the agent received in between              *)
(* (file_handler.py:263, file_transfer.py:56).                             *)
THEOREM UploadsThere == Spec => []PutIsThere
<1>1. TypeOK /\ Truth /\ [Next]_vars => Truth'
  BY TruthStep
<1>2. Truth => PutIsThere
  BY DEF Truth, OwnFiles, ReportsTrue, PutIsThere
<1> QED
  BY <1>1, <1>2, TruthInit, UploadTypes, PTL DEF Spec

-----------------------------------------------------------------------------
(***************************************************************************)
(* The program and its newest backup are never a mixture.                  *)
(***************************************************************************)
LEMMA ProgramStep == TypeOK /\ ProgramIntact /\ [Next]_vars => ProgramIntact'
<1> SUFFICES ASSUME TypeOK, ProgramIntact, [Next]_vars
             PROVE  ProgramIntact'
  OBVIOUS
<1> USE DEF ProgramIntact
<1>1. ASSUME NEW p \in Piece, Install(p)
      PROVE  ProgramIntact'
  <2>1. Content(depGot', dep) = dep
    BY <1>1, HashTells DEF Install
  <2>2. dep # Mixed
    BY <1>1, UploadsAssumption DEF Install, TypeOK, AgentOK, Req
  <2>3. program' \in {program, dep} /\ backup' \in {program, backup}
    BY <1>1, <2>1 DEF Install
  <2> QED
    BY <2>2, <2>3
<1>2. CASE RollBack
  BY <1>2 DEF RollBack
<1>3. CASE Verified \/ HeartbeatFails
  BY <1>3 DEF Verified, HeartbeatFails
<1>4. CASE UNCHANGED programVars
  BY <1>4 DEF programVars
<1>5. CASE \/ \E r \in Put : BeginPut(r) \/ HandlePut(r)
           \/ \E r \in Deploy : BeginDeploy(r) \/ HandleDeploy(r)
           \/ \E r \in Req : Serve(r)
           \/ \E n \in Conn : HandleAck(n) \/ HandlerEnds(n)
           \/ Connect \/ ReceiveLoopEnds
           \/ UNCHANGED vars
  BY <1>4, <1>5
     DEF BeginPut, HandlePut, BeginDeploy, HandleDeploy, Serve, SendPiece,
         SendEnds, SendRaises, Answered, TimesOut, Ends, HandleAck,
         HandlerEnds, Connect, ReceiveLoopEnds, agentVars, vars
<1>6. ASSUME NEW p \in Piece,
             \/ StoreForPut(p) \/ FinishPut(p) \/ NeverAnnounced(p)
             \/ StoreForDeploy(p) \/ RejectDeploy(p)
      PROVE  ProgramIntact'
  BY <1>4, <1>6 DEF StoreForPut, FinishPut, NeverAnnounced, StoreForDeploy,
                    RejectDeploy
<1> QED
  BY <1>1, <1>2, <1>3, <1>5, <1>6 DEF Next, HandlePacket, HandleChunk

(* However the pieces of uploads and deployments interleave, what is       *)
(* installed, and what a roll back restores, is the old program or one     *)
(* whole deployed file (deploy_handler.py:89, 112, 124).                   *)
THEOREM ProgramsWhole == Spec => []ProgramIntact
<1>1. Init => ProgramIntact
  BY UploadsAssumption DEF Init, ProgramIntact
<1>2. TypeOK /\ ProgramIntact /\ [Next]_vars => ProgramIntact'
  BY ProgramStep
<1> QED
  BY <1>1, <1>2, UploadTypes, PTL DEF Spec
=============================================================================
