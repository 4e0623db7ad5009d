--------------------------- MODULE RecFlow_proofs ---------------------------
EXTENDS RecFlow, FiniteSetTheorems, SequenceTheorems, WellFoundedInduction,
        TLAPS

(* The least element of a set of numbers.                                  *)
LEMMA MinIsMember ==
  ASSUME NEW I \in SUBSET Nat, I # {}
  PROVE  Min(I) \in I
<1> DEFINE R == OpToRel(<, Nat)
<1>1. \E m \in I : \A y \in I : <<y, m>> \notin R
  <2>1. IsWellFoundedOn(R, Nat)
    BY NatLessThanWellFounded
  <2> HIDE DEF R
  <2> QED
    BY <2>1, WFMin
<1>2. PICK m \in I : \A y \in I : ~(y < m)
  BY <1>1 DEF OpToRel
<1>3. \A y \in I : m =< y
  BY <1>2
<1> QED
  BY <1>3 DEF Min

(* Removing the first occurrence of an agent leaves a sequence of agents:  *)
(* what the finally block of _handle_client does to the waiting list.      *)
LEMMA RemoveFirstType ==
  ASSUME NEW S, NEW s \in Seq(S), NEW e
  PROVE  RemoveFirst(s, e) \in Seq(S)
<1> DEFINE I == {i \in 1..Len(s) : s[i] = e}
           m == Min(I)
<1>1. CASE I = {}
  BY <1>1 DEF RemoveFirst
<1>2. CASE I # {}
  <2>1. m \in 1..Len(s)
    <3>1. I \in SUBSET Nat
      BY LenProperties
    <3>2. m \in I
      BY <1>2, <3>1, MinIsMember
    <3> QED
      BY <3>2
  <2>2. RemoveFirst(s, e) = SubSeq(s, 1, m - 1) \o SubSeq(s, m + 1, Len(s))
    BY <1>2 DEF RemoveFirst, RemoveAt, SelectInSeq
  <2> HIDE DEF m
  <2>3. SubSeq(s, 1, m - 1) \in Seq(S) /\ SubSeq(s, m + 1, Len(s)) \in Seq(S)
    BY <2>1, SubSeqProperties, ElementOfSeq, LenProperties
  <2> QED
    BY <2>2, <2>3, ConcatProperties
<1> QED
  BY <1>1, <1>2

(* The orders in which a poll may find its recordings are sequences of     *)
(* recordings.                                                             *)
LEMMA SetToSeqsType ==
  ASSUME NEW S, NEW F \in SUBSET S, IsFiniteSet(F), NEW s \in SetToSeqs(F)
  PROVE  s \in Seq(S)
<1>1. Cardinality(F) \in Nat
  BY FS_CardinalityType
<1>2. s \in [1..Cardinality(F) -> F]
  BY DEF SetToSeqs
<1> QED
  BY <1>1, <1>2

-----------------------------------------------------------------------------
(***************************************************************************)
(* Type correctness.                                                       *)
(***************************************************************************)
(* A connection is an agent and a number.                                  *)
LEMMA ConnParts ==
  ASSUME NEW c \in Conn
  PROVE  c = <<c[1], c[2]>> /\ c[1] \in Agent /\ c[2] \in 1..MaxConn
BY DEF Conn

(* What the server and the agents write are the packets of the model.      *)
LEMMA PacketTypes ==
  /\ {Start, Stop, NextOne} \subseteq ToAgentMsg
  /\ \A j \in Job : UploadReq(j) \in ToAgentMsg
  /\ \A f \in File : SttResult(f) \in ToAgentMsg /\ Analysis(f) \in ToServerMsg
  /\ \A j \in Job, ok \in BOOLEAN : UploadAck(j, ok) \in ToServerMsg
BY DEF ToAgentMsg, ToServerMsg

(* Writing to an agent keeps its channel a sequence of packets.            *)
LEMMA SendType ==
  ASSUME TypeOK, NEW a \in Agent, NEW n, NEW msg \in ToAgentMsg,
         Send(a, n, msg)
  PROVE  toAgent' \in [Agent -> Seq(ToAgentMsg)]
BY AppendProperties DEF TypeOK, Send

(* So does writing to the server.                                          *)
LEMMA ReplyType ==
  ASSUME TypeOK, NEW a \in Agent, NEW msg \in ToServerMsg
  PROVE  Reply(a, msg) \in [Conn -> Seq(ToServerMsg)]
<1> DEFINE c == <<a, link[a]>>
<1>1. CASE link[a] # NoConn /\ handler[c] # "ended"
  <2>1. c \in Conn
    BY <1>1, RecFlowAssumption DEF TypeOK, Conn, NoConn
  <2>2. Append(toServer[c], msg) \in Seq(ToServerMsg)
    BY <2>1, AppendProperties DEF TypeOK
  <2> QED
    BY <1>1, <2>1, <2>2 DEF TypeOK, Reply
<1>2. CASE ~(link[a] # NoConn /\ handler[c] # "ended")
  BY <1>2 DEF TypeOK, Reply
<1> QED
  BY <1>1, <1>2

(* What the end of a handler leaves of the variables it changes.           *)
LEMMA EndHandlerType ==
  ASSUME TypeOK, NEW c \in Conn, NEW w \in Seq(Agent), EndHandler(c, w)
  PROVE  /\ handler' \in
              [Conn -> {"none", "recv", "requesting", "dispatch", "ended"}]
         /\ toServer' \in [Conn -> Seq(ToServerMsg)]
         /\ session' \in [Agent -> 0..MaxConn]
         /\ waiting' \in Seq(Agent)
<1>1. c[1] \in Agent
  BY ConnParts
<1>2. RemoveFirst(w, c[1]) \in Seq(Agent)
  BY RemoveFirstType
<1>3. NoConn \in 0..MaxConn
  BY RecFlowAssumption DEF NoConn
<1>4. /\ handler' = [handler EXCEPT ![c] = "ended"]
      /\ toServer' = [toServer EXCEPT ![c] = <<>>]
  BY DEF EndHandler
<1>5. /\ session' \in [Agent -> 0..MaxConn]
      /\ waiting' \in Seq(Agent)
  BY <1>1, <1>2, <1>3 DEF TypeOK, EndHandler
<1> QED
  BY <1>4, <1>5, EmptySeq DEF TypeOK

(* What the end of an upload leaves of its record.                         *)
LEMMA ForgetType ==
  ASSUME TypeOK, NEW j \in Job, Forget(j)
  PROVE  /\ phase' \in [Job -> {"free", "asked", "requested", "stt", "final"}]
         /\ jobConn' \in [Job -> Conn \union {None}]
         /\ jobFile' \in [Job -> File \union {None}]
         /\ \A k \in Job : phase'[k] # "free" =>
              jobConn'[k] \in Conn /\ jobFile'[k] \in File
BY DEF TypeOK, Forget

(* What the end of a watcher leaves of its variables.                      *)
LEMMA StopWatcherType ==
  ASSUME TypeOK, NEW a \in Agent, StopWatcher(a)
  PROVE  /\ watcher' \in [Agent -> {"off", "get", "wait", "check"}]
         /\ current' \in [Agent -> File \union {None}]
         /\ queue' \in [Agent -> Seq(File)]
         /\ processed' \in [Agent -> SUBSET File]
         /\ nextEvent' \in [Agent -> BOOLEAN]
         /\ firstDone' \in [Agent -> BOOLEAN]
         /\ \A b \in Agent :
              watcher'[b] \in {"wait", "check"} => current'[b] \in File
BY DEF TypeOK, StopWatcher

(* An iteration of the dispatch loop only shortens the waiting list and    *)
(* may write a NEXT.                                                       *)
LEMMA SendNextType ==
  ASSUME TypeOK, SendNext
  PROVE  waiting' \in Seq(Agent) /\ toAgent' \in [Agent -> Seq(ToAgentMsg)]
<1>1. waiting # <<>> /\ waiting \in Seq(Agent)
  BY DEF TypeOK, SendNext, SlotFree
<1>2. Head(waiting) \in Agent /\ Tail(waiting) \in Seq(Agent)
  BY <1>1, HeadTailProperties
<1>3. toAgent' \in [Agent -> Seq(ToAgentMsg)]
  BY <1>2, SendType, PacketTypes DEF SendNext, TypeOK
<1> QED
  BY <1>2, <1>3 DEF SendNext

(* Reading a packet leaves a channel of packets.                           *)
LEMMA ReadPacketType ==
  ASSUME TypeOK, NEW a \in Agent, NEW msg, ReadPacket(a, msg)
  PROVE  toAgent' \in [Agent -> Seq(ToAgentMsg)]
BY HeadTailProperties DEF TypeOK, ReadPacket

(* The server reads packets of the model, in the order they came.          *)
LEMMA ServerReadType ==
  ASSUME TypeOK, NEW c \in Conn, Received(c)
  PROVE  /\ Head(toServer[c]) \in ToServerMsg
         /\ [toServer EXCEPT ![c] = Tail(@)] \in [Conn -> Seq(ToServerMsg)]
BY HeadTailProperties DEF TypeOK, Received

(* A function updated with a value of its range keeps its type.            *)
LEMMA ExceptType ==
  ASSUME NEW S, NEW T, NEW g \in [S -> T], NEW x \in S, NEW v \in T
  PROVE  [g EXCEPT ![x] = v] \in [S -> T]
OBVIOUS

(* The first packet of a sequence of packets is its head.                  *)
LEMMA HeadIsFirst ==
  ASSUME NEW S, NEW s \in Seq(S), s # <<>>
  PROVE  1 \in DOMAIN s /\ s[1] = Head(s)
BY LenProperties, EmptySeq

(* The initial values have their types.                                    *)
LEMMA TypeInit == Init => TypeOK
BY RecFlowAssumption, EmptySeq DEF Init, TypeOK, NoConn

(* A step keeps the types; an acknowledgement moves on only an upload that *)
(* is open, which OneToken says.                                           *)
LEMMA TypeStep == TypeOK /\ OneToken /\ [Next]_vars => TypeOK'
<1> SUFFICES ASSUME TypeOK, OneToken, [Next]_vars
             PROVE  TypeOK'
  OBVIOUS
<1> USE RecFlowAssumption DEF serverVars, watcherVars, agentVars
<1>1. ASSUME NEW c \in Conn, HandlerEnds(c)
      PROVE  TypeOK'
  <2>1. waiting \in Seq(Agent)
    BY DEF TypeOK
  <2> QED
    BY <1>1, <2>1, EndHandlerType DEF TypeOK, HandlerEnds
<1>2. ASSUME NEW c \in Conn, HandleAnalysis(c)
      PROVE  TypeOK'
  <2>1. PICK f \in File, j \in Job :
          /\ phase' = [phase EXCEPT ![j] = "asked"]
          /\ jobConn' = [jobConn EXCEPT ![j] = c]
          /\ jobFile' = [jobFile EXCEPT ![j] = f]
          /\ Send(c[1], c[2], UploadReq(j))
    BY <1>2 DEF HandleAnalysis
  <2>2. toAgent' \in [Agent -> Seq(ToAgentMsg)]
    BY <2>1, SendType, ConnParts, PacketTypes
  <2>3. toServer' \in [Conn -> Seq(ToServerMsg)]
    BY <1>2, ServerReadType DEF HandleAnalysis
  <2> QED
    BY <1>2, <2>1, <2>2, <2>3 DEF TypeOK, HandleAnalysis
<1>3. ASSUME NEW c \in Conn, CountUpload(c)
      PROVE  TypeOK'
  <2>1. waiting' \in Seq(Agent)
    BY <1>3, ConnParts, AppendProperties DEF CountUpload, TypeOK
  <2>2. inFlight' \in Nat
    BY <1>3 DEF CountUpload, Taken, TypeOK
  <2> QED
    BY <1>3, <2>1, <2>2 DEF TypeOK, CountUpload
<1>4. ASSUME NEW c \in Conn, RequestLost(c)
      PROVE  TypeOK'
  <2>1. waiting \in Seq(Agent)
    BY DEF TypeOK
  <2> QED
    BY <1>4, <2>1, EndHandlerType, ForgetType DEF TypeOK, RequestLost
<1>5. ASSUME NEW c \in Conn, HandleUploadAck(c)
      PROVE  TypeOK'
  <2>1. toServer' \in [Conn -> Seq(ToServerMsg)]
    BY <1>5, ServerReadType DEF HandleUploadAck
  <2>2. inFlight' \in Nat
    <3>1. inFlight' \in {inFlight, Freed}
      BY <1>5 DEF HandleUploadAck
    <3> QED
      BY <3>1 DEF Freed, TypeOK
  <2>3. /\ phase' \in [Job -> {"free", "asked", "requested", "stt", "final"}]
        /\ jobConn' \in [Job -> Conn \union {None}]
        /\ jobFile' \in [Job -> File \union {None}]
        /\ \A k \in Job : phase'[k] # "free" =>
             jobConn'[k] \in Conn /\ jobFile'[k] \in File
    <3>1. PICK j \in Job :
            \/ /\ Head(toServer[c]) = UploadAck(j, TRUE)
               /\ phase' = [phase EXCEPT ![j] = "stt"]
               /\ UNCHANGED <<inFlight, jobConn, jobFile>>
            \/ /\ Head(toServer[c]) = UploadAck(j, FALSE)
               /\ Forget(j)
               /\ inFlight' = Freed
      BY <1>5 DEF HandleUploadAck
    <3>2. CASE Forget(j)
      BY <3>2, ForgetType
    <3>3. CASE /\ Head(toServer[c]) = UploadAck(j, TRUE)
               /\ phase' = [phase EXCEPT ![j] = "stt"]
               /\ UNCHANGED <<inFlight, jobConn, jobFile>>
      <4>1. IsAck(c, 1, j) /\ 1 \in DOMAIN toServer[c]
        BY <1>5, <3>3, HeadIsFirst DEF HandleUploadAck, Received, IsAck, TypeOK
      <4>2. phase[j] # "free"
        BY <4>1 DEF OneToken, TokensAreOpen, Open
      <4> QED
        BY <3>3, <4>2 DEF TypeOK
    <3> QED
      BY <3>1, <3>2, <3>3
  <2> QED
    BY <1>5, <2>1, <2>2, <2>3 DEF TypeOK, HandleUploadAck
<1>6. ASSUME NEW j \in Job, FinishStt(j)
      PROVE  TypeOK'
  <2>1. inFlight' \in Nat
    BY <1>6 DEF FinishStt, Freed, TypeOK
  <2>2. toAgent' \in [Agent -> Seq(ToAgentMsg)]
    <3>1. CASE UNCHANGED toAgent
      BY <3>1 DEF TypeOK
    <3>2. CASE Send(jobConn[j][1], jobConn[j][2], SttResult(jobFile[j]))
      <4>1. jobConn[j] \in Conn /\ jobFile[j] \in File
        BY <1>6 DEF FinishStt, TypeOK
      <4> QED
        BY <3>2, <4>1, ConnParts, PacketTypes, SendType
    <3> QED
      BY <1>6, <3>1, <3>2 DEF FinishStt
  <2> QED
    BY <1>6, <2>1, <2>2 DEF TypeOK, FinishStt
<1>7. CASE SetMaxConcurrent
  BY <1>7 DEF SetMaxConcurrent, Clamp, TypeOK
<1>8. ASSUME NEW c \in Conn, DispatchInHandler(c)
      PROVE  TypeOK'
  <2>1. CASE SendNext /\ UNCHANGED <<session, handler, toServer>>
    BY <1>8, <2>1, SendNextType DEF DispatchInHandler, TypeOK
  <2>2. CASE SendRaises /\ EndHandler(c, Tail(waiting))
    <3>1. Tail(waiting) \in Seq(Agent)
      BY <2>2, HeadTailProperties DEF SendRaises, SlotFree, TypeOK
    <3> QED
      BY <1>8, <2>2, <3>1, EndHandlerType
      DEF DispatchInHandler, SendRaises, TypeOK
  <2>3. CASE /\ ~SlotFree
             /\ handler' = [handler EXCEPT ![c] = "recv"]
             /\ UNCHANGED <<waiting, session, toAgent, toServer>>
    BY <1>8, <2>3 DEF DispatchInHandler, TypeOK
  <2> QED
    BY <1>8, <2>1, <2>2, <2>3 DEF DispatchInHandler
<1>9. ASSUME NEW j \in Job, DispatchInTask(j)
      PROVE  TypeOK'
  <2>1. /\ waiting' \in Seq(Agent)
        /\ toAgent' \in [Agent -> Seq(ToAgentMsg)]
    <3>1. \/ SendNext
          \/ SendRaises /\ waiting' = Tail(waiting)
          \/ UNCHANGED <<waiting, toAgent>>
      BY <1>9 DEF DispatchInTask
    <3>2. CASE SendNext
      BY <3>2, SendNextType
    <3>3. CASE SendRaises /\ waiting' = Tail(waiting)
      BY <3>3, HeadTailProperties DEF SendRaises, SlotFree, TypeOK
    <3>4. CASE UNCHANGED <<waiting, toAgent>>
      BY <3>4 DEF TypeOK
    <3> QED
      BY <3>1, <3>2, <3>3, <3>4
  <2>2. /\ phase' \in [Job -> {"free", "asked", "requested", "stt", "final"}]
        /\ jobConn' \in [Job -> Conn \union {None}]
        /\ jobFile' \in [Job -> File \union {None}]
        /\ \A k \in Job : phase'[k] # "free" =>
             jobConn'[k] \in Conn /\ jobFile'[k] \in File
    BY <1>9, ForgetType DEF DispatchInTask, TypeOK
  <2> QED
    BY <1>9, <2>1, <2>2 DEF TypeOK, DispatchInTask
<1>10. CASE DispatchInGui
  <2>1. /\ waiting' \in Seq(Agent)
        /\ toAgent' \in [Agent -> Seq(ToAgentMsg)]
    <3>1. \/ SendNext
          \/ SendRaises /\ waiting' = Tail(waiting)
          \/ UNCHANGED <<waiting, toAgent>>
      BY <1>10 DEF DispatchInGui
    <3>2. CASE SendNext
      BY <3>2, SendNextType
    <3>3. CASE SendRaises /\ waiting' = Tail(waiting)
      BY <3>3, HeadTailProperties DEF SendRaises, SlotFree, TypeOK
    <3>4. CASE UNCHANGED <<waiting, toAgent>>
      BY <3>4 DEF TypeOK
    <3> QED
      BY <3>1, <3>2, <3>3, <3>4
  <2> QED
    BY <1>10, <2>1 DEF TypeOK, DispatchInGui
<1>11. ASSUME NEW a \in Agent, SendCommand(a)
       PROVE  TypeOK'
  <2>1. toAgent' \in [Agent -> Seq(ToAgentMsg)]
    BY <1>11, SendType, PacketTypes DEF SendCommand, Start, Stop
  <2>2. commands' \in [Agent -> 0..CommandBound]
    BY <1>11 DEF SendCommand, TypeOK
  <2> QED
    BY <1>11, <2>1, <2>2 DEF TypeOK, SendCommand
<1>12. ASSUME NEW a \in Agent, Connect(a)
       PROVE  TypeOK'
  <2>1. made[a] + 1 \in 1..MaxConn /\ <<a, made[a] + 1>> \in Conn
    BY <1>12 DEF Connect, TypeOK, Conn
  <2>2. /\ made' \in [Agent -> 0..MaxConn]
        /\ link' \in [Agent -> 0..MaxConn]
        /\ session' \in [Agent -> 0..MaxConn]
    BY <1>12, <2>1 DEF Connect, TypeOK
  <2>3. handler' \in
          [Conn -> {"none", "recv", "requesting", "dispatch", "ended"}]
    BY <1>12, <2>1 DEF Connect, TypeOK
  <2> QED
    BY <1>12, <2>2, <2>3 DEF TypeOK, Connect
<1>13. ASSUME NEW a \in Agent, ReceiveLoopEnds(a)
       PROVE  TypeOK'
  BY <1>13, EmptySeq DEF TypeOK, ReceiveLoopEnds, NoConn
<1>14. ASSUME NEW a \in Agent, HeartbeatFails(a)
       PROVE  TypeOK'
  <2>1. /\ link' \in [Agent -> 0..MaxConn]
        /\ uploading' \in [Agent -> Job \union {None}]
        /\ toAgent' \in [Agent -> Seq(ToAgentMsg)]
    BY <1>14, EmptySeq DEF HeartbeatFails, TypeOK, NoConn
  <2>2. StopWatcher(a)
    BY <1>14 DEF HeartbeatFails
  <2> QED
    BY <1>14, <2>1, <2>2, StopWatcherType DEF TypeOK, HeartbeatFails
<1>15. ASSUME NEW a \in Agent, Read(a)
       PROVE  TypeOK'
  <2>1. CASE HandleStart(a)
    <3>1. toAgent' \in [Agent -> Seq(ToAgentMsg)]
      BY <2>1, ReadPacketType DEF HandleStart
    <3>2. /\ watcher' \in [Agent -> {"off", "get", "wait", "check"}]
          /\ \A b \in Agent :
               watcher'[b] \in {"wait", "check"} => current'[b] \in File
      <4>1. CASE watcher[a] = "off"
        BY <2>1, <4>1 DEF HandleStart, TypeOK
      <4>2. CASE watcher[a] # "off"
        BY <2>1, <4>2 DEF HandleStart, TypeOK
      <4> QED
        BY <4>1, <4>2
    <3> QED
      BY <2>1, <3>1, <3>2 DEF HandleStart, ReadPacket, TypeOK
  <2>2. CASE HandleStop(a)
    BY <2>2, ReadPacketType, StopWatcherType DEF HandleStop, ReadPacket, TypeOK
  <2>3. CASE HandleNext(a)
    BY <2>3, ReadPacketType DEF HandleNext, ReadPacket, TypeOK
  <2>4. CASE HandleUploadReq(a)
    <3>1. PICK j \in Job : /\ ReadPacket(a, UploadReq(j))
                           /\ uploading' = [uploading EXCEPT ![a] = j]
      BY <2>4 DEF HandleUploadReq
    <3>2. toAgent' \in [Agent -> Seq(ToAgentMsg)]
      BY <3>1, ReadPacketType
    <3> QED
      BY <2>4, <3>1, <3>2 DEF HandleUploadReq, ReadPacket, TypeOK
  <2>5. CASE HandleSttResult(a)
    <3>1. PICK f \in File :
            /\ ReadPacket(a, SttResult(f))
            /\ \/ analyzed' = [analyzed EXCEPT ![a] = @ \union {f}]
               \/ UNCHANGED analyzed
      BY <2>5 DEF HandleSttResult
    <3>2. toAgent' \in [Agent -> Seq(ToAgentMsg)]
      BY <3>1, ReadPacketType
    <3>3. analyzed' \in [Agent -> SUBSET File]
      <4>1. analyzed \in [Agent -> SUBSET File]
        BY DEF TypeOK
      <4>2. analyzed[a] \union {f} \in SUBSET File
        BY <4>1
      <4> QED
        BY <3>1, <4>1, <4>2, ExceptType
    <3> QED
      BY <2>5, <3>1, <3>2, <3>3 DEF HandleSttResult, ReadPacket, TypeOK
  <2> QED
    BY <1>15, <2>1, <2>2, <2>3, <2>4, <2>5 DEF Read
<1>16. ASSUME NEW a \in Agent, FinishUpload(a)
       PROVE  TypeOK'
  <2>1. uploading[a] \in Job
    BY <1>16 DEF FinishUpload, TypeOK
  <2>2. toServer' \in [Conn -> Seq(ToServerMsg)]
    BY <1>16, <2>1, ReplyType, PacketTypes DEF FinishUpload
  <2> QED
    BY <1>16, <2>2 DEF TypeOK, FinishUpload
<1>17. ASSUME NEW a \in Agent, Poll(a)
       PROVE  TypeOK'
  <2>1. PICK found \in SUBSET File :
          \E s \in SetToSeqs(found) : queue' = [queue EXCEPT ![a] = @ \o s]
    BY <1>17 DEF Poll
  <2>s. PICK s \in SetToSeqs(found) : queue' = [queue EXCEPT ![a] = @ \o s]
    BY <2>1
  <2>2. s \in Seq(File)
    BY SetToSeqsType, FS_Subset
  <2>3. queue' \in [Agent -> Seq(File)]
    BY <2>s, <2>2, ConcatProperties DEF TypeOK
  <2> QED
    BY <1>17, <2>3 DEF TypeOK, Poll
<1>18. ASSUME NEW a \in Agent, Consume(a)
       PROVE  TypeOK'
  <2>1. CASE TakeRecording(a)
    <3>1. Head(queue[a]) \in File /\ Tail(queue[a]) \in Seq(File)
      BY <2>1, HeadTailProperties DEF TakeRecording, TypeOK
    <3> QED
      <4>1. queue' \in [Agent -> Seq(File)]
        BY <2>1, <3>1 DEF TakeRecording, TypeOK
      <4>2. CASE UNCHANGED <<watcher, current, nextEvent>>
        BY <2>1, <4>1, <4>2 DEF TakeRecording, TypeOK
      <4>3. CASE
        /\ current' = [current EXCEPT ![a] = Head(queue[a])]
        /\ watcher' = [watcher EXCEPT ![a] = IF firstDone[a] THEN "wait"
                                                             ELSE "check"]
        /\ nextEvent' = [nextEvent EXCEPT ![a] = ~firstDone[a] /\ @]
        <5>1. /\ current' \in [Agent -> File \union {None}]
              /\ watcher' \in [Agent -> {"off", "get", "wait", "check"}]
              /\ \A b \in Agent :
                   watcher'[b] \in {"wait", "check"} => current'[b] \in File
          BY <4>3, <3>1 DEF TypeOK
        <5>2. nextEvent' \in [Agent -> BOOLEAN]
          <6>1. (~firstDone[a] /\ nextEvent[a]) \in BOOLEAN
            BY Zenon
          <6> QED
            BY <4>3, <6>1, Zenon DEF TypeOK
        <5> QED
          BY <2>1, <4>1, <5>1, <5>2 DEF TakeRecording, TypeOK
      <4> QED
        BY <2>1, <4>2, <4>3 DEF TakeRecording
  <2>2. CASE ResumeAfterWait(a)
    BY <2>2 DEF ResumeAfterWait, TypeOK
  <2>3. CASE CheckRecording(a)
    <3>1. current[a] \in File
      BY <2>3 DEF CheckRecording, TypeOK
    <3>2. toServer' \in [Conn -> Seq(ToServerMsg)]
      BY <2>3, <3>1, ReplyType, PacketTypes DEF CheckRecording, TypeOK
    <3> QED
      <4>1. /\ processed' \in [Agent -> SUBSET File]
            /\ firstDone' \in [Agent -> BOOLEAN]
        <5>1. /\ processed \in [Agent -> SUBSET File]
              /\ firstDone \in [Agent -> BOOLEAN]
          BY DEF TypeOK
        <5>2. /\ \/ UNCHANGED processed
                 \/ processed' = [processed EXCEPT
                                     ![a] = @ \union {current[a]}]
              /\ \/ UNCHANGED firstDone
                 \/ firstDone' = [firstDone EXCEPT ![a] = TRUE]
          BY <2>3 DEF CheckRecording
        <5>3. processed[a] \union {current[a]} \in SUBSET File
          BY <3>1, <5>1
        <5>4. processed' \in [Agent -> SUBSET File]
          BY <5>1, <5>2, <5>3, ExceptType
        <5>5. firstDone' \in [Agent -> BOOLEAN]
          BY <5>1, <5>2, ExceptType
        <5> QED
          BY <5>4, <5>5
      <4>2. /\ watcher' \in [Agent -> {"off", "get", "wait", "check"}]
            /\ current' \in [Agent -> File \union {None}]
            /\ \A b \in Agent :
                 watcher'[b] \in {"wait", "check"} => current'[b] \in File
        BY <2>3 DEF CheckRecording, TypeOK
      <4> QED
        BY <2>3, <3>2, <4>1, <4>2 DEF CheckRecording, TypeOK
  <2> QED
    BY <1>18, <2>1, <2>2, <2>3 DEF Consume, ResumeOnNext, ResumeOnTimeout
<1>19. CASE UNCHANGED vars
  BY <1>19 DEF TypeOK, vars
<1> QED
  BY <1>1, <1>2, <1>3, <1>4, <1>5, <1>6, <1>7, <1>8, <1>9, <1>10, <1>11,
     <1>12, <1>13, <1>14, <1>15, <1>16, <1>17, <1>18, <1>19
  DEF Next, Handle

-----------------------------------------------------------------------------
(***************************************************************************)
(* Tokens.  A step that only takes tokens away, or moves the packets of a  *)
(* channel up by one, keeps what is said of them.                          *)
(***************************************************************************)
(* An element of the tail is the next one of the sequence.                 *)
LEMMA TailShift ==
  ASSUME NEW S, NEW s \in Seq(S), s # <<>>, NEW i \in DOMAIN Tail(s)
  PROVE  i + 1 \in DOMAIN s /\ Tail(s)[i] = s[i + 1]
BY HeadTailProperties, LenProperties

(* An element of an extended sequence is an old one or the new one.        *)
LEMMA AppendSame ==
  ASSUME NEW S, NEW s \in Seq(S), NEW e \in S, NEW i \in DOMAIN Append(s, e)
  PROVE  \/ i \in DOMAIN s /\ Append(s, e)[i] = s[i]
         \/ i = Len(s) + 1 /\ Append(s, e)[i] = e
BY AppendProperties, LenProperties

(* A request for j is on its way to agent a; an acknowledgement of j is on *)
(* its way to the server on connection c.                                  *)
HasReq(a, j) == \E i \in DOMAIN toAgent[a] : IsReq(a, i, j)
HasAck(c, j) == \E i \in DOMAIN toServer[c] : IsAck(c, i, j)

(* What TokensAreOpen and TokensAreUnique say of one upload.               *)
OpenTokens(j) ==
  /\ \A a \in Agent : uploading[a] = j \/ HasReq(a, j) =>
       Open(j) /\ jobConn[j] = <<a, link[a]>>
  /\ \A c \in Conn : HasAck(c, j) => Open(j) /\ jobConn[j] = c

ReqOnce(a, j) ==
  \A i, k \in DOMAIN toAgent[a] : IsReq(a, i, j) /\ IsReq(a, k, j) => i = k
AckOnce(c, j) ==
  \A i, k \in DOMAIN toServer[c] : IsAck(c, i, j) /\ IsAck(c, k, j) => i = k

UniqueToken(j) ==
  /\ \A a \in Agent : ReqOnce(a, j) /\ (HasReq(a, j) => uploading[a] # j)
  /\ \A c \in Conn : AckOnce(c, j)
  /\ \A a \in Agent, c \in Conn :
       HasAck(c, j) => uploading[a] # j /\ ~HasReq(a, j)

TokenOf(j) == OpenTokens(j) /\ UniqueToken(j)

(* The invariant on tokens, upload by upload.                              *)
LEMMA TokensByJob ==
  ASSUME RecFlowAssumption, TokensAreOpen, TokensAreUnique, NEW j \in Job
  PROVE  TokenOf(j)
<1>1. OpenTokens(j)
  BY DEF TokensAreOpen, OpenTokens, HasReq, HasAck
<1>2. ASSUME NEW a \in Agent
      PROVE  ReqOnce(a, j) /\ (HasReq(a, j) => uploading[a] # j)
  <2>1. <<a, 1>> \in Conn
    BY RecFlowAssumption DEF Conn
  <2> QED
    BY <2>1 DEF TokensAreUnique, ReqOnce, HasReq
<1>3. ASSUME NEW c \in Conn
      PROVE  /\ AckOnce(c, j)
             /\ \A a \in Agent : HasAck(c, j) =>
                  uploading[a] # j /\ ~HasReq(a, j)
  <2>1. c[1] \in Agent
    BY ConnParts
  <2> QED
    BY <2>1 DEF TokensAreUnique, AckOnce, HasAck, HasReq
<1> QED
  BY <1>1, <1>2, <1>3 DEF TokenOf, UniqueToken

(* A step that takes no new token into the world of an upload, and leaves  *)
(* the upload open as long as it has one, keeps what is said of it: d and  *)
(* e are how far the packets of each channel move up.                      *)
LEMMA FewerTokens ==
  ASSUME TypeOK, TypeOK', NEW j \in Job, TokenOf(j),
         NEW d \in [Agent -> {0, 1}], NEW e \in [Conn -> {0, 1}],
         \A a \in Agent : \A i \in DOMAIN toAgent'[a] :
           IsReq(a, i, j)' => IsReq(a, i + d[a], j),
         \A c \in Conn : \A i \in DOMAIN toServer'[c] :
           IsAck(c, i, j)' => IsAck(c, i + e[c], j),
         \A a \in Agent : uploading'[a] = j => uploading[a] = j,
         \A a \in Agent :
           uploading'[a] = j \/ HasReq(a, j)' =>
             Open(j)' /\ jobConn'[j] = jobConn[j] /\ link'[a] = link[a],
         \A c \in Conn :
           HasAck(c, j)' => Open(j)' /\ jobConn'[j] = jobConn[j]
  PROVE  TokenOf(j)'
<1>1. \A a \in Agent : HasReq(a, j)' => HasReq(a, j)
  BY DEF HasReq, IsReq
<1>2. \A c \in Conn : HasAck(c, j)' => HasAck(c, j)
  BY DEF HasAck, IsAck
<1>3. OpenTokens(j)'
  BY <1>1, <1>2 DEF TokenOf, OpenTokens
<1>4. ASSUME NEW a \in Agent
      PROVE  ReqOnce(a, j)'
  <2> SUFFICES ASSUME NEW i \in DOMAIN toAgent'[a], NEW k \in DOMAIN toAgent'[a],
                      IsReq(a, i, j)', IsReq(a, k, j)'
               PROVE  i = k
    BY DEF ReqOnce
  <2>1. i \in Nat /\ k \in Nat
    <3>1. toAgent'[a] \in Seq(ToAgentMsg)
      BY DEF TypeOK
    <3> QED
      BY <3>1, LenProperties
  <2>2. i + d[a] = k + d[a]
    <3>1. IsReq(a, i + d[a], j) /\ IsReq(a, k + d[a], j)
      OBVIOUS
    <3> QED
      BY <3>1 DEF TokenOf, UniqueToken, ReqOnce, IsReq
  <2>3. d[a] \in {0, 1}
    OBVIOUS
  <2> QED
    BY <2>1, <2>2, <2>3
<1>5. ASSUME NEW c \in Conn
      PROVE  AckOnce(c, j)'
  <2> SUFFICES ASSUME NEW i \in DOMAIN toServer'[c],
                      NEW k \in DOMAIN toServer'[c],
                      IsAck(c, i, j)', IsAck(c, k, j)'
               PROVE  i = k
    BY DEF AckOnce
  <2>1. i \in Nat /\ k \in Nat
    <3>1. toServer'[c] \in Seq(ToServerMsg)
      BY DEF TypeOK
    <3> QED
      BY <3>1, LenProperties
  <2>2. i + e[c] = k + e[c]
    <3>1. IsAck(c, i + e[c], j) /\ IsAck(c, k + e[c], j)
      OBVIOUS
    <3> QED
      BY <3>1 DEF TokenOf, UniqueToken, AckOnce, IsAck
  <2>3. e[c] \in {0, 1}
    OBVIOUS
  <2> QED
    BY <2>1, <2>2, <2>3
<1> QED
  BY <1>1, <1>2, <1>3, <1>4, <1>5 DEF TokenOf, UniqueToken

-----------------------------------------------------------------------------
(***************************************************************************)
(* What the operations on the channels do to the tokens of an upload.      *)
(***************************************************************************)
\* Nothing is written to an agent but requests for other uploads.
NoNewReq(j) ==
  \A a \in Agent : \A i \in DOMAIN toAgent'[a] :
    IsReq(a, i, j)' => IsReq(a, i, j)

\* Nothing is written to the server but acknowledgements of other uploads.
NoNewAck(j) ==
  \A c \in Conn : \A i \in DOMAIN toServer'[c] :
    IsAck(c, i, j)' => IsAck(c, i, j)

(* Writing a packet that is not j's request makes no request for j.        *)
LEMMA SendOther ==
  ASSUME TypeOK, NEW b \in Agent, NEW n, NEW msg \in ToAgentMsg,
         Send(b, n, msg), NEW j \in Job, msg # UploadReq(j)
  PROVE  NoNewReq(j)
<1> SUFFICES ASSUME NEW a \in Agent, NEW i \in DOMAIN toAgent'[a],
                    IsReq(a, i, j)'
             PROVE  IsReq(a, i, j)
  BY DEF NoNewReq
<1>1. toAgent'[a][i] = UploadReq(j)
  BY DEF IsReq
<1>2. CASE link[b] = n /\ a = b
  <2>1. toAgent'[a] = Append(toAgent[a], msg) /\ toAgent[a] \in Seq(ToAgentMsg)
    BY <1>2 DEF Send, TypeOK
  <2>2. i \in DOMAIN toAgent[a] /\ toAgent'[a][i] = toAgent[a][i]
    BY <1>1, <2>1, AppendSame
  <2> QED
    BY <1>1, <2>2 DEF IsReq
<1>3. CASE ~(link[b] = n /\ a = b)
  <2>1. toAgent'[a] = toAgent[a]
    BY <1>3 DEF Send, TypeOK
  <2> QED
    BY <1>1, <2>1 DEF IsReq
<1> QED
  BY <1>2, <1>3

(* Writing a packet that is not j's acknowledgement makes none for j.      *)
LEMMA ReplyOther ==
  ASSUME TypeOK, NEW a \in Agent, NEW msg \in ToServerMsg,
         toServer' = Reply(a, msg),
         NEW j \in Job, \A ok \in BOOLEAN : msg # UploadAck(j, ok)
  PROVE  NoNewAck(j)
<1> SUFFICES ASSUME NEW c \in Conn, NEW i \in DOMAIN toServer'[c],
                    IsAck(c, i, j)'
             PROVE  IsAck(c, i, j)
  BY DEF NoNewAck
<1>1. PICK ok \in BOOLEAN : toServer'[c][i] = UploadAck(j, ok)
  BY DEF IsAck
<1>2. CASE toServer'[c] = toServer[c]
  BY <1>1, <1>2 DEF IsAck
<1>3. CASE toServer'[c] = Append(toServer[c], msg)
  <2>1. toServer[c] \in Seq(ToServerMsg)
    BY DEF TypeOK
  <2>2. i \in DOMAIN toServer[c] /\ toServer'[c][i] = toServer[c][i]
    BY <1>1, <1>3, <2>1, AppendSame
  <2> QED
    BY <1>1, <2>2 DEF IsAck
<1> QED
  BY <1>2, <1>3 DEF Reply, TypeOK

\* The packets are the requests and the acknowledgements they say they are.
LEMMA PacketsDiffer ==
  ASSUME NEW j \in Job, NEW f \in File
  PROVE  /\ Start # UploadReq(j) /\ Stop # UploadReq(j)
         /\ NextOne # UploadReq(j) /\ SttResult(f) # UploadReq(j)
         /\ \A ok \in BOOLEAN : Analysis(f) # UploadAck(j, ok)
         /\ \A k \in Job : UploadReq(j) = UploadReq(k) => j = k
         /\ \A k \in Job, ok, ko \in BOOLEAN :
              UploadAck(j, ok) = UploadAck(k, ko) => j = k
BY DEF Start, Stop, NextOne, SttResult, UploadReq, Analysis, UploadAck

(* An agent that reads a packet takes it from the channel: the others move *)
(* up by one, and no request appears.                                      *)
LEMMA ReadTokens ==
  ASSUME TypeOK, NEW b \in Agent, NEW msg, ReadPacket(b, msg), NEW j \in Job
  PROVE  \A a \in Agent : \A i \in DOMAIN toAgent'[a] :
           IsReq(a, i, j)' => IsReq(a, i + (IF a = b THEN 1 ELSE 0), j)
<1> SUFFICES ASSUME NEW a \in Agent, NEW i \in DOMAIN toAgent'[a],
                    toAgent'[a][i] = UploadReq(j)
             PROVE  IsReq(a, i + (IF a = b THEN 1 ELSE 0), j)
  BY DEF IsReq
<1>1. CASE a = b
  <2>1. toAgent'[a] = Tail(toAgent[a]) /\ toAgent[a] \in Seq(ToAgentMsg)
    BY <1>1 DEF ReadPacket, TypeOK
  <2>2. toAgent[a] # <<>>
    BY <1>1 DEF ReadPacket
  <2>3. i + 1 \in DOMAIN toAgent[a] /\ toAgent'[a][i] = toAgent[a][i + 1]
    BY <2>1, <2>2, TailShift
  <2> QED
    BY <1>1, <2>3 DEF IsReq
<1>2. CASE a # b
  <2>1. toAgent'[a] = toAgent[a] /\ toAgent[a] \in Seq(ToAgentMsg)
    BY <1>2 DEF ReadPacket, TypeOK
  <2>2. i \in Nat
    BY <2>1, LenProperties
  <2>3. i + 0 = i
    BY <2>2
  <2> QED
    BY <1>2, <2>1, <2>3 DEF IsReq
<1> QED
  BY <1>1, <1>2

(* The same for a handler of the server.                                   *)
LEMMA ServerReadTokens ==
  ASSUME TypeOK, NEW b \in Conn, Received(b),
         toServer' = [toServer EXCEPT ![b] = Tail(@)], NEW j \in Job
  PROVE  \A c \in Conn : \A i \in DOMAIN toServer'[c] :
           IsAck(c, i, j)' => IsAck(c, i + (IF c = b THEN 1 ELSE 0), j)
<1> SUFFICES ASSUME NEW c \in Conn, NEW i \in DOMAIN toServer'[c],
                    IsAck(c, i, j)'
             PROVE  IsAck(c, i + (IF c = b THEN 1 ELSE 0), j)
  OBVIOUS
<1>1. CASE c = b
  <2>1. toServer'[c] = Tail(toServer[c]) /\ toServer[c] \in Seq(ToServerMsg)
    BY <1>1 DEF TypeOK
  <2>2. toServer[c] # <<>>
    BY <1>1 DEF Received
  <2>3. i + 1 \in DOMAIN toServer[c] /\ toServer'[c][i] = toServer[c][i + 1]
    BY <2>1, <2>2, TailShift
  <2> QED
    BY <1>1, <2>3 DEF IsAck
<1>2. CASE c # b
  <2>1. toServer'[c] = toServer[c] /\ toServer[c] \in Seq(ToServerMsg)
    BY <1>2 DEF TypeOK
  <2>2. i \in Nat
    BY <2>1, LenProperties
  <2>3. i + 0 = i
    BY <2>2
  <2> QED
    BY <1>2, <2>1, <2>3 DEF IsAck
<1> QED
  BY <1>1, <1>2

(* Steps that read nothing, start no upload and write no request and no    *)
(* acknowledgement.                                                        *)
LEMMA QuietTokens ==
  ASSUME TypeOK, TypeOK', NEW j \in Job, TokenOf(j), NoNewReq(j), NoNewAck(j),
         \A a \in Agent : uploading'[a] = j => uploading[a] = j,
         \A a \in Agent : uploading'[a] = j \/ HasReq(a, j)' =>
           Open(j)' /\ jobConn'[j] = jobConn[j] /\ link'[a] = link[a],
         \A c \in Conn : HasAck(c, j)' => Open(j)' /\ jobConn'[j] = jobConn[j]
  PROVE  TokenOf(j)'
<1> DEFINE d == [a \in Agent |-> 0]
           e == [c \in Conn |-> 0]
<1>1. d \in [Agent -> {0, 1}] /\ e \in [Conn -> {0, 1}]
  OBVIOUS
<1>2. \A a \in Agent : \A i \in DOMAIN toAgent'[a] :
        IsReq(a, i, j)' => IsReq(a, i + d[a], j)
  <2> SUFFICES ASSUME NEW a \in Agent, NEW i \in DOMAIN toAgent'[a],
                      IsReq(a, i, j)
               PROVE  IsReq(a, i + d[a], j)
    BY DEF NoNewReq
  <2>1. toAgent'[a] \in Seq(ToAgentMsg)
    BY DEF TypeOK
  <2>2. i \in Nat
    BY <2>1, LenProperties
  <2>3. i + d[a] = i
    BY <2>2
  <2> QED
    BY <2>3
<1>3. \A c \in Conn : \A i \in DOMAIN toServer'[c] :
        IsAck(c, i, j)' => IsAck(c, i + e[c], j)
  <2> SUFFICES ASSUME NEW c \in Conn, NEW i \in DOMAIN toServer'[c],
                      IsAck(c, i, j)
               PROVE  IsAck(c, i + e[c], j)
    BY DEF NoNewAck
  <2>1. toServer'[c] \in Seq(ToServerMsg)
    BY DEF TypeOK
  <2>2. i \in Nat
    BY <2>1, LenProperties
  <2>3. i + e[c] = i
    BY <2>2
  <2> QED
    BY <2>3
<1> HIDE DEF d, e
<1> QED
  BY <1>1, <1>2, <1>3, FewerTokens

(* The common case: the upload and the agents' links stay as they are.     *)
LEMMA StillTokens ==
  ASSUME TypeOK, TypeOK', NEW j \in Job, TokenOf(j), NoNewReq(j), NoNewAck(j),
         UNCHANGED <<uploading, link>>,
         Open(j) => Open(j)' /\ jobConn'[j] = jobConn[j]
  PROVE  TokenOf(j)'
<1>1. ASSUME NEW a \in Agent, HasReq(a, j)'
      PROVE  HasReq(a, j)
  BY <1>1 DEF HasReq, IsReq, NoNewReq
<1>2. ASSUME NEW c \in Conn, HasAck(c, j)'
      PROVE  HasAck(c, j)
  BY <1>2 DEF HasAck, IsAck, NoNewAck
<1>3. \A a \in Agent : uploading'[a] = j \/ HasReq(a, j)' => Open(j)
  BY <1>1 DEF TokenOf, OpenTokens
<1>4. \A c \in Conn : HasAck(c, j)' => Open(j)
  BY <1>2 DEF TokenOf, OpenTokens
<1> QED
  BY <1>3, <1>4, QuietTokens

(* An ended handler reads no acknowledgement any more.                     *)
LEMMA EndHandlerTokens ==
  ASSUME TypeOK, NEW b \in Conn, NEW w, EndHandler(b, w), NEW j \in Job
  PROVE  NoNewAck(j) /\ ~HasAck(b, j)'
<1>1. toServer' = [toServer EXCEPT ![b] = <<>>]
  BY DEF EndHandler
<1>2. toServer'[b] = <<>>
  BY <1>1 DEF TypeOK
<1>3. ~HasAck(b, j)'
  BY <1>2 DEF HasAck
<1>4. \A c \in Conn : c # b => toServer'[c] = toServer[c]
  BY <1>1 DEF TypeOK
<1> QED
  BY <1>2, <1>3, <1>4 DEF NoNewAck, IsAck

(* An iteration of the dispatch loop writes nothing but a NEXT.            *)
LEMMA DispatchTokens ==
  ASSUME TypeOK, SendNext \/ SendRaises \/ UNCHANGED toAgent, NEW j \in Job
  PROVE  NoNewReq(j)
<1>1. CASE UNCHANGED toAgent
  BY <1>1 DEF NoNewReq, IsReq
<1>2. CASE SendNext /\ ~UNCHANGED toAgent
  <2>1. Head(waiting) \in Agent
    BY <1>2, HeadTailProperties DEF SendNext, SlotFree, TypeOK
  <2>2. Send(Head(waiting), session[Head(waiting)], NextOne)
    BY <1>2 DEF SendNext
  <2>3. NextOne # UploadReq(j) /\ NextOne \in ToAgentMsg
    BY PacketTypes DEF NextOne, UploadReq
  <2> QED
    BY <2>1, <2>2, <2>3, SendOther
<1> QED
  BY <1>1, <1>2 DEF SendRaises

(* The channels to the server stay as they are.                            *)
LEMMA SameAcks ==
  ASSUME UNCHANGED toServer, NEW j
  PROVE  NoNewAck(j)
BY DEF NoNewAck, IsAck

(* The channels to the agents stay as they are.                            *)
LEMMA SameReqs ==
  ASSUME UNCHANGED toAgent, NEW j
  PROVE  NoNewReq(j)
BY DEF NoNewReq, IsReq

-----------------------------------------------------------------------------
(***************************************************************************)
(* Every step keeps the tokens of every upload: three of them make, move   *)
(* or turn a token into another, the rest only lose some.                  *)
(***************************************************************************)
\* A report opens a free upload, which has no token, and writes its request.
LEMMA HandleAnalysisTokens ==
  ASSUME TypeOK, TypeOK', RecFlowAssumption, NEW c \in Conn, HandleAnalysis(c),
         NEW j \in Job, TokenOf(j)
  PROVE  TokenOf(j)'
<1>1. PICK f \in File, k \in Job :
        /\ Head(toServer[c]) = Analysis(f)
        /\ phase[k] = "free"
        /\ phase' = [phase EXCEPT ![k] = "asked"]
        /\ jobConn' = [jobConn EXCEPT ![k] = c]
        /\ Send(c[1], c[2], UploadReq(k))
  BY DEF HandleAnalysis
<1>2. /\ Received(c)
      /\ toServer' = [toServer EXCEPT ![c] = Tail(@)]
      /\ UNCHANGED <<uploading, link>>
  BY DEF HandleAnalysis, agentVars
<1>3. c = <<c[1], c[2]>> /\ c[1] \in Agent /\ UploadReq(k) \in ToAgentMsg
  BY ConnParts, PacketTypes
<1> DEFINE d == [a \in Agent |-> 0]
           e == [b \in Conn |-> IF b = c THEN 1 ELSE 0]
<1>4. d \in [Agent -> {0, 1}] /\ e \in [Conn -> {0, 1}]
  OBVIOUS
<1>5. \A b \in Conn : \A i \in DOMAIN toServer'[b] :
        IsAck(b, i, j)' => IsAck(b, i + e[b], j)
  BY <1>2, ServerReadTokens
<1>6. \A b \in Conn : HasAck(b, j)' => HasAck(b, j)
  BY <1>5 DEF HasAck, IsAck
<1>7. CASE j # k
  <2>1. UploadReq(k) # UploadReq(j)
    BY <1>7 DEF UploadReq
  <2>2. NoNewReq(j)
    BY <1>1, <1>3, <2>1, SendOther
  <2>3. \A a \in Agent : HasReq(a, j)' => HasReq(a, j)
    BY <2>2 DEF HasReq, IsReq, NoNewReq
  <2>4. phase'[j] = phase[j] /\ jobConn'[j] = jobConn[j]
    BY <1>1, <1>7 DEF TypeOK
  <2>5. \A a \in Agent : uploading'[a] = j \/ HasReq(a, j)' => Open(j)'
    BY <1>2, <2>3, <2>4 DEF TokenOf, OpenTokens, Open
  <2>6. \A b \in Conn : HasAck(b, j)' => Open(j)'
    BY <1>6, <2>4 DEF TokenOf, OpenTokens, Open
  <2>7. \A a \in Agent : \A i \in DOMAIN toAgent'[a] :
          IsReq(a, i, j)' => IsReq(a, i + d[a], j)
    <3> SUFFICES ASSUME NEW a \in Agent, NEW i \in DOMAIN toAgent'[a],
                        IsReq(a, i, j)
                 PROVE  IsReq(a, i + d[a], j)
      BY <2>2 DEF NoNewReq
    <3>1. toAgent'[a] \in Seq(ToAgentMsg)
      BY DEF TypeOK
    <3>2. i \in Nat
      BY <3>1, LenProperties
    <3>3. i + d[a] = i
      BY <3>2
    <3> QED
      BY <3>3
  <2> HIDE DEF d, e
  <2> QED
    BY <1>2, <1>4, <1>5, <2>4, <2>5, <2>6, <2>7, FewerTokens
<1>8. CASE j = k
  <2>1. ~Open(j)
    BY <1>1, <1>8 DEF Open
  <2>2. /\ \A a \in Agent : uploading[a] # j /\ ~HasReq(a, j)
        /\ \A b \in Conn : ~HasAck(b, j)
    BY <2>1 DEF TokenOf, OpenTokens
  <2>3. Open(j)' /\ jobConn'[j] = c
    BY <1>1, <1>8 DEF Open, TypeOK
  <2>4. ASSUME NEW a \in Agent, NEW i \in DOMAIN toAgent'[a], IsReq(a, i, j)'
        PROVE  a = c[1] /\ link[a] = c[2] /\ i = Len(toAgent[a]) + 1
    <3>1. ~IsReq(a, i, j)
      BY <2>2 DEF HasReq, IsReq
    <3>2. a = c[1] /\ link[a] = c[2]
      <4>1. toAgent'[a] # toAgent[a]
        BY <3>1, <2>4 DEF IsReq
      <4> QED
        BY <1>1, <1>3, <4>1 DEF Send, TypeOK
    <3>3. /\ toAgent'[a] = Append(toAgent[a], UploadReq(k))
          /\ toAgent[a] \in Seq(ToAgentMsg)
      BY <1>1, <1>3, <3>2 DEF Send, TypeOK
    <3>4. i \in DOMAIN toAgent[a] /\ toAgent'[a][i] = toAgent[a][i] =>
            IsReq(a, i, j)
      BY <2>4 DEF IsReq
    <3> QED
      BY <1>3, <3>1, <3>2, <3>3, <3>4, AppendSame
  <2>5. OpenTokens(j)'
    BY <1>2, <1>3, <1>6, <2>2, <2>3, <2>4 DEF OpenTokens, HasReq
  <2>6. UniqueToken(j)'
    <3>1. \A a \in Agent : ReqOnce(a, j)'
      BY <2>4 DEF ReqOnce
    <3>2. \A b \in Conn : AckOnce(b, j)'
      BY <1>6, <2>2 DEF AckOnce, HasAck
    <3> QED
      BY <1>2, <1>6, <2>2, <3>1, <3>2 DEF UniqueToken
  <2> QED
    BY <2>5, <2>6 DEF TokenOf
<1> QED
  BY <1>7, <1>8

\* The agent takes the request from its channel and is busy with the upload.
LEMMA HandleUploadReqTokens ==
  ASSUME TypeOK, TypeOK', RecFlowAssumption, NEW b \in Agent,
         HandleUploadReq(b), NEW j \in Job, TokenOf(j)
  PROVE  TokenOf(j)'
<1>1. PICK k \in Job : /\ ReadPacket(b, UploadReq(k))
                       /\ uploading' = [uploading EXCEPT ![b] = k]
  BY DEF HandleUploadReq
<1>2. /\ UNCHANGED <<phase, jobConn, link, toServer>>
      /\ toAgent[b] # <<>> /\ Head(toAgent[b]) = UploadReq(k)
  BY <1>1 DEF ReadPacket, serverVars
<1>3. IsReq(b, 1, k) /\ 1 \in DOMAIN toAgent[b]
  <2>1. toAgent[b] \in Seq(ToAgentMsg)
    BY DEF TypeOK
  <2> QED
    BY <1>2, <2>1, HeadIsFirst DEF IsReq
<1> DEFINE d == [a \in Agent |-> IF a = b THEN 1 ELSE 0]
           e == [c \in Conn |-> 0]
<1>4. d \in [Agent -> {0, 1}] /\ e \in [Conn -> {0, 1}]
  OBVIOUS
<1>5. \A a \in Agent : \A i \in DOMAIN toAgent'[a] :
        IsReq(a, i, j)' => IsReq(a, i + d[a], j)
  BY <1>1, ReadTokens
<1>6. \A a \in Agent : HasReq(a, j)' => HasReq(a, j)
  BY <1>5 DEF HasReq, IsReq
<1>7. \A c \in Conn : HasAck(c, j)' <=> HasAck(c, j)
  BY <1>2 DEF HasAck, IsAck
<1>8. CASE j # k
  <2>1. \A a \in Agent : uploading'[a] = j => uploading[a] = j
    BY <1>1, <1>8 DEF TypeOK
  <2>2. \A c \in Conn : \A i \in DOMAIN toServer'[c] :
          IsAck(c, i, j)' => IsAck(c, i + e[c], j)
    <3> SUFFICES ASSUME NEW c \in Conn, NEW i \in DOMAIN toServer[c],
                        IsAck(c, i, j)
                 PROVE  IsAck(c, i + e[c], j)
      BY <1>2 DEF IsAck
    <3>1. toServer[c] \in Seq(ToServerMsg)
      BY DEF TypeOK
    <3>2. i \in Nat
      BY <3>1, LenProperties
    <3>3. i + e[c] = i
      BY <3>2
    <3> QED
      BY <3>3
  <2>3. /\ \A a \in Agent : uploading'[a] = j \/ HasReq(a, j)' => Open(j)'
        /\ \A c \in Conn : HasAck(c, j)' => Open(j)'
    BY <1>2, <1>6, <1>7, <2>1 DEF TokenOf, OpenTokens, Open
  <2> HIDE DEF d, e
  <2> QED
    BY <1>2, <1>4, <1>5, <2>1, <2>2, <2>3, FewerTokens
<1>9. CASE j = k
  <2>1. HasReq(b, j)
    BY <1>3, <1>9 DEF HasReq
  <2>2. /\ \A a \in Agent : HasReq(a, j) => a = b
        /\ \A a \in Agent : uploading[a] # j
        /\ \A c \in Conn : ~HasAck(c, j)
    BY <2>1 DEF TokenOf, OpenTokens, UniqueToken
  <2>3. \A a \in Agent : ~HasReq(a, j)'
    <3> SUFFICES ASSUME NEW i \in DOMAIN toAgent'[b], IsReq(b, i, j)'
                 PROVE  FALSE
      BY <1>6, <2>2 DEF HasReq
    <3>1. IsReq(b, i + 1, j) /\ i + 1 \in DOMAIN toAgent[b]
      BY <1>5 DEF IsReq
    <3>2. i + 1 = 1
      BY <1>3, <1>9, <3>1 DEF TokenOf, UniqueToken, ReqOnce
    <3>3. toAgent'[b] \in Seq(ToAgentMsg)
      BY DEF TypeOK
    <3>4. i \in Nat /\ i >= 1
      BY <3>3, LenProperties
    <3> QED
      BY <3>2, <3>4
  <2>4. \A a \in Agent : uploading'[a] = j => a = b
    BY <1>1, <2>2 DEF TypeOK
  <2>5. OpenTokens(j)'
    BY <1>2, <1>7, <2>1, <2>2, <2>3, <2>4 DEF TokenOf, OpenTokens, Open
  <2>6. UniqueToken(j)'
    <3>1. \A a \in Agent : ReqOnce(a, j)'
      BY <2>3 DEF ReqOnce, HasReq
    <3>2. \A c \in Conn : AckOnce(c, j)'
      BY <1>7, <2>2 DEF AckOnce, HasAck
    <3> QED
      BY <1>7, <2>2, <2>3, <3>1, <3>2 DEF UniqueToken
  <2> QED
    BY <2>5, <2>6 DEF TokenOf
<1> QED
  BY <1>8, <1>9

\* The upload ends, and its acknowledgement is written on its connection.
LEMMA FinishUploadTokens ==
  ASSUME TypeOK, TypeOK', RecFlowAssumption, NEW b \in Agent,
         FinishUpload(b), NEW j \in Job, TokenOf(j)
  PROVE  TokenOf(j)'
<1> DEFINE k == uploading[b]
           n == <<b, link[b]>>
<1>1. PICK ok \in BOOLEAN : toServer' = Reply(b, UploadAck(k, ok))
  BY DEF FinishUpload
<1>2. /\ k \in Job
      /\ uploading' = [uploading EXCEPT ![b] = None]
      /\ UNCHANGED <<phase, jobConn, link, toAgent>>
  BY DEF FinishUpload, serverVars, TypeOK
<1>3. UploadAck(k, ok) \in ToServerMsg
  BY <1>2, PacketTypes
<1>4. \A a \in Agent : uploading'[a] = j => uploading[a] = j /\ a # b
  <2>1. None # j /\ uploading \in [Agent -> Job \union {None}]
    BY RecFlowAssumption DEF TypeOK
  <2>2. \A a \in Agent :
          uploading'[a] = IF a = b THEN None ELSE uploading[a]
    <3>1. uploading' = [uploading EXCEPT ![b] = None]
      BY <1>2
    <3> HIDE DEF k, n
    <3> QED
      BY <2>1, <3>1
  <2> QED
    BY <2>1, <2>2
<1>5. \A a \in Agent : HasReq(a, j)' <=> HasReq(a, j)
  BY <1>2 DEF HasReq, IsReq
<1>6. CASE j # k
  <2>1. \A x \in BOOLEAN : UploadAck(k, ok) # UploadAck(j, x)
    BY <1>6 DEF UploadAck
  <2>2. NoNewAck(j)
    BY <1>1, <1>3, <2>1, ReplyOther
  <2>3. NoNewReq(j)
    BY <1>2, SameReqs
  <2>4. \A c \in Conn : HasAck(c, j)' => HasAck(c, j)
    BY <2>2 DEF HasAck, IsAck, NoNewAck
  <2>5. /\ \A a \in Agent : uploading'[a] = j \/ HasReq(a, j)' => Open(j)'
        /\ \A c \in Conn : HasAck(c, j)' => Open(j)'
    BY <1>2, <1>4, <1>5, <2>4 DEF TokenOf, OpenTokens, Open
  <2> QED
    BY <1>2, <1>4, <2>2, <2>3, <2>5, QuietTokens
<1>7. CASE j = k
  <2>1. Open(j) /\ jobConn[j] = n
    BY <1>7 DEF TokenOf, OpenTokens
  <2>2. /\ \A a \in Agent : uploading[a] = j => a = b
        /\ \A a \in Agent : ~HasReq(a, j)
        /\ \A c \in Conn : ~HasAck(c, j)
    BY <1>7, <2>1 DEF TokenOf, OpenTokens, UniqueToken
  <2>3. \A a \in Agent : uploading'[a] # j /\ ~HasReq(a, j)'
    BY <1>4, <1>5, <2>2
  <2>4. ASSUME NEW c \in Conn, NEW i \in DOMAIN toServer'[c], IsAck(c, i, j)'
        PROVE  c = n /\ i = Len(toServer[c]) + 1
    <3>1. ~IsAck(c, i, j)
      BY <2>2 DEF HasAck, IsAck
    <3>2. toServer'[c] # toServer[c]
      BY <2>4, <3>1 DEF IsAck
    <3>3. /\ c = n
          /\ toServer'[c] = Append(toServer[c], UploadAck(k, ok))
          /\ toServer[c] \in Seq(ToServerMsg)
      <4>1. toServer \in [Conn -> Seq(ToServerMsg)]
        BY DEF TypeOK
      <4> HIDE DEF k
      <4> QED
        BY <1>1, <3>2, <4>1 DEF Reply
    <3>4. i \in DOMAIN toServer[c] /\ toServer'[c][i] = toServer[c][i] =>
            IsAck(c, i, j)
      BY <2>4 DEF IsAck
    <3> QED
      BY <1>3, <3>1, <3>3, <3>4, AppendSame
  <2>5. OpenTokens(j)'
    BY <1>2, <2>1, <2>3, <2>4 DEF OpenTokens, HasAck, Open
  <2>6. UniqueToken(j)'
    <3>1. \A a \in Agent : ReqOnce(a, j)'
      BY <2>3 DEF ReqOnce, HasReq
    <3>2. \A c \in Conn : AckOnce(c, j)'
      BY <2>4 DEF AckOnce
    <3> QED
      BY <2>3, <3>1, <3>2 DEF UniqueToken
  <2> QED
    BY <2>5, <2>6 DEF TokenOf
<1> QED
  BY <1>6, <1>7

\* The first packet of a connection that is an acknowledgement of k: the
\* only token of k, on the connection of k.
LEMMA AckAtHead ==
  ASSUME TypeOK, NEW c \in Conn, Received(c), NEW k \in Job, NEW ok \in BOOLEAN,
         Head(toServer[c]) = UploadAck(k, ok), TokenOf(k)
  PROVE  /\ IsAck(c, 1, k) /\ 1 \in DOMAIN toServer[c]
         /\ Open(k) /\ jobConn[k] = c
         /\ \A a \in Agent : uploading[a] # k /\ ~HasReq(a, k)
         /\ \A b \in Conn : HasAck(b, k) => b = c
<1>1. toServer[c] \in Seq(ToServerMsg) /\ toServer[c] # <<>>
  BY DEF TypeOK, Received
<1>2. IsAck(c, 1, k) /\ 1 \in DOMAIN toServer[c]
  BY <1>1, HeadIsFirst DEF IsAck
<1>3. HasAck(c, k)
  BY <1>2 DEF HasAck
<1> QED
  BY <1>2, <1>3 DEF TokenOf, OpenTokens, UniqueToken

\* The server takes the acknowledgement, the last token of the upload.
LEMMA HandleUploadAckTokens ==
  ASSUME TypeOK, TypeOK', RecFlowAssumption, NEW c \in Conn,
         HandleUploadAck(c), \A k \in Job : TokenOf(k), NEW j \in Job
  PROVE  TokenOf(j)'
<1>1. PICK k \in Job :
        \/ /\ Head(toServer[c]) = UploadAck(k, TRUE)
           /\ phase' = [phase EXCEPT ![k] = "stt"]
           /\ UNCHANGED <<inFlight, jobConn, jobFile>>
        \/ /\ Head(toServer[c]) = UploadAck(k, FALSE)
           /\ Forget(k)
           /\ inFlight' = Freed
  BY DEF HandleUploadAck
<1>2. /\ Received(c)
      /\ toServer' = [toServer EXCEPT ![c] = Tail(@)]
      /\ UNCHANGED <<uploading, link, toAgent>>
  BY DEF HandleUploadAck, agentVars
<1>3. /\ IsAck(c, 1, k) /\ 1 \in DOMAIN toServer[c]
      /\ Open(k) /\ jobConn[k] = c
      /\ \A a \in Agent : uploading[a] # k /\ ~HasReq(a, k)
      /\ \A b \in Conn : HasAck(b, k) => b = c
  BY <1>1, <1>2, AckAtHead
<1> DEFINE d == [a \in Agent |-> 0]
           e == [b \in Conn |-> IF b = c THEN 1 ELSE 0]
<1>4. d \in [Agent -> {0, 1}] /\ e \in [Conn -> {0, 1}]
  OBVIOUS
<1>5. \A b \in Conn : \A i \in DOMAIN toServer'[b] :
        IsAck(b, i, j)' => IsAck(b, i + e[b], j)
  BY <1>2, ServerReadTokens
<1>6. \A b \in Conn : HasAck(b, j)' => HasAck(b, j)
  BY <1>5 DEF HasAck, IsAck
<1>7. \A a \in Agent : HasReq(a, j)' <=> HasReq(a, j)
  BY <1>2 DEF HasReq, IsReq
<1>8. \A a \in Agent : \A i \in DOMAIN toAgent'[a] :
        IsReq(a, i, j)' => IsReq(a, i + d[a], j)
  <2> SUFFICES ASSUME NEW a \in Agent, NEW i \in DOMAIN toAgent[a],
                      IsReq(a, i, j)
               PROVE  IsReq(a, i + d[a], j)
    BY <1>2 DEF IsReq
  <2>1. toAgent[a] \in Seq(ToAgentMsg)
    BY DEF TypeOK
  <2>2. i \in Nat
    BY <2>1, LenProperties
  <2>3. i + d[a] = i
    BY <2>2
  <2> QED
    BY <2>3
<1>9. CASE j # k
  <2>1. phase'[j] = phase[j] /\ jobConn'[j] = jobConn[j]
    <3>1. /\ \/ phase' = [phase EXCEPT ![k] = "stt"]
             \/ phase' = [phase EXCEPT ![k] = "free"]
          /\ \/ jobConn' = jobConn
             \/ jobConn' = [jobConn EXCEPT ![k] = None]
      BY <1>1 DEF Forget
    <3>2. DOMAIN phase = Job /\ DOMAIN jobConn = Job
      BY DEF TypeOK
    <3> QED
      BY <1>9, <3>1, <3>2
  <2>2. /\ \A a \in Agent : uploading'[a] = j \/ HasReq(a, j)' => Open(j)'
        /\ \A b \in Conn : HasAck(b, j)' => Open(j)'
    BY <1>2, <1>6, <1>7, <2>1 DEF TokenOf, OpenTokens, Open
  <2> HIDE DEF d, e
  <2> QED
    BY <1>2, <1>4, <1>5, <1>8, <2>1, <2>2, FewerTokens
<1>10. CASE j = k
  <2>1. \A b \in Conn : ~HasAck(b, j)'
    <3> SUFFICES ASSUME NEW i \in DOMAIN toServer'[c], IsAck(c, i, j)'
                 PROVE  FALSE
      BY <1>3, <1>6, <1>10 DEF HasAck
    <3>1. IsAck(c, i + 1, j) /\ i + 1 \in DOMAIN toServer[c]
      BY <1>5 DEF IsAck
    <3>2. i + 1 = 1
      BY <1>3, <1>10, <3>1 DEF TokenOf, UniqueToken, AckOnce
    <3>3. toServer'[c] \in Seq(ToServerMsg)
      BY DEF TypeOK
    <3>4. i \in Nat /\ i >= 1
      BY <3>3, LenProperties
    <3> QED
      BY <3>2, <3>4
  <2>2. \A a \in Agent : uploading'[a] # j /\ ~HasReq(a, j)'
    BY <1>2, <1>3, <1>7, <1>10
  <2>3. OpenTokens(j)'
    BY <2>1, <2>2 DEF OpenTokens
  <2>4. UniqueToken(j)'
    BY <2>1, <2>2 DEF UniqueToken, ReqOnce, AckOnce, HasReq, HasAck
  <2> QED
    BY <2>3, <2>4 DEF TokenOf
<1> QED
  BY <1>9, <1>10

\* A packet that is not a request leaves the tokens where they are.
LEMMA ReadOtherTokens ==
  ASSUME TypeOK, TypeOK', NEW b \in Agent, NEW msg, ReadPacket(b, msg),
         UNCHANGED uploading, NEW j \in Job, TokenOf(j)
  PROVE  TokenOf(j)'
<1> DEFINE d == [a \in Agent |-> IF a = b THEN 1 ELSE 0]
           e == [c \in Conn |-> 0]
<1>1. d \in [Agent -> {0, 1}] /\ e \in [Conn -> {0, 1}]
  OBVIOUS
<1>2. UNCHANGED <<phase, jobConn, link, toServer>>
  BY DEF ReadPacket, serverVars
<1>3. \A a \in Agent : \A i \in DOMAIN toAgent'[a] :
        IsReq(a, i, j)' => IsReq(a, i + d[a], j)
  BY ReadTokens
<1>4. \A a \in Agent : HasReq(a, j)' => HasReq(a, j)
  BY <1>3 DEF HasReq, IsReq
<1>5. \A c \in Conn : HasAck(c, j)' <=> HasAck(c, j)
  BY <1>2 DEF HasAck, IsAck
<1>6. \A c \in Conn : \A i \in DOMAIN toServer'[c] :
        IsAck(c, i, j)' => IsAck(c, i + e[c], j)
  <2> SUFFICES ASSUME NEW c \in Conn, NEW i \in DOMAIN toServer[c],
                      IsAck(c, i, j)
               PROVE  IsAck(c, i + e[c], j)
    BY <1>2 DEF IsAck
  <2>1. toServer[c] \in Seq(ToServerMsg)
    BY DEF TypeOK
  <2>2. i \in Nat
    BY <2>1, LenProperties
  <2>3. i + e[c] = i
    BY <2>2
  <2> QED
    BY <2>3
<1>7. /\ \A a \in Agent : uploading'[a] = j \/ HasReq(a, j)' => Open(j)'
      /\ \A c \in Conn : HasAck(c, j)' => Open(j)'
  BY <1>2, <1>4, <1>5 DEF TokenOf, OpenTokens, Open
<1> HIDE DEF d, e
<1> QED
  BY <1>1, <1>2, <1>3, <1>6, <1>7, FewerTokens

\* A connection that begins or ends: the agent's end has no token then.
LEMMA LinkTokens ==
  ASSUME TypeOK, TypeOK', NEW b \in Agent, NEW j \in Job, TokenOf(j),
         NoNewReq(j), UNCHANGED <<phase, jobConn, toServer>>,
         \A a \in Agent : uploading'[a] = j => uploading[a] = j,
         \A a \in Agent : a # b => link'[a] = link[a],
         uploading'[b] # j, toAgent'[b] = <<>>
  PROVE  TokenOf(j)'
<1>1. NoNewAck(j) /\ \A c \in Conn : HasAck(c, j)' => HasAck(c, j)
  BY SameAcks DEF HasAck, IsAck
<1>2. \A a \in Agent : HasReq(a, j)' => HasReq(a, j) /\ a # b
  BY DEF NoNewReq, HasReq, IsReq
<1>3. /\ \A a \in Agent : uploading'[a] = j \/ HasReq(a, j)' =>
           Open(j)' /\ link'[a] = link[a]
      /\ \A c \in Conn : HasAck(c, j)' => Open(j)'
  BY <1>1, <1>2 DEF TokenOf, OpenTokens, Open
<1> QED
  BY <1>1, <1>3, QuietTokens

(* Every step keeps what is said of the tokens of one upload.              *)
LEMMA TokenStep ==
  ASSUME TypeOK, TypeOK', RecFlowAssumption, ConnectionsInOrder, [Next]_vars,
         \A k \in Job : TokenOf(k), NEW j \in Job
  PROVE  TokenOf(j)'
<1>none. None # j
  BY RecFlowAssumption
<1> USE DEF serverVars, agentVars, watcherVars
<1>1. ASSUME NEW c \in Conn, HandlerEnds(c)
      PROVE  TokenOf(j)'
  <2>1. /\ EndHandler(c, waiting)
        /\ UNCHANGED <<phase, jobConn, uploading, link, toAgent>>
    BY <1>1 DEF HandlerEnds
  <2>2. NoNewAck(j) /\ NoNewReq(j)
    BY <2>1, EndHandlerTokens, SameReqs
  <2> QED
    BY <2>1, <2>2, StillTokens DEF Open
<1>2. ASSUME NEW c \in Conn, HandleAnalysis(c)
      PROVE  TokenOf(j)'
  BY <1>2, HandleAnalysisTokens
<1>3. ASSUME NEW c \in Conn, CountUpload(c)
      PROVE  TokenOf(j)'
  <2>1. UNCHANGED <<jobConn, uploading, link, toAgent, toServer>>
    BY <1>3 DEF CountUpload
  <2>2. Open(j) => Open(j)'
    BY <1>3 DEF CountUpload, Open, TypeOK
  <2> QED
    BY <2>1, <2>2, SameAcks, SameReqs, StillTokens
<1>4. ASSUME NEW c \in Conn, RequestLost(c)
      PROVE  TokenOf(j)'
  <2>1. /\ EndHandler(c, waiting)
        /\ link[c[1]] # c[2]
        /\ UNCHANGED <<uploading, link, toAgent>>
    BY <1>4 DEF RequestLost
  <2>2. PICK k \in Job : phase[k] = "asked" /\ jobConn[k] = c /\ Forget(k)
    BY <1>4 DEF RequestLost
  <2>3. NoNewAck(j) /\ NoNewReq(j) /\ ~HasAck(c, j)'
    BY <2>1, EndHandlerTokens, SameReqs
  <2>4. CASE j # k
    <3>1. phase'[j] = phase[j] /\ jobConn'[j] = jobConn[j]
      BY <2>2, <2>4 DEF Forget, TypeOK
    <3> QED
      BY <2>1, <2>3, <3>1, StillTokens DEF Open
  <2>5. CASE j = k
    <3>1. \A a \in Agent : uploading[a] # j /\ ~HasReq(a, j)
      <4>1. \A a \in Agent : c # <<a, link[a]>>
        BY <2>1
      <4> QED
        BY <2>2, <2>5, <4>1 DEF TokenOf, OpenTokens
    <3>2. \A a \in Agent : uploading'[a] # j /\ ~HasReq(a, j)'
      BY <2>1, <3>1 DEF HasReq, IsReq
    <3>3. \A b \in Conn : HasAck(b, j)' => HasAck(b, j)
      BY <2>3 DEF HasAck, IsAck, NoNewAck
    <3>4. \A b \in Conn : ~HasAck(b, j)'
      BY <2>2, <2>3, <2>5, <3>3 DEF TokenOf, OpenTokens
    <3> QED
      BY <2>3, <3>2, <3>4, QuietTokens
  <2> QED
    BY <2>4, <2>5
<1>5. ASSUME NEW c \in Conn, HandleUploadAck(c)
      PROVE  TokenOf(j)'
  BY <1>5, HandleUploadAckTokens
<1>6. ASSUME NEW k \in Job, FinishStt(k)
      PROVE  TokenOf(j)'
  <2>1. UNCHANGED <<jobConn, uploading, link, toServer>>
    BY <1>6 DEF FinishStt
  <2>2. Open(j) => Open(j)'
    BY <1>6 DEF FinishStt, Open, TypeOK
  <2>3. NoNewReq(j)
    <3>1. CASE UNCHANGED toAgent
      BY <3>1, SameReqs
    <3>2. CASE Send(jobConn[k][1], jobConn[k][2], SttResult(jobFile[k]))
      <4>1. jobConn[k][1] \in Agent /\ jobFile[k] \in File
        BY <1>6, ConnParts DEF FinishStt, TypeOK
      <4>2. SttResult(jobFile[k]) # UploadReq(j)
        BY DEF SttResult, UploadReq
      <4> QED
        BY <3>2, <4>1, <4>2, PacketTypes, SendOther
    <3> QED
      BY <1>6, <3>1, <3>2 DEF FinishStt
  <2> QED
    BY <2>1, <2>2, <2>3, SameAcks, StillTokens
<1>7. CASE SetMaxConcurrent
  BY <1>7, SameAcks, SameReqs, StillTokens DEF SetMaxConcurrent, Open
<1>8. ASSUME NEW c \in Conn, DispatchInHandler(c)
      PROVE  TokenOf(j)'
  <2>1. UNCHANGED <<phase, jobConn, uploading, link>>
    BY <1>8 DEF DispatchInHandler
  <2>2. NoNewReq(j)
    BY <1>8, DispatchTokens DEF DispatchInHandler
  <2>3. NoNewAck(j)
    BY <1>8, EndHandlerTokens, SameAcks DEF DispatchInHandler
  <2> QED
    BY <2>1, <2>2, <2>3, StillTokens DEF Open
<1>9. ASSUME NEW k \in Job, DispatchInTask(k)
      PROVE  TokenOf(j)'
  <2>1. UNCHANGED <<uploading, link, toServer>> /\ phase[k] = "final"
    BY <1>9 DEF DispatchInTask
  <2>2. NoNewReq(j)
    BY <1>9, DispatchTokens DEF DispatchInTask
  <2>3. Open(j) => Open(j)' /\ jobConn'[j] = jobConn[j]
    <3>1. CASE Forget(k)
      BY <2>1, <3>1 DEF Forget, Open, TypeOK
    <3>2. CASE UNCHANGED <<phase, jobConn, jobFile>>
      BY <3>2 DEF Open
    <3> QED
      BY <1>9, <3>1, <3>2 DEF DispatchInTask
  <2> QED
    BY <2>1, <2>2, <2>3, SameAcks, StillTokens
<1>10. CASE DispatchInGui
  <2>1. UNCHANGED <<phase, jobConn, uploading, link, toServer>>
    BY <1>10 DEF DispatchInGui
  <2>2. NoNewReq(j)
    BY <1>10, DispatchTokens DEF DispatchInGui
  <2> QED
    BY <2>1, <2>2, SameAcks, StillTokens DEF Open
<1>11. ASSUME NEW a \in Agent, SendCommand(a)
       PROVE  TokenOf(j)'
  <2>1. UNCHANGED <<phase, jobConn, uploading, link, toServer>>
    BY <1>11 DEF SendCommand
  <2>2. PICK cmd \in {"START", "STOP"} : Send(a, session[a], [type |-> cmd])
    BY <1>11, RecFlowAssumption DEF SendCommand
  <2>3. [type |-> cmd] \in ToAgentMsg /\ [type |-> cmd] # UploadReq(j)
    BY PacketTypes DEF Start, Stop, UploadReq
  <2>4. NoNewReq(j)
    BY <2>2, <2>3, SendOther
  <2> QED
    BY <2>1, <2>4, SameAcks, StillTokens DEF Open
<1>12. ASSUME NEW a \in Agent, Connect(a)
       PROVE  TokenOf(j)'
  <2>1. /\ UNCHANGED <<phase, jobConn, uploading, toAgent, toServer>>
        /\ \A b \in Agent : b # a => link'[b] = link[b]
    BY <1>12 DEF Connect, TypeOK
  <2>2. toAgent[a] = <<>> /\ uploading[a] = None
    BY <1>12 DEF Connect, ConnectionsInOrder
  <2> QED
    BY <1>none, <2>1, <2>2, SameReqs, LinkTokens
<1>13. ASSUME NEW a \in Agent, ReceiveLoopEnds(a) \/ HeartbeatFails(a)
       PROVE  TokenOf(j)'
  <2>1. /\ UNCHANGED <<phase, jobConn, toServer>>
        /\ link' = [link EXCEPT ![a] = NoConn]
        /\ toAgent' = [toAgent EXCEPT ![a] = <<>>]
    BY <1>13 DEF ReceiveLoopEnds, HeartbeatFails
  <2>2. /\ uploading'[a] = None
        /\ \A b \in Agent : uploading'[b] = j => uploading[b] = j
    <3>1. \/ uploading[a] = None /\ uploading' = uploading
          \/ uploading' = [uploading EXCEPT ![a] = None]
      BY <1>13 DEF ReceiveLoopEnds, HeartbeatFails
    <3>2. DOMAIN uploading = Agent
      BY DEF TypeOK
    <3> QED
      BY <1>none, <3>1, <3>2
  <2>3. /\ \A b \in Agent : b # a => link'[b] = link[b]
        /\ \A b \in Agent : b # a => toAgent'[b] = toAgent[b]
        /\ toAgent'[a] = <<>>
    BY <2>1 DEF TypeOK
  <2>4. NoNewReq(j)
    BY <2>3 DEF NoNewReq, IsReq
  <2> QED
    BY <1>none, <2>1, <2>2, <2>3, <2>4, LinkTokens
<1>14. ASSUME NEW a \in Agent, Read(a)
       PROVE  TokenOf(j)'
  <2>1. CASE HandleUploadReq(a)
    BY <2>1, HandleUploadReqTokens
  <2>2. CASE ~HandleUploadReq(a)
    <3>1. PICK msg : ReadPacket(a, msg) /\ UNCHANGED uploading
      BY <1>14, <2>2 DEF Read, HandleStart, HandleStop, HandleNext,
                         HandleSttResult
    <3> QED
      BY <3>1, ReadOtherTokens
  <2> QED
    BY <2>1, <2>2
<1>15. ASSUME NEW a \in Agent, FinishUpload(a)
       PROVE  TokenOf(j)'
  BY <1>15, FinishUploadTokens
<1>16. ASSUME NEW a \in Agent, Poll(a) \/ Consume(a)
       PROVE  TokenOf(j)'
  <2>1. UNCHANGED <<phase, jobConn, uploading, link, toAgent>>
    BY <1>16 DEF Poll, Consume, TakeRecording, ResumeOnNext, ResumeOnTimeout,
                 ResumeAfterWait, CheckRecording
  <2>2. NoNewAck(j)
    <3>1. CASE UNCHANGED toServer
      BY <3>1, SameAcks
    <3>2. CASE CheckRecording(a) /\ toServer' = Reply(a, Analysis(current[a]))
      <4>1. current[a] \in File
        BY <3>2 DEF CheckRecording, TypeOK
      <4>2. \A ok \in BOOLEAN : Analysis(current[a]) # UploadAck(j, ok)
        BY DEF Analysis, UploadAck
      <4> QED
        BY <3>2, <4>1, <4>2, PacketTypes, ReplyOther
    <3> QED
      BY <1>16, <3>1, <3>2
      DEF Poll, Consume, TakeRecording, ResumeOnNext, ResumeOnTimeout,
          ResumeAfterWait, CheckRecording
  <2> QED
    BY <2>1, <2>2, SameReqs, StillTokens DEF Open
<1>17. CASE UNCHANGED vars
  BY <1>17, SameAcks, SameReqs, StillTokens DEF vars, Open
<1> QED
  BY <1>1, <1>2, <1>3, <1>4, <1>5, <1>6, <1>7, <1>8, <1>9, <1>10, <1>11,
     <1>12, <1>13, <1>14, <1>15, <1>16, <1>17
  DEF Next, Handle

(* Every step keeps what is said of the tokens of all uploads.             *)
LEMMA TokensStep ==
  TypeOK /\ TypeOK' /\ OneToken /\ [Next]_vars =>
    TokensAreOpen' /\ TokensAreUnique'
<1> SUFFICES ASSUME TypeOK, TypeOK', OneToken, [Next]_vars
             PROVE  TokensAreOpen' /\ TokensAreUnique'
  OBVIOUS
<1>1. \A j \in Job : TokenOf(j)
  BY RecFlowAssumption, TokensByJob DEF OneToken
<1>2. \A j \in Job : TokenOf(j)'
  BY <1>1, RecFlowAssumption, TokenStep DEF OneToken
<1>3. TokensAreOpen'
  BY <1>2 DEF TokensAreOpen, TokenOf, OpenTokens, HasReq, HasAck
<1>4. TokensAreUnique'
  BY <1>2 DEF TokensAreUnique, TokenOf, UniqueToken, ReqOnce, AckOnce, HasReq,
              HasAck
<1> QED
  BY <1>3, <1>4

-----------------------------------------------------------------------------
(***************************************************************************)
(* The rest of OneToken: who drains a request, and what an agent without a *)
(* connection, or a connection not opened yet, may hold.                   *)
(***************************************************************************)
\* A handler other than c stays where it is, and no upload becomes asked.
LEMMA AskedKept ==
  ASSUME TypeOK, AskedIsDraining, NEW c \in Conn,
         handler[c] # "requesting" \/ (\A j \in Job :
           phase'[j] = "asked" => jobConn[j] # c),
         \A b \in Conn : b # c => handler'[b] = handler[b],
         \A j \in Job : phase'[j] = "asked" =>
           phase[j] = "asked" /\ jobConn'[j] = jobConn[j]
  PROVE  AskedIsDraining'
<1> SUFFICES ASSUME NEW j \in Job, phase'[j] = "asked"
             PROVE  /\ jobConn'[j] \in Conn
                    /\ handler'[jobConn'[j]] = "requesting"
                    /\ \A k \in Job :
                         phase'[k] = "asked" /\ jobConn'[k] = jobConn'[j] =>
                           k = j
  BY DEF AskedIsDraining
<1>1. /\ phase[j] = "asked" /\ jobConn'[j] = jobConn[j]
      /\ jobConn[j] \in Conn /\ handler[jobConn[j]] = "requesting"
  BY DEF AskedIsDraining
<1>2. jobConn[j] # c
  BY <1>1
<1> QED
  BY <1>1, <1>2 DEF AskedIsDraining

\* The same where no handler moves.
LEMMA AskedStill ==
  ASSUME AskedIsDraining, UNCHANGED handler,
         \A j \in Job : phase'[j] = "asked" =>
           phase[j] = "asked" /\ jobConn'[j] = jobConn[j]
  PROVE  AskedIsDraining'
BY DEF AskedIsDraining

(* Every step keeps the handler of an asked upload in its drain.           *)
LEMMA AskedStep ==
  TypeOK /\ OneToken /\ [Next]_vars => AskedIsDraining'
<1> SUFFICES ASSUME TypeOK, OneToken, [Next]_vars
             PROVE  AskedIsDraining'
  OBVIOUS
<1>inv. AskedIsDraining /\ ConnectionsInOrder /\ TokensAreOpen
  BY DEF OneToken
<1> USE DEF serverVars, agentVars, watcherVars
<1>1. ASSUME NEW c \in Conn, HandlerEnds(c)
      PROVE  AskedIsDraining'
  <2>1. /\ handler[c] = "recv" /\ UNCHANGED <<phase, jobConn>>
        /\ \A b \in Conn : b # c => handler'[b] = handler[b]
    BY <1>1 DEF HandlerEnds, EndHandler, TypeOK
  <2> QED
    BY <1>inv, <2>1, AskedKept
<1>2. ASSUME NEW c \in Conn, HandleAnalysis(c)
      PROVE  AskedIsDraining'
  <2>1. PICK k \in Job :
          /\ phase[k] = "free"
          /\ phase' = [phase EXCEPT ![k] = "asked"]
          /\ jobConn' = [jobConn EXCEPT ![k] = c]
    BY <1>2 DEF HandleAnalysis
  <2>2. handler[c] = "recv" /\ handler' = [handler EXCEPT ![c] = "requesting"]
    BY <1>2 DEF HandleAnalysis, Received
  <2>3. \A j \in Job : phase[j] = "asked" => j # k /\ jobConn[j] # c
    BY <1>inv, <2>1, <2>2 DEF AskedIsDraining
  <2>4. /\ \A j \in Job : j # k =>
             phase'[j] = phase[j] /\ jobConn'[j] = jobConn[j]
        /\ phase'[k] = "asked" /\ jobConn'[k] = c
        /\ handler'[c] = "requesting"
        /\ \A b \in Conn : b # c => handler'[b] = handler[b]
    BY <2>1, <2>2 DEF TypeOK
  <2> QED
    BY <1>inv, <2>3, <2>4 DEF AskedIsDraining
<1>3. ASSUME NEW c \in Conn, CountUpload(c) \/ RequestLost(c)
      PROVE  AskedIsDraining'
  <2>1. PICK k \in Job :
          /\ phase[k] = "asked" /\ jobConn[k] = c
          /\ phase'[k] # "asked"
          /\ \A j \in Job : j # k =>
               phase'[j] = phase[j] /\ jobConn'[j] = jobConn[j]
    <3>1. PICK k \in Job :
            /\ phase[k] = "asked" /\ jobConn[k] = c
            /\ \/ phase' = [phase EXCEPT ![k] = "requested"]
                  /\ jobConn' = jobConn
               \/ phase' = [phase EXCEPT ![k] = "free"]
                  /\ jobConn' = [jobConn EXCEPT ![k] = None]
      BY <1>3 DEF CountUpload, RequestLost, Forget
    <3>2. DOMAIN phase = Job /\ DOMAIN jobConn = Job
      BY DEF TypeOK
    <3> QED
      BY <3>1, <3>2
  <2>2. \A b \in Conn : b # c => handler'[b] = handler[b]
    BY <1>3 DEF CountUpload, RequestLost, EndHandler, TypeOK
  <2>3. \A j \in Job : phase'[j] = "asked" => jobConn[j] # c
    BY <1>inv, <2>1 DEF AskedIsDraining
  <2>4. \A j \in Job : phase'[j] = "asked" =>
          phase[j] = "asked" /\ jobConn'[j] = jobConn[j]
    BY <2>1
  <2> QED
    BY <1>inv, <2>2, <2>3, <2>4, AskedKept
<1>4. ASSUME NEW c \in Conn, HandleUploadAck(c)
      PROVE  AskedIsDraining'
  <2>1. PICK k \in Job :
          \/ phase' = [phase EXCEPT ![k] = "stt"] /\ jobConn' = jobConn
          \/ Forget(k)
    BY <1>4 DEF HandleUploadAck
  <2>2. \A j \in Job : phase'[j] = "asked" =>
          phase[j] = "asked" /\ jobConn'[j] = jobConn[j]
    BY <2>1 DEF Forget, TypeOK
  <2>3. /\ handler[c] = "recv"
        /\ \A b \in Conn : b # c => handler'[b] = handler[b]
    BY <1>4 DEF HandleUploadAck, Received, TypeOK
  <2> QED
    BY <1>inv, <2>2, <2>3, AskedKept
<1>5. ASSUME NEW c \in Conn, DispatchInHandler(c)
      PROVE  AskedIsDraining'
  <2>1. /\ handler[c] = "dispatch" /\ UNCHANGED <<phase, jobConn>>
        /\ \A b \in Conn : b # c => handler'[b] = handler[b]
    BY <1>5 DEF DispatchInHandler, EndHandler, TypeOK
  <2> QED
    BY <1>inv, <2>1, AskedKept
<1>6. ASSUME NEW k \in Job, FinishStt(k) \/ DispatchInTask(k)
      PROVE  AskedIsDraining'
  <2>1. /\ UNCHANGED handler
        /\ \A j \in Job : phase'[j] = "asked" =>
             phase[j] = "asked" /\ jobConn'[j] = jobConn[j]
    BY <1>6 DEF FinishStt, DispatchInTask, Forget, TypeOK
  <2> QED
    BY <1>inv, <2>1, AskedStill
<1>7. ASSUME NEW a \in Agent, Connect(a)
      PROVE  AskedIsDraining'
  <2> DEFINE n == made[a] + 1
             c == <<a, n>>
  <2>1. /\ c \in Conn /\ UNCHANGED <<phase, jobConn>>
        /\ handler' = [handler EXCEPT ![c] = "recv"]
        /\ n \in 1..MaxConn /\ n > made[a]
    BY <1>7, RecFlowAssumption DEF Connect, TypeOK, Conn
  <2> HIDE DEF n
  <2>2. handler[c] = "none"
    BY <1>inv, <2>1 DEF ConnectionsInOrder
  <2> HIDE DEF c
  <2>3. \A b \in Conn : b # c => handler'[b] = handler[b]
    BY <2>1 DEF TypeOK
  <2> QED
    BY <1>inv, <2>1, <2>2, <2>3, AskedKept
<1>8. CASE UNCHANGED <<handler, phase, jobConn>>
  BY <1>inv, <1>8, AskedStill
<1>9. ASSUME NEW a \in Agent,
             \/ SendCommand(a) \/ ReceiveLoopEnds(a) \/ HeartbeatFails(a)
             \/ FinishUpload(a) \/ Poll(a)
      PROVE  UNCHANGED <<handler, phase, jobConn>>
  BY <1>9 DEF SendCommand, ReceiveLoopEnds, HeartbeatFails, FinishUpload, Poll
<1>10. ASSUME NEW a \in Agent, Read(a)
       PROVE  UNCHANGED <<handler, phase, jobConn>>
  BY <1>10 DEF Read, HandleStart, HandleStop, HandleNext, HandleUploadReq,
               HandleSttResult, ReadPacket
<1>11. ASSUME NEW a \in Agent, Consume(a)
       PROVE  UNCHANGED <<handler, phase, jobConn>>
  BY <1>11 DEF Consume, TakeRecording, ResumeOnNext, ResumeOnTimeout,
               ResumeAfterWait, CheckRecording
<1>12. CASE SetMaxConcurrent \/ DispatchInGui \/ UNCHANGED vars
  BY <1>8, <1>12 DEF SetMaxConcurrent, DispatchInGui, vars
<1> QED
  BY <1>1, <1>2, <1>3, <1>4, <1>5, <1>6, <1>7, <1>8, <1>9, <1>10, <1>11,
     <1>12
  DEF Next, Handle

\* What an agent without a connection may hold: nothing.
NoLinkNoPackets ==
  \A a \in Agent : link[a] = NoConn => toAgent[a] = <<>> /\ uploading[a] = None

\* Writing to an agent keeps it.
LEMMA SendKeeps ==
  ASSUME TypeOK, ConnectionsInOrder, NEW b \in Agent, NEW n, n # NoConn,
         NEW msg, Send(b, n, msg), UNCHANGED <<link, uploading>>
  PROVE  NoLinkNoPackets'
BY DEF ConnectionsInOrder, NoLinkNoPackets, Send, TypeOK

(* So does an iteration of the dispatch loop.                              *)
LEMMA DispatchKeeps ==
  ASSUME TypeOK, ConnectionsInOrder,
         SendNext \/ SendRaises \/ UNCHANGED toAgent,
         UNCHANGED <<link, uploading>>
  PROVE  NoLinkNoPackets'
<1>1. CASE UNCHANGED toAgent
  BY <1>1 DEF ConnectionsInOrder, NoLinkNoPackets
<1>2. CASE SendNext /\ ~UNCHANGED toAgent
  <2>1. Head(waiting) \in Agent
    BY <1>2, HeadTailProperties DEF SendNext, SlotFree, TypeOK
  <2>2. /\ Send(Head(waiting), session[Head(waiting)], NextOne)
        /\ session[Head(waiting)] # NoConn
    BY <1>2 DEF SendNext
  <2> QED
    BY <2>1, <2>2, SendKeeps
<1> QED
  BY <1>1, <1>2 DEF SendRaises

\* A handler that was started stays started.
NewHandlersOnly ==
  \A a \in Agent : \A n \in 1..MaxConn : n > made[a] => handler[<<a, n>>] = "none"

(* A step of a handler that was started leaves the unopened connections.   *)
LEMMA StartedStays ==
  ASSUME TypeOK, ConnectionsInOrder, NEW c \in Conn, handler[c] # "none",
         \A b \in Conn : b # c => handler'[b] = handler[b],
         UNCHANGED made
  PROVE  NewHandlersOnly'
<1> SUFFICES ASSUME NEW a \in Agent, NEW n \in 1..MaxConn, n > made[a]
             PROVE  handler'[<<a, n>>] = "none"
  BY DEF NewHandlersOnly
<1>1. <<a, n>> \in Conn /\ handler[<<a, n>>] = "none"
  BY DEF Conn, ConnectionsInOrder
<1> QED
  BY <1>1

(* Every step keeps what is said of links and unopened connections.        *)
LEMMA OrderStep ==
  TypeOK /\ OneToken /\ [Next]_vars => ConnectionsInOrder'
<1> SUFFICES ASSUME TypeOK, OneToken, [Next]_vars
             PROVE  NoLinkNoPackets' /\ NewHandlersOnly'
  BY DEF ConnectionsInOrder, NoLinkNoPackets, NewHandlersOnly
<1>inv. /\ ConnectionsInOrder
        /\ UNCHANGED <<link, uploading, toAgent>> => NoLinkNoPackets'
        /\ UNCHANGED <<handler, made>> => NewHandlersOnly'
  BY DEF OneToken, ConnectionsInOrder, NoLinkNoPackets, NewHandlersOnly
<1> USE DEF serverVars, agentVars, watcherVars
<1>1. ASSUME NEW c \in Conn,
             HandlerEnds(c) \/ Handle(c)
      PROVE  NewHandlersOnly'
  <2>1. handler[c] # "none" /\ UNCHANGED made
    BY <1>1 DEF HandlerEnds, Handle, HandleAnalysis, CountUpload, RequestLost,
                HandleUploadAck, DispatchInHandler, Received
  <2>2. \E v : handler' = [handler EXCEPT ![c] = v] \/ handler' = handler
    BY <1>1 DEF HandlerEnds, Handle, HandleAnalysis, CountUpload, RequestLost,
                HandleUploadAck, DispatchInHandler, EndHandler
  <2>3. \A b \in Conn : b # c => handler'[b] = handler[b]
    BY <2>2 DEF TypeOK
  <2> QED
    BY <1>inv, <2>1, <2>3, StartedStays
<1>2. ASSUME NEW c \in Conn,
             HandlerEnds(c) \/ Handle(c)
      PROVE  NoLinkNoPackets'
  <2>1. UNCHANGED <<link, uploading>>
    BY <1>2 DEF HandlerEnds, Handle, HandleAnalysis, CountUpload, RequestLost,
                HandleUploadAck, DispatchInHandler
  <2>2. CASE HandleAnalysis(c)
    <3>1. PICK j \in Job : Send(c[1], c[2], UploadReq(j))
      BY <2>2 DEF HandleAnalysis
    <3>2. c[1] \in Agent /\ c[2] # NoConn
      BY ConnParts, RecFlowAssumption DEF NoConn
    <3> QED
      BY <1>inv, <2>1, <3>1, <3>2, SendKeeps
  <2>3. CASE DispatchInHandler(c)
    BY <1>inv, <2>1, <2>3, DispatchKeeps DEF DispatchInHandler
  <2>4. CASE UNCHANGED toAgent
    BY <1>inv, <2>1, <2>4
  <2> QED
    BY <1>2, <2>2, <2>3, <2>4
    DEF HandlerEnds, Handle, CountUpload, RequestLost, HandleUploadAck
<1>3. ASSUME NEW j \in Job, FinishStt(j)
      PROVE  NoLinkNoPackets' /\ NewHandlersOnly'
  <2>1. UNCHANGED <<link, uploading, handler, made>>
    BY <1>3 DEF FinishStt
  <2>2. jobConn[j][1] \in Agent /\ jobConn[j][2] # NoConn
    BY <1>3, ConnParts, RecFlowAssumption DEF FinishStt, TypeOK, NoConn
  <2>3. CASE UNCHANGED toAgent
    BY <1>inv, <2>1, <2>3
  <2>4. CASE Send(jobConn[j][1], jobConn[j][2], SttResult(jobFile[j]))
    BY <1>inv, <2>1, <2>2, <2>4, SendKeeps
  <2> QED
    BY <1>3, <2>3, <2>4 DEF FinishStt
<1>4. ASSUME NEW j \in Job, DispatchInTask(j)
      PROVE  NoLinkNoPackets' /\ NewHandlersOnly'
  BY <1>inv, <1>4, DispatchKeeps DEF DispatchInTask
<1>5. CASE DispatchInGui
  BY <1>inv, <1>5, DispatchKeeps DEF DispatchInGui
<1>6. CASE SetMaxConcurrent
  BY <1>inv, <1>6 DEF SetMaxConcurrent
<1>7. ASSUME NEW a \in Agent, SendCommand(a)
      PROVE  NoLinkNoPackets' /\ NewHandlersOnly'
  <2>1. PICK cmd : Send(a, session[a], [type |-> cmd])
    BY <1>7 DEF SendCommand
  <2> QED
    BY <1>inv, <1>7, <2>1, SendKeeps DEF SendCommand
<1>8. ASSUME NEW a \in Agent, Connect(a)
      PROVE  NoLinkNoPackets' /\ NewHandlersOnly'
  <2> DEFINE n == made[a] + 1
  <2>1. /\ UNCHANGED <<toAgent, uploading>>
        /\ link' = [link EXCEPT ![a] = n]
        /\ made' = [made EXCEPT ![a] = n]
        /\ handler' = [handler EXCEPT ![<<a, n>>] = "recv"]
        /\ n \in 1..MaxConn /\ made[a] \in Nat /\ n > made[a]
    BY <1>8, RecFlowAssumption DEF Connect, TypeOK
  <2> HIDE DEF n
  <2>2. n # NoConn
    BY <2>1 DEF NoConn
  <2>3. NoLinkNoPackets'
    BY <1>inv, <2>1, <2>2 DEF NoLinkNoPackets, ConnectionsInOrder, TypeOK
  <2>4. ASSUME NEW b \in Agent, NEW m \in 1..MaxConn, m > made'[b]
        PROVE  handler'[<<b, m>>] = "none"
    <3>1. <<b, m>> # <<a, n>> /\ m > made[b]
      BY <2>1, <2>4 DEF TypeOK
    <3>2. handler[<<b, m>>] = "none" /\ <<b, m>> \in Conn
      BY <1>inv, <3>1 DEF ConnectionsInOrder, Conn
    <3> QED
      BY <2>1, <3>1, <3>2 DEF TypeOK
  <2> QED
    BY <2>3, <2>4 DEF NewHandlersOnly
<1>9. ASSUME NEW a \in Agent, ReceiveLoopEnds(a) \/ HeartbeatFails(a)
      PROVE  NoLinkNoPackets' /\ NewHandlersOnly'
  <2>1. /\ UNCHANGED <<handler, made>>
        /\ link' = [link EXCEPT ![a] = NoConn]
        /\ toAgent' = [toAgent EXCEPT ![a] = <<>>]
        /\ \/ uploading[a] = None /\ uploading' = uploading
           \/ uploading' = [uploading EXCEPT ![a] = None]
    BY <1>9 DEF ReceiveLoopEnds, HeartbeatFails
  <2>2. DOMAIN uploading = Agent /\ DOMAIN link = Agent /\ DOMAIN toAgent = Agent
    BY DEF TypeOK
  <2>3. NoLinkNoPackets'
    BY <1>inv, <2>1, <2>2 DEF NoLinkNoPackets, ConnectionsInOrder
  <2> QED
    BY <1>inv, <2>1, <2>3
<1>10. ASSUME NEW a \in Agent, Read(a) \/ FinishUpload(a)
       PROVE  NoLinkNoPackets' /\ NewHandlersOnly'
  <2>1. /\ UNCHANGED <<handler, made, link>>
        /\ \A b \in Agent : b # a =>
             toAgent'[b] = toAgent[b] /\ uploading'[b] = uploading[b]
    BY <1>10 DEF Read, HandleStart, HandleStop, HandleNext, HandleUploadReq,
                 HandleSttResult, ReadPacket, FinishUpload, TypeOK
  <2>2. link[a] # NoConn
    BY <1>inv, <1>10
    DEF Read, HandleStart, HandleStop, HandleNext, HandleUploadReq,
        HandleSttResult, ReadPacket, FinishUpload, ConnectionsInOrder
  <2> QED
    BY <1>inv, <2>1, <2>2 DEF NoLinkNoPackets, ConnectionsInOrder
<1>11. ASSUME NEW a \in Agent, Poll(a) \/ Consume(a)
       PROVE  UNCHANGED <<handler, made, link, uploading, toAgent>>
  BY <1>11 DEF Poll, Consume, TakeRecording, ResumeOnNext, ResumeOnTimeout,
               ResumeAfterWait, CheckRecording
<1>12. CASE UNCHANGED vars
  BY <1>inv, <1>12 DEF vars
<1> QED
  BY <1>inv, <1>1, <1>2, <1>3, <1>4, <1>5, <1>6, <1>7, <1>8, <1>9, <1>10,
     <1>11, <1>12
  DEF Next

-----------------------------------------------------------------------------
(***************************************************************************)
(* Slots.                                                                  *)
(***************************************************************************)
(* The uploads that hold a slot can be counted.                            *)
LEMMA HeldFinite == IsFiniteSet(Held) /\ Cardinality(Held) \in Nat
<1>1. Held \in SUBSET Job
  BY DEF Held
<1>2. IsFiniteSet(Held)
  BY <1>1, RecFlowAssumption, FS_Subset
<1> QED
  BY <1>2, FS_CardinalityType

\* With the counter exact, a slot that is held can be given back.
LEMMA FreedIsLess ==
  ASSUME SlotAccounting, NEW j \in Held
  PROVE  Freed = inFlight - 1
<1>1. Cardinality(Held) # 0
  BY HeldFinite, FS_EmptySet
<1> QED
  BY <1>1, HeldFinite DEF SlotAccounting, Freed

\* A step that moves no upload into or out of Held leaves the pool alone.
LEMMA SameHeld ==
  ASSUME UNCHANGED inFlight,
         \A j \in Job : phase'[j] \in {"requested", "stt"} <=>
                          phase[j] \in {"requested", "stt"}
  PROVE  UNCHANGED Pool!vars
BY DEF Held, Pool!vars

(* Every step takes one slot, gives one back or leaves the pool alone.     *)
LEMMA PoolStep ==
  TypeOK /\ OneToken /\ SlotAccounting /\ [Next]_vars =>
    [Pool!Next]_(Pool!vars)
<1> SUFFICES ASSUME TypeOK, OneToken, SlotAccounting, [Next]_vars
             PROVE  Pool!Next \/ UNCHANGED Pool!vars
  OBVIOUS
<1> USE DEF serverVars, agentVars, watcherVars
<1>dom. DOMAIN phase = Job
  BY DEF TypeOK
<1>1. ASSUME NEW c \in Conn, HandleAnalysis(c)
      PROVE  UNCHANGED Pool!vars
  <2>1. PICK j \in Job : /\ phase[j] = "free"
                         /\ phase' = [phase EXCEPT ![j] = "asked"]
    BY <1>1 DEF HandleAnalysis
  <2>2. UNCHANGED inFlight
    BY <1>1 DEF HandleAnalysis
  <2> QED
    BY <1>dom, <2>1, <2>2, SameHeld
<1>2. ASSUME NEW c \in Conn, CountUpload(c)
      PROVE  Pool!Next
  <2>1. PICK j \in Job : /\ phase[j] = "asked"
                         /\ phase' = [phase EXCEPT ![j] = "requested"]
    BY <1>2 DEF CountUpload
  <2>2. j \notin Held /\ Held' = Held \union {j}
    BY <1>dom, <2>1 DEF Held
  <2>3. inFlight' = inFlight + 1
    BY <1>2 DEF CountUpload, Taken
  <2> QED
    BY <2>2, <2>3 DEF Pool!Next, Pool!Take
<1>3. ASSUME NEW c \in Conn, RequestLost(c)
      PROVE  UNCHANGED Pool!vars
  <2>1. PICK j \in Job : phase[j] = "asked" /\ phase' = [phase EXCEPT ![j] = "free"]
    BY <1>3 DEF RequestLost, Forget
  <2>2. UNCHANGED inFlight
    BY <1>3 DEF RequestLost
  <2> QED
    BY <1>dom, <2>1, <2>2, SameHeld
<1>4. ASSUME NEW c \in Conn, HandleUploadAck(c)
      PROVE  Pool!Next \/ UNCHANGED Pool!vars
  <2>1. PICK j \in Job :
          \/ /\ Head(toServer[c]) = UploadAck(j, TRUE)
             /\ phase' = [phase EXCEPT ![j] = "stt"]
             /\ UNCHANGED inFlight
          \/ /\ Head(toServer[c]) = UploadAck(j, FALSE)
             /\ phase' = [phase EXCEPT ![j] = "free"]
             /\ inFlight' = Freed
    BY <1>4 DEF HandleUploadAck, Forget
  <2>2. TokenOf(j)
    BY RecFlowAssumption, TokensByJob DEF OneToken
  <2>3. Open(j) /\ jobConn[j] = c /\ handler[c] = "recv"
    BY <1>4, <2>1, <2>2, AckAtHead DEF HandleUploadAck, Received
  <2>4. phase[j] = "requested"
    BY <2>3 DEF Open, OneToken, AskedIsDraining
  <2>5. CASE phase' = [phase EXCEPT ![j] = "stt"] /\ UNCHANGED inFlight
    BY <1>dom, <2>4, <2>5, SameHeld
  <2>6. CASE phase' = [phase EXCEPT ![j] = "free"] /\ inFlight' = Freed
    <3>1. j \in Held /\ Held' = Held \ {j}
      BY <1>dom, <2>4, <2>6 DEF Held
    <3>2. inFlight' = inFlight - 1
      BY <2>6, <3>1, FreedIsLess
    <3> QED
      BY <3>1, <3>2 DEF Pool!Next, Pool!Give
  <2> QED
    BY <2>1, <2>5, <2>6
<1>5. ASSUME NEW j \in Job, FinishStt(j)
      PROVE  Pool!Next
  <2>1. /\ phase[j] = "stt" /\ phase' = [phase EXCEPT ![j] = "final"]
        /\ inFlight' = Freed
    BY <1>5 DEF FinishStt
  <2>2. j \in Held /\ Held' = Held \ {j}
    BY <1>dom, <2>1 DEF Held
  <2>3. inFlight' = inFlight - 1
    BY <2>1, <2>2, FreedIsLess
  <2> QED
    BY <2>2, <2>3 DEF Pool!Next, Pool!Give
<1>6. ASSUME NEW j \in Job, DispatchInTask(j)
      PROVE  UNCHANGED Pool!vars
  <2>1. /\ phase[j] = "final"
        /\ phase' = phase \/ phase' = [phase EXCEPT ![j] = "free"]
        /\ UNCHANGED inFlight
    BY <1>6 DEF DispatchInTask, Forget
  <2> QED
    BY <1>dom, <2>1, SameHeld
<1>7. ASSUME UNCHANGED <<inFlight, phase>>
      PROVE  UNCHANGED Pool!vars
  BY <1>7, SameHeld
<1>8. ASSUME NEW c \in Conn, HandlerEnds(c) \/ DispatchInHandler(c)
      PROVE  UNCHANGED <<inFlight, phase>>
  BY <1>8 DEF HandlerEnds, DispatchInHandler
<1>9. CASE SetMaxConcurrent \/ DispatchInGui \/ UNCHANGED vars
  BY <1>7, <1>9 DEF SetMaxConcurrent, DispatchInGui, vars
<1>10. ASSUME NEW a \in Agent,
              \/ SendCommand(a) \/ Connect(a) \/ ReceiveLoopEnds(a)
              \/ HeartbeatFails(a) \/ FinishUpload(a) \/ Poll(a)
       PROVE  UNCHANGED <<inFlight, phase>>
  BY <1>10 DEF SendCommand, Connect, ReceiveLoopEnds, HeartbeatFails,
               FinishUpload, Poll
<1>11. ASSUME NEW a \in Agent, Read(a)
       PROVE  UNCHANGED <<inFlight, phase>>
  BY <1>11 DEF Read, HandleStart, HandleStop, HandleNext, HandleUploadReq,
               HandleSttResult, ReadPacket
<1>12. ASSUME NEW a \in Agent, Consume(a)
       PROVE  UNCHANGED <<inFlight, phase>>
  BY <1>12 DEF Consume, TakeRecording, ResumeOnNext, ResumeOnTimeout,
               ResumeAfterWait, CheckRecording
<1> QED
  BY <1>1, <1>2, <1>3, <1>4, <1>5, <1>6, <1>7, <1>8, <1>9, <1>10, <1>11,
     <1>12
  DEF Next, Handle

\* A step of the pool keeps its counter exact.
LEMMA SlotStep ==
  SlotAccounting /\ [Pool!Next]_(Pool!vars) => SlotAccounting'
<1> SUFFICES ASSUME SlotAccounting, Pool!Next \/ UNCHANGED Pool!vars
             PROVE  SlotAccounting'
  OBVIOUS
<1>1. CASE UNCHANGED Pool!vars
  BY <1>1 DEF Pool!vars, SlotAccounting
<1>2. ASSUME NEW j \in Job, Pool!Take(j)
      PROVE  SlotAccounting'
  BY <1>2, HeldFinite, FS_AddElement DEF Pool!Take, SlotAccounting
<1>3. ASSUME NEW j \in Job, Pool!Give(j)
      PROVE  SlotAccounting'
  BY <1>3, HeldFinite, FS_RemoveElement DEF Pool!Give, SlotAccounting
<1> QED
  BY <1>1, <1>2, <1>3 DEF Pool!Next

-----------------------------------------------------------------------------
(***************************************************************************)
(* The theorems.                                                           *)
(***************************************************************************)
(* What is proved holds to begin with.                                     *)
LEMMA InitOk == Init => TypeOK /\ OneToken /\ SlotAccounting /\ Pool!Init
<1> SUFFICES ASSUME Init
             PROVE  TypeOK /\ OneToken /\ SlotAccounting /\ Pool!Init
  OBVIOUS
<1>1. TypeOK
  BY TypeInit
<1>2. OneToken
  <2>1. TokensAreOpen /\ TokensAreUnique
    BY RecFlowAssumption DEF Init, TokensAreOpen, TokensAreUnique, IsReq, IsAck
  <2>2. AskedIsDraining
    BY DEF Init, AskedIsDraining
  <2>3. ConnectionsInOrder
    BY DEF Init, ConnectionsInOrder, Conn
  <2> QED
    BY <2>1, <2>2, <2>3 DEF OneToken
<1>3. Held = {} /\ inFlight = 0
  BY DEF Init, Held
<1>4. SlotAccounting /\ Pool!Init
  BY <1>3, FS_EmptySet DEF SlotAccounting, Pool!Init
<1> QED
  BY <1>1, <1>2, <1>4

(* What is proved is inductive: types, tokens and slots together.          *)
LEMMA Inductive ==
  TypeOK /\ OneToken /\ SlotAccounting /\ [Next]_vars =>
    TypeOK' /\ OneToken' /\ SlotAccounting'
BY TypeStep, TokensStep, AskedStep, OrderStep, PoolStep, SlotStep DEF OneToken

(* The variables have the values their comments say: an upload under way   *)
(* always has a connection and a recording, the maximum stays between 1    *)
(* and 10, a watcher that waits or checks has a recording in hand.         *)
THEOREM TypeCorrect == Spec => []TypeOK
<1> QED
  BY InitOk, Inductive, PTL DEF Spec

(* Every upload is moved on by one token, on the connection it was asked   *)
(* for: no second acknowledgement of it can reach the server.              *)
THEOREM TokensCorrect == Spec => []OneToken
<1> QED
  BY InitOk, Inductive, PTL DEF Spec

(* _rec_in_flight is exactly the number of uploads that hold a slot.       *)
THEOREM SlotsCorrect == Spec => []SlotAccounting
<1> QED
  BY InitOk, Inductive, PTL DEF Spec

(* The pipeline implements the pool of slots.                              *)
THEOREM PoolImplemented == Spec => ImplementsSlotPool
<1> QED
  BY InitOk, Inductive, PoolStep, PTL DEF Spec, ImplementsSlotPool, Pool!Spec

-----------------------------------------------------------------------------
(* No agent is forgotten in _rec_waiting_agents while the connections are  *)
(* up, and no watcher reports a recording twice.  The first rests on the   *)
(* counter being exact: a dispatch loop that stops with agents waiting     *)
(* stops because the maximum is reached, so some upload holds a slot and   *)
(* will start a loop when it ends.                                         *)


(* A session and a link are connections that were opened.                  *)
OpenedBefore ==
  \A a \in Agent : session[a] <= made[a] /\ link[a] <= made[a]

(* Only connecting makes a session or a link; any other step keeps them or *)
(* takes them away.                                                        *)
LEMMA SessionSteps ==
  ASSUME TypeOK, [Next]_vars
  PROVE  \/ \E a \in Agent : Connect(a)
         \/ /\ UNCHANGED made
            /\ \A a \in Agent : /\ link'[a] \in {link[a], NoConn}
                                /\ session'[a] \in {session[a], NoConn}
<1> DEFINE Kept == /\ UNCHANGED made
                   /\ \A a \in Agent : /\ link'[a] \in {link[a], NoConn}
                                       /\ session'[a] \in {session[a], NoConn}
<1> SUFFICES ASSUME ~ \E a \in Agent : Connect(a)
             PROVE  Kept
  OBVIOUS
<1> USE DEF serverVars, agentVars, watcherVars
<1>1. ASSUME UNCHANGED <<made, link>>,
             \/ UNCHANGED session
             \/ \E a : session' = [session EXCEPT ![a] = NoConn]
      PROVE  Kept
  BY <1>1 DEF TypeOK
<1>2. ASSUME NEW c \in Conn, HandlerEnds(c) \/ Handle(c)
      PROVE  Kept
  <2>1. UNCHANGED <<made, link>>
    BY <1>2 DEF HandlerEnds, Handle, HandleAnalysis, CountUpload, RequestLost,
                HandleUploadAck, DispatchInHandler
  <2>2. \/ UNCHANGED session
        \/ \E a : session' = [session EXCEPT ![a] = NoConn]
    BY <1>2 DEF HandlerEnds, Handle, HandleAnalysis, CountUpload, RequestLost,
                HandleUploadAck, DispatchInHandler, EndHandler
  <2> QED
    BY <1>1, <2>1, <2>2
<1>3. ASSUME NEW j \in Job, FinishStt(j) \/ DispatchInTask(j)
      PROVE  Kept
  BY <1>1, <1>3 DEF FinishStt, DispatchInTask
<1>4. CASE SetMaxConcurrent \/ DispatchInGui \/ UNCHANGED vars
  BY <1>1, <1>4 DEF SetMaxConcurrent, DispatchInGui, vars
<1>5. ASSUME NEW a \in Agent, ReceiveLoopEnds(a) \/ HeartbeatFails(a)
      PROVE  Kept
  BY <1>5 DEF ReceiveLoopEnds, HeartbeatFails, TypeOK
<1>6. ASSUME NEW a \in Agent,
             \/ SendCommand(a) \/ Read(a) \/ FinishUpload(a) \/ Poll(a)
      PROVE  Kept
  <2>1. UNCHANGED <<made, link, session>>
    BY <1>6 DEF SendCommand, Read, HandleStart, HandleStop, HandleNext,
                HandleUploadReq, HandleSttResult, ReadPacket, FinishUpload, Poll
  <2> QED
    BY <1>1, <2>1
<1>7. ASSUME NEW a \in Agent, Consume(a)
      PROVE  Kept
  <2>1. UNCHANGED <<made, link, session>>
    BY <1>7 DEF Consume, TakeRecording, ResumeOnNext, ResumeOnTimeout,
                ResumeAfterWait, CheckRecording
  <2> QED
    BY <1>1, <2>1
<1> QED
  BY <1>2, <1>3, <1>4, <1>5, <1>6, <1>7 DEF Next

(* A step keeps it: connections are numbered as they are opened.           *)
LEMMA OpenedStep ==
  TypeOK /\ OpenedBefore /\ [Next]_vars => OpenedBefore'
<1> SUFFICES ASSUME TypeOK, OpenedBefore, [Next]_vars
             PROVE  OpenedBefore'
  OBVIOUS
<1>1. ASSUME NEW a \in Agent, Connect(a)
      PROVE  OpenedBefore'
  <2>1. \A b \in Agent : b # a =>
          made'[b] = made[b] /\ link'[b] = link[b] /\ session'[b] = session[b]
    BY <1>1 DEF Connect, TypeOK
  <2>2. made'[a] = made[a] + 1 /\ link'[a] = made'[a] /\ session'[a] = made'[a]
    BY <1>1 DEF Connect, TypeOK
  <2>3. made[a] + 1 <= made[a] + 1
    BY RecFlowAssumption DEF TypeOK
  <2> QED
    BY <2>1, <2>2, <2>3 DEF OpenedBefore
<1>2. CASE /\ UNCHANGED made
           /\ \A a \in Agent : /\ link'[a] \in {link[a], NoConn}
                               /\ session'[a] \in {session[a], NoConn}
  <2>1. \A a \in Agent : made[a] \in Nat
    BY RecFlowAssumption DEF TypeOK
  <2> QED
    BY <1>2, <2>1 DEF OpenedBefore, NoConn
<1> QED
  BY <1>1, <1>2, SessionSteps

(* Once a connection has been lost, the pipeline never counts as           *)
(* undisturbed again.                                                      *)
LEMMA CalmBefore ==
  ASSUME TypeOK, OpenedBefore, [Next]_vars, Undisturbed'
  PROVE  Undisturbed
<1> SUFFICES ASSUME NEW a \in Agent
             PROVE  made[a] <= 1 /\ link[a] = made[a] /\ session[a] = made[a]
  BY DEF Undisturbed
<1>1. made'[a] <= 1 /\ link'[a] = made'[a] /\ session'[a] = made'[a]
  BY DEF Undisturbed
<1>2. /\ made[a] \in Nat /\ link[a] \in Nat /\ session[a] \in Nat
      /\ session[a] <= made[a] /\ link[a] <= made[a]
  BY RecFlowAssumption DEF TypeOK, OpenedBefore
<1>3. ASSUME NEW b \in Agent, Connect(b)
      PROVE  made[a] <= 1 /\ link[a] = made[a] /\ session[a] = made[a]
  <2>1. CASE a = b
    <3>1. made'[a] = made[a] + 1
      BY <1>3, <2>1 DEF Connect, TypeOK
    <3> QED
      BY <1>1, <1>2, <3>1
  <2>2. CASE a # b
    <3>1. made'[a] = made[a] /\ link'[a] = link[a] /\ session'[a] = session[a]
      BY <1>3, <2>2 DEF Connect, TypeOK
    <3> QED
      BY <1>1, <3>1
  <2> QED
    BY <2>1, <2>2
<1>4. CASE /\ UNCHANGED made
           /\ \A b \in Agent : /\ link'[b] \in {link[b], NoConn}
                               /\ session'[b] \in {session[b], NoConn}
  BY <1>1, <1>2, <1>4 DEF NoConn
<1> QED
  BY <1>3, <1>4, SessionSteps

(* A dispatch loop that stops with agents waiting has met the maximum.     *)
LEMMA MaximumIsHeld ==
  ASSUME TypeOK, SlotAccounting, waiting # <<>>, ~SlotFree
  PROVE  \E j \in Job : phase[j] \in {"requested", "stt"}
<1>1. inFlight >= maxConc /\ maxConc \in 1..10 /\ inFlight \in Nat
  BY DEF TypeOK, SlotFree
<1>2. Cardinality(Held) # 0
  <2>1. inFlight # 0
    BY <1>1
  <2> QED
    BY <2>1 DEF SlotAccounting
<1>3. Held # {}
  <2>1. Held = {} => Cardinality(Held) = 0
    BY FS_EmptySet
  <2> QED
    BY <1>2, <2>1
<1> QED
  BY <1>3 DEF Held

(* While the connections are up no NEXT meets a lost connection.           *)
LEMMA NothingRaises ==
  ASSUME TypeOK, Undisturbed
  PROVE  ~SendRaises
<1> SUFFICES ASSUME SendRaises
             PROVE  FALSE
  OBVIOUS
<1>1. Head(waiting) \in Agent
  BY HeadTailProperties DEF SendRaises, SlotFree, TypeOK
<1> QED
  BY <1>1 DEF SendRaises, Undisturbed

(* A handler that ends takes its session with it, or leaves the waiting    *)
(* list alone.                                                             *)
LEMMA EndingDisturbs ==
  ASSUME TypeOK, ConnectionsInOrder, NEW c \in Conn, handler[c] # "none",
         EndHandler(c, waiting), UNCHANGED made, Undisturbed'
  PROVE  UNCHANGED waiting
<1> SUFFICES ASSUME session[c[1]] = c[2]
             PROVE  FALSE
  BY DEF EndHandler
<1>1. c = <<c[1], c[2]>> /\ c[1] \in Agent /\ c[2] \in 1..MaxConn
  BY ConnParts
<1>2. session'[c[1]] = NoConn
  BY <1>1 DEF EndHandler, TypeOK
<1>3. made[c[1]] = NoConn
  BY <1>1, <1>2 DEF Undisturbed
<1>4. c[2] > made[c[1]]
  BY <1>1, <1>3, RecFlowAssumption DEF NoConn
<1> QED
  BY <1>1, <1>4 DEF ConnectionsInOrder

(* A step that leaves the waiting list alone and stops no dispatch loop.   *)
LEMMA StillDue ==
  ASSUME NoForgottenWaiter, Undisturbed, UNCHANGED waiting,
         gui = "dispatch" => gui' = "dispatch",
         \A c \in Conn : handler[c] = "dispatch" => handler'[c] = "dispatch",
         \A j \in Job : phase[j] \in {"requested", "stt", "final"} =>
                          phase'[j] \in {"requested", "stt", "final"}
  PROVE  waiting' # <<>> => DispatchDue'
BY DEF NoForgottenWaiter, DispatchDue

(* Every step keeps NoForgottenWaiter, as long as nothing is disturbed.    *)
LEMMA WaiterStep ==
  TypeOK /\ OneToken /\ SlotAccounting /\ OpenedBefore /\ NoForgottenWaiter
    /\ [Next]_vars => NoForgottenWaiter'
<1> SUFFICES ASSUME TypeOK, OneToken, SlotAccounting, OpenedBefore,
                    NoForgottenWaiter, [Next]_vars, Undisturbed',
                    waiting' # <<>>
             PROVE  DispatchDue'
  BY DEF NoForgottenWaiter
<1>calm. Undisturbed
  BY CalmBefore
<1>ord. ConnectionsInOrder
  BY DEF OneToken
<1>dom. DOMAIN phase = Job /\ DOMAIN handler = Conn
  BY DEF TypeOK
<1> USE DEF serverVars, agentVars, watcherVars
<1>1. ASSUME NEW c \in Conn, HandlerEnds(c)
      PROVE  DispatchDue'
  <2>1. /\ handler[c] = "recv" /\ handler' = [handler EXCEPT ![c] = "ended"]
        /\ EndHandler(c, waiting) /\ UNCHANGED <<gui, phase, made>>
    BY <1>1 DEF HandlerEnds, EndHandler
  <2>2. UNCHANGED waiting
    BY <1>ord, <2>1, EndingDisturbs
  <2> QED
    BY <1>calm, <1>dom, <2>1, <2>2, StillDue
<1>2. ASSUME NEW c \in Conn, HandleAnalysis(c)
      PROVE  DispatchDue'
  <2>1. PICK j \in Job : /\ phase[j] = "free"
                         /\ phase' = [phase EXCEPT ![j] = "asked"]
    BY <1>2 DEF HandleAnalysis
  <2>2. /\ handler[c] = "recv"
        /\ handler' = [handler EXCEPT ![c] = "requesting"]
        /\ UNCHANGED <<gui, waiting>>
    BY <1>2 DEF HandleAnalysis, Received
  <2> QED
    BY <1>calm, <1>dom, <2>1, <2>2, StillDue
<1>3. ASSUME NEW c \in Conn, CountUpload(c)
      PROVE  DispatchDue'
  <2>1. PICK j \in Job : phase' = [phase EXCEPT ![j] = "requested"]
    BY <1>3 DEF CountUpload
  <2> QED
    BY <1>dom, <2>1 DEF DispatchDue
<1>4. ASSUME NEW c \in Conn, RequestLost(c)
      PROVE  DispatchDue'
  <2>1. /\ handler[c] = "requesting"
        /\ handler' = [handler EXCEPT ![c] = "ended"]
        /\ EndHandler(c, waiting) /\ UNCHANGED <<gui, made>>
    BY <1>4 DEF RequestLost, EndHandler
  <2>2. PICK j \in Job : phase[j] = "asked" /\ phase' = [phase EXCEPT ![j] = "free"]
    BY <1>4 DEF RequestLost, Forget
  <2>3. UNCHANGED waiting
    BY <1>ord, <2>1, EndingDisturbs
  <2> QED
    BY <1>calm, <1>dom, <2>1, <2>2, <2>3, StillDue
<1>5. ASSUME NEW c \in Conn, HandleUploadAck(c)
      PROVE  DispatchDue'
  BY <1>5, <1>dom DEF HandleUploadAck, DispatchDue
<1>6. ASSUME NEW j \in Job, FinishStt(j)
      PROVE  DispatchDue'
  BY <1>6, <1>dom DEF FinishStt, DispatchDue
<1>7. CASE SetMaxConcurrent
  BY <1>7 DEF SetMaxConcurrent, DispatchDue
<1>8. ASSUME NEW c \in Conn, DispatchInHandler(c)
      PROVE  DispatchDue'
  <2>1. CASE UNCHANGED handler
    BY <1>8, <2>1 DEF DispatchInHandler, DispatchDue
  <2>2. CASE ~SlotFree /\ UNCHANGED <<waiting, phase>>
    BY <2>2, MaximumIsHeld DEF DispatchDue
  <2> QED
    BY <1>calm, <1>8, <2>1, <2>2, NothingRaises DEF DispatchInHandler
<1>9. ASSUME NEW j \in Job, DispatchInTask(j)
      PROVE  DispatchDue'
  <2>1. CASE UNCHANGED phase
    BY <1>9, <2>1 DEF DispatchInTask, DispatchDue
  <2>2. CASE ~SlotFree /\ Forget(j) /\ UNCHANGED waiting
    <3>1. PICK k \in Job : phase[k] \in {"requested", "stt"}
      BY <2>2, MaximumIsHeld
    <3>2. phase[j] = "final" /\ phase' = [phase EXCEPT ![j] = "free"]
      BY <1>9, <2>2 DEF DispatchInTask, Forget
    <3>3. phase'[k] = phase[k]
      BY <1>dom, <3>1, <3>2
    <3> QED
      BY <3>1, <3>3 DEF DispatchDue
  <2> QED
    BY <1>calm, <1>9, <2>1, <2>2, NothingRaises DEF DispatchInTask
<1>10. CASE DispatchInGui
  <2>1. CASE UNCHANGED gui
    BY <1>10, <2>1 DEF DispatchInGui, DispatchDue
  <2>2. CASE ~SlotFree /\ UNCHANGED <<waiting, phase>>
    BY <2>2, MaximumIsHeld DEF DispatchDue
  <2> QED
    BY <1>calm, <1>10, <2>1, <2>2, NothingRaises DEF DispatchInGui
<1>11. ASSUME NEW a \in Agent, Connect(a)
       PROVE  DispatchDue'
  <2> DEFINE n == made[a] + 1
             c == <<a, n>>
  <2>1. /\ handler' = [handler EXCEPT ![c] = "recv"]
        /\ UNCHANGED <<waiting, gui, phase>>
    BY <1>11 DEF Connect
  <2>2. n \in 1..MaxConn /\ n > made[a]
    <3>1. made[a] \in 0..MaxConn /\ MaxConn \in Nat
      BY RecFlowAssumption DEF TypeOK
    <3>2. made[a] < MaxConn
      BY <1>11 DEF Connect
    <3> QED
      BY <3>1, <3>2
  <2> HIDE DEF n
  <2>3. handler[c] = "none" /\ c \in Conn
    BY <1>ord, <2>2 DEF ConnectionsInOrder, Conn
  <2> HIDE DEF c
  <2> QED
    BY <1>calm, <1>dom, <2>1, <2>3, StillDue
<1>12. ASSUME UNCHANGED <<waiting, gui, handler, phase>>
       PROVE  DispatchDue'
  BY <1>calm, <1>12, StillDue
<1>13. ASSUME NEW a \in Agent,
              \/ SendCommand(a) \/ ReceiveLoopEnds(a) \/ HeartbeatFails(a)
              \/ FinishUpload(a) \/ Poll(a)
       PROVE  UNCHANGED <<waiting, gui, handler, phase>>
  BY <1>13 DEF SendCommand, ReceiveLoopEnds, HeartbeatFails, FinishUpload, Poll
<1>14. ASSUME NEW a \in Agent, Read(a)
       PROVE  UNCHANGED <<waiting, gui, handler, phase>>
  BY <1>14 DEF Read, HandleStart, HandleStop, HandleNext, HandleUploadReq,
               HandleSttResult, ReadPacket
<1>15. ASSUME NEW a \in Agent, Consume(a)
       PROVE  UNCHANGED <<waiting, gui, handler, phase>>
  BY <1>15 DEF Consume, TakeRecording, ResumeOnNext, ResumeOnTimeout,
               ResumeAfterWait, CheckRecording
<1>16. CASE UNCHANGED vars
  BY <1>12, <1>16 DEF vars
<1> QED
  BY <1>1, <1>2, <1>3, <1>4, <1>5, <1>6, <1>7, <1>8, <1>9, <1>10, <1>11,
     <1>12, <1>13, <1>14, <1>15, <1>16
  DEF Next, Handle

(* Nobody waits to begin with.                                             *)
LEMMA WaiterInit == Init => OpenedBefore /\ NoForgottenWaiter
BY RecFlowAssumption DEF Init, OpenedBefore, NoForgottenWaiter, NoConn

(* While the connections are up, an agent of _rec_waiting_agents has a     *)
(* dispatch loop running or an upload whose end starts one, for any number *)
(* of agents, recordings and uploads and any maximum.                      *)
THEOREM WaitersCorrect == Spec => []NoForgottenWaiter
<1> QED
  BY InitOk, Inductive, WaiterInit, OpenedStep, WaiterStep, PTL DEF Spec

-----------------------------------------------------------------------------
(***************************************************************************)
(* Reports.                                                                *)
(***************************************************************************)
(* The watcher's set of processed recordings and the one it has in hand    *)
(* stay apart.                                                             *)
LEMMA ReportedStep ==
  TypeOK /\ ReportedOnce /\ [Next]_vars => ReportedOnce'
<1> SUFFICES ASSUME TypeOK, ReportedOnce, [Next]_vars
             PROVE  ReportedOnce'
  OBVIOUS
<1> USE DEF serverVars, agentVars, watcherVars
<1>1. ASSUME UNCHANGED <<current, processed>>
      PROVE  ReportedOnce'
  BY <1>1 DEF ReportedOnce
<1>2. ASSUME NEW a \in Agent, StopWatcher(a) \/ CheckRecording(a)
      PROVE  ReportedOnce'
  <2>1. /\ current'[a] = None
        /\ \A b \in Agent : b # a =>
             current'[b] = current[b] /\ processed'[b] = processed[b]
    <3>1. /\ current' = [current EXCEPT ![a] = None]
          /\ \/ UNCHANGED processed
             \/ \E v : processed' = [processed EXCEPT ![a] = v]
      BY <1>2 DEF StopWatcher, CheckRecording
    <3>2. DOMAIN current = Agent /\ DOMAIN processed = Agent
      BY DEF TypeOK
    <3> QED
      BY <3>1, <3>2
  <2> QED
    BY <2>1 DEF ReportedOnce
<1>3. ASSUME NEW a \in Agent, TakeRecording(a)
      PROVE  ReportedOnce'
  BY <1>1, <1>3 DEF TakeRecording, Seen, ReportedOnce, TypeOK
<1>4. ASSUME NEW c \in Conn, HandlerEnds(c) \/ Handle(c)
      PROVE  UNCHANGED <<current, processed>>
  BY <1>4 DEF HandlerEnds, Handle, HandleAnalysis, CountUpload, RequestLost,
              HandleUploadAck, DispatchInHandler
<1>5. ASSUME NEW j \in Job, FinishStt(j) \/ DispatchInTask(j)
      PROVE  UNCHANGED <<current, processed>>
  BY <1>5 DEF FinishStt, DispatchInTask
<1>6. CASE SetMaxConcurrent \/ DispatchInGui \/ UNCHANGED vars
  BY <1>1, <1>6 DEF SetMaxConcurrent, DispatchInGui, vars
<1>7. ASSUME NEW a \in Agent,
             \/ SendCommand(a) \/ Connect(a) \/ ReceiveLoopEnds(a)
             \/ FinishUpload(a) \/ Poll(a)
      PROVE  UNCHANGED <<current, processed>>
  BY <1>7 DEF SendCommand, Connect, ReceiveLoopEnds, FinishUpload, Poll
<1>8. ASSUME NEW a \in Agent, HeartbeatFails(a)
      PROVE  StopWatcher(a)
  BY <1>8 DEF HeartbeatFails
<1>9. ASSUME NEW a \in Agent, Read(a)
      PROVE  StopWatcher(a) \/ UNCHANGED <<current, processed>>
  BY <1>9 DEF Read, HandleStart, HandleStop, HandleNext, HandleUploadReq,
              HandleSttResult
<1>10. ASSUME NEW a \in Agent, Consume(a)
       PROVE  ReportedOnce'
  BY <1>1, <1>2, <1>3, <1>10
  DEF Consume, ResumeOnNext, ResumeOnTimeout, ResumeAfterWait
<1> QED
  BY <1>1, <1>2, <1>3, <1>4, <1>5, <1>6, <1>7, <1>8, <1>9, <1>10 DEF Next

(* A watcher never takes up again a recording it has reported or filtered. *)
THEOREM ReportsCorrect == Spec => []ReportedOnce
<1>1. Init => ReportedOnce
  BY DEF Init, ReportedOnce
<1> QED
  BY <1>1, InitOk, Inductive, ReportedStep, PTL DEF Spec
=============================================================================
