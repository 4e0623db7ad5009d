--------------------------- MODULE Sessions_proofs ---------------------------
(***************************************************************************)
(* Theorems about the agents the server knows and what its windows do, for *)
(* any constants.  The session table, for any number of agents and         *)
(* connections: it stays within its limit and holds no session that nobody *)
(* will remove, except the one a lost AUTH_ACK leaves.  And, each of its   *)
(* own specification: an agent's configuration that is edited              *)
(* (ConfigEdit), the server's process (ServerManager) and what is deployed *)
(* (DeployTab).                                                            *)
(***************************************************************************)
EXTENDS Sessions, Windows, FiniteSetTheorems, SequenceTheorems, TLAPS

(* A connection is an agent and a number.                                  *)
LEMMA ConnParts ==
  ASSUME NEW c \in Conn
  PROVE  c = <<c[1], c[2]>> /\ c[1] \in Agent /\ c[2] \in 1..MaxConn
BY DEF Conn

(* The agents with a session can be counted.                               *)
LEMMA ConnectedFinite ==
  IsFiniteSet(Connected) /\ Cardinality(Connected) \in Nat
<1>1. Connected \in SUBSET Agent
  BY DEF Connected
<1>2. IsFiniteSet(Connected)
  BY <1>1, SessionsAssumption, FS_Subset
<1> QED
  BY <1>2, FS_CardinalityType

(* create_session adds an agent only while there is a place for it.        *)
LEMMA LimitOnCreate ==
  ASSUME TypeOK, NEW c \in Conn, CreateSession(c)
  PROVE  Cardinality(Connected') <= MaxAgents
<1> DEFINE a == c[1]
<1>1. a \in Agent /\ None # c
  BY ConnParts, SessionsAssumption DEF Conn
<1>2. Connected' = Connected \union {a}
  BY <1>1 DEF CreateSession, Connected, TypeOK
<1>3. CASE a \in Connected
  <2>1. Connected' = Connected
    BY <1>2, <1>3
  <2> QED
    BY <2>1 DEF TypeOK
<1>4. CASE a \notin Connected
  <2>1. ~(Cardinality(Connected) >= MaxAgents)
    BY <1>1, <1>4 DEF CreateSession, Full, Connected
  <2>2. Cardinality(Connected') = Cardinality(Connected) + 1
    BY <1>2, <1>4, ConnectedFinite, FS_AddElement
  <2> QED
    BY <2>1, <2>2, ConnectedFinite, SessionsAssumption
<1> QED
  BY <1>3, <1>4

(* Every step keeps the types and the limit.                               *)
LEMMA TypeStep == TypeOK /\ [Next]_vars => TypeOK'
<1> SUFFICES ASSUME TypeOK, [Next]_vars
             PROVE  TypeOK'
  OBVIOUS
<1> USE SessionsAssumption
<1>1. ASSUME NEW a \in Agent, Open(a)
      PROVE  TypeOK'
  <2>1. made[a] + 1 \in 1..MaxConn /\ <<a, made[a] + 1>> \in Conn
    BY <1>1 DEF Open, TypeOK, Conn
  <2> QED
    BY <1>1, <2>1 DEF Open, TypeOK, Stages, Connected
<1>2. ASSUME NEW a \in Agent, Leave(a)
      PROVE  TypeOK'
  BY <1>2 DEF Leave, TypeOK, Connected
<1>3. ASSUME NEW c \in Conn, CreateSession(c)
      PROVE  TypeOK'
  <2>1. Cardinality(Connected') <= MaxAgents
    BY <1>3, LimitOnCreate
  <2>2. c[1] \in Agent
    BY ConnParts
  <2> QED
    BY <1>3, <2>1, <2>2 DEF CreateSession, TypeOK, Stages
<1>4. ASSUME NEW c \in Conn,
             \/ AuthFails(c) \/ AckDrained(c) \/ AckLost(c) \/ CloseWriter(c)
      PROVE  TypeOK'
  BY <1>4 DEF AuthFails, AckDrained, AckLost, CloseWriter, TypeOK, Stages,
              Connected
<1>5. ASSUME NEW c \in Conn, Notified(c)
      PROVE  TypeOK'
  <2>1. c[1] \in Agent
    BY ConnParts
  <2> QED
    BY <1>5, <2>1 DEF Notified, TypeOK, Stages, Connected
<1>6. ASSUME NEW c \in Conn, RecvEnds(c)
      PROVE  TypeOK'
  <2>1. c[1] \in Agent
    BY ConnParts
  <2>2. Connected' \in SUBSET Connected
    BY <1>6, <2>1 DEF RecvEnds, Connected, TypeOK
  <2>3. Cardinality(Connected') <= MaxAgents
    <3>1. Cardinality(Connected') <= Cardinality(Connected)
      BY <2>2, ConnectedFinite, FS_Subset
    <3>2. Cardinality(Connected') \in Nat
      BY <2>2, ConnectedFinite, FS_Subset, FS_CardinalityType
    <3> QED
      BY <3>1, <3>2, ConnectedFinite DEF TypeOK
  <2>4. sessions' \in [Agent -> Conn \union {None}]
    BY <1>6 DEF RecvEnds, TypeOK
  <2> QED
    BY <1>6, <2>3, <2>4 DEF RecvEnds, TypeOK, Stages
<1>7. CASE UNCHANGED vars
  BY <1>7 DEF vars, TypeOK, Connected
<1> QED
  BY <1>1, <1>2, <1>3, <1>4, <1>5, <1>6, <1>7 DEF Next, Authenticate

-----------------------------------------------------------------------------
(***************************************************************************)
(* The strengthening: a handler that still finds its own session when it   *)
(* starts to receive notes it, and keeps it as long as it is there.        *)
(***************************************************************************)
NotedItself ==
  \A c \in Conn : stage[c] = "recv" /\ sessions[c[1]] = c => mine[c] = c

UnopenedIsNone ==
  \A a \in Agent : \A n \in 1..MaxConn : n > made[a] => stage[<<a, n>>] = "none"

OrphanInv == NoOrphanSession /\ NotedItself /\ UnopenedIsNone

(* A step of the handler of c that stays past "none" keeps UnopenedIsNone. *)
LEMMA UnopenedKept ==
  ASSUME TypeOK, UnopenedIsNone, UNCHANGED made, NEW c \in Conn,
         stage[c] # "none", NEW v, stage' = [stage EXCEPT ![c] = v]
  PROVE  UnopenedIsNone'
<1> SUFFICES ASSUME NEW a \in Agent, NEW n \in 1..MaxConn, n > made[a]
             PROVE  stage'[<<a, n>>] = "none"
  BY DEF UnopenedIsNone
<1>1. <<a, n>> \in Conn /\ stage[<<a, n>>] = "none"
  BY DEF Conn, UnopenedIsNone
<1> QED
  BY <1>1 DEF TypeOK

(* Every step keeps the strengthening.                                     *)
LEMMA OrphanStep == TypeOK /\ OrphanInv /\ [Next]_vars => OrphanInv'
<1> SUFFICES ASSUME TypeOK, OrphanInv, [Next]_vars
             PROVE  OrphanInv'
  OBVIOUS
<1>inv. NoOrphanSession /\ NotedItself /\ UnopenedIsNone
  BY DEF OrphanInv
<1>1. ASSUME NEW a \in Agent, Open(a)
      PROVE  OrphanInv'
  <2> DEFINE n == made[a] + 1
             c == <<a, n>>
  <2>1. /\ made[a] \in 0..MaxConn /\ n \in 1..MaxConn /\ n > made[a]
        /\ made' = [made EXCEPT ![a] = n]
    BY <1>1, SessionsAssumption DEF Open, TypeOK
  <2>2. stage' = [stage EXCEPT ![c] = "auth"] /\ UNCHANGED <<sessions, mine>>
    BY <1>1 DEF Open
  <2> HIDE DEF n
  <2>3. c \in Conn /\ stage[c] = "none"
    BY <1>inv, <2>1 DEF UnopenedIsNone, Conn
  <2>4. NoOrphanSession' /\ NotedItself'
    <3> HIDE DEF c
    <3> QED
      BY <1>inv, <2>2, <2>3 DEF NoOrphanSession, NotedItself, TypeOK
  <2>5. ASSUME NEW b \in Agent, NEW m \in 1..MaxConn, m > made'[b]
        PROVE  stage'[<<b, m>>] = "none"
    <3>1. <<b, m>> # c /\ m > made[b]
      BY <2>1, <2>5 DEF TypeOK
    <3>2. stage[<<b, m>>] = "none" /\ <<b, m>> \in Conn
      BY <1>inv, <3>1 DEF UnopenedIsNone, Conn
    <3> QED
      BY <2>2, <3>1, <3>2 DEF TypeOK
  <2> QED
    BY <2>4, <2>5 DEF OrphanInv, UnopenedIsNone
<1>2. ASSUME NEW c \in Conn, CreateSession(c)
      PROVE  OrphanInv'
  <2>1. c[1] \in Agent
    BY ConnParts
  <2>2. /\ stage[c] = "auth" /\ stage' = [stage EXCEPT ![c] = "ack"]
        /\ sessions' = [sessions EXCEPT ![c[1]] = c]
        /\ UNCHANGED <<mine, made>>
    BY <1>2 DEF CreateSession
  <2>3. NoOrphanSession' /\ NotedItself'
    BY <1>inv, <2>1, <2>2 DEF NoOrphanSession, NotedItself, TypeOK
  <2> QED
    BY <1>inv, <2>2, <2>3, UnopenedKept DEF OrphanInv
<1>3. ASSUME NEW c \in Conn, AuthFails(c) \/ CloseWriter(c)
      PROVE  OrphanInv'
  <2>1. /\ stage[c] \in {"auth", "closing"}
        /\ stage' = [stage EXCEPT ![c] = "gone"]
        /\ UNCHANGED <<sessions, mine, made>>
    BY <1>3 DEF AuthFails, CloseWriter
  <2>2. NoOrphanSession' /\ NotedItself'
    BY <1>inv, <2>1 DEF NoOrphanSession, NotedItself, TypeOK
  <2> QED
    BY <1>inv, <2>1, <2>2, UnopenedKept DEF OrphanInv
<1>4. ASSUME NEW c \in Conn, AckDrained(c) \/ AckLost(c)
      PROVE  OrphanInv'
  <2>1. PICK v \in {"notify", "failed"} : stage' = [stage EXCEPT ![c] = v]
    BY <1>4 DEF AckDrained, AckLost
  <2>2. stage[c] = "ack" /\ UNCHANGED <<sessions, mine, made>>
    BY <1>4 DEF AckDrained, AckLost
  <2>3. NoOrphanSession' /\ NotedItself'
    BY <1>inv, <2>1, <2>2 DEF NoOrphanSession, NotedItself, TypeOK
  <2> QED
    BY <1>inv, <2>1, <2>2, <2>3, UnopenedKept DEF OrphanInv
<1>5. ASSUME NEW c \in Conn, Notified(c)
      PROVE  OrphanInv'
  <2>1. /\ stage[c] = "notify" /\ stage' = [stage EXCEPT ![c] = "recv"]
        /\ mine' = [mine EXCEPT ![c] = sessions[c[1]]]
        /\ UNCHANGED <<sessions, made>>
    BY <1>5 DEF Notified
  <2>2. NoOrphanSession' /\ NotedItself'
    BY <1>inv, <2>1 DEF NoOrphanSession, NotedItself, TypeOK
  <2> QED
    BY <1>inv, <2>1, <2>2, UnopenedKept DEF OrphanInv
<1>6. ASSUME NEW c \in Conn, RecvEnds(c)
      PROVE  OrphanInv'
  <2>1. c[1] \in Agent /\ None # c
    BY ConnParts, SessionsAssumption DEF Conn
  <2>2. /\ stage[c] = "recv" /\ stage' = [stage EXCEPT ![c] = "closing"]
        /\ UNCHANGED <<mine, made>>
        /\ \/ sessions' = sessions /\ ~IsOurs(c)
           \/ sessions' = [sessions EXCEPT ![c[1]] = None]
    BY <1>6 DEF RecvEnds
  <2>3. sessions'[c[1]] # c
    BY <1>inv, <2>1, <2>2 DEF NotedItself, IsOurs, TypeOK
  <2>4. \A a \in Agent, b \in Conn : sessions'[a] = b => sessions[a] = b
    BY <2>2, SessionsAssumption DEF TypeOK, Conn
  <2>5. NoOrphanSession'
    <3> SUFFICES ASSUME NEW a \in Agent, NEW b \in Conn, sessions'[a] = b
                 PROVE  /\ b[1] = a
                        /\ stage'[b] \in {"ack", "notify", "recv", "failed"}
      BY DEF NoOrphanSession
    <3>1. b[1] = a /\ stage[b] \in {"ack", "notify", "recv", "failed"}
      BY <1>inv, <2>4 DEF NoOrphanSession
    <3>2. b # c
      BY <2>3, <3>1
    <3> QED
      BY <2>2, <3>1, <3>2 DEF TypeOK
  <2>6. NotedItself'
    BY <1>inv, <2>2, <2>4, ConnParts DEF NotedItself, TypeOK
  <2> QED
    BY <1>inv, <2>2, <2>5, <2>6, UnopenedKept DEF OrphanInv
<1>7. ASSUME UNCHANGED <<sessions, stage, mine, made>>
      PROVE  OrphanInv'
  BY <1>inv, <1>7 DEF OrphanInv, NoOrphanSession, NotedItself, UnopenedIsNone
<1>8. CASE UNCHANGED vars \/ \E a \in Agent : Leave(a)
  BY <1>7, <1>8 DEF vars, Leave
<1> QED
  BY <1>1, <1>2, <1>3, <1>4, <1>5, <1>6, <1>8 DEF Next, Authenticate

(* Both hold before the first connection.                                  *)
LEMMA SessionsInit == Init => TypeOK /\ OrphanInv
<1> SUFFICES ASSUME Init
             PROVE  TypeOK /\ OrphanInv
  OBVIOUS
<1>1. Connected = {}
  BY DEF Init, Connected
<1>2. Cardinality(Connected) <= MaxAgents
  BY <1>1, FS_EmptySet, SessionsAssumption
<1>3. TypeOK
  BY <1>2, SessionsAssumption DEF Init, TypeOK, Stages
<1>4. OrphanInv
  BY SessionsAssumption
  DEF Init, OrphanInv, NoOrphanSession, NotedItself, UnopenedIsNone, Conn
<1> QED
  BY <1>3, <1>4

(* The session table stays within _max_agents.                             *)
THEOREM SessionTypes == Spec => []TypeOK
<1> QED
  BY SessionsInit, TypeStep, PTL DEF Spec

(* Whoever reaches its receive loop removes its session if it is there.    *)
THEOREM SessionsRemoved == Spec => []NoOrphanSession
<1> QED
  BY SessionsInit, TypeStep, OrphanStep, PTL DEF Spec, OrphanInv

-----------------------------------------------------------------------------
(***************************************************************************)
(* What is typed into the configuration of an agent.  A field that was not *)
(* edited holds what the editor saw when it was filled, in every dialog    *)
(* and in every update on its way.                                         *)
(***************************************************************************)

DialogState == {"open", "applying", "applied", "refreshing"}

\* What the fields of a dialog, or of an update, have that were not edited.
AsSeen(fields, edited, seen) ==
  /\ "field" \in DOMAIN fields /\ "field" \notin edited => fields.field = E!Shown(seen.field)
  /\ "secret" \in DOMAIN fields /\ "secret" \notin edited => fields.secret = E!Masked
  /\ "list" \in DOMAIN fields /\ "list" \notin edited /\ "items" \notin edited =>
       fields.list = seen.list

\* Those of the sections that were visited.
Visited(d) == [x \in {"field", "secret"} \cup (IF "list" \in d.visited THEN {"list"} ELSE {}) |->
                 d.form[x]]

DialogOk(d) ==
  /\ DOMAIN d = {"at", "config", "current", "visited", "form", "edited", "seen"}
  /\ d.at \in DialogState
  /\ DOMAIN d.config = {"field", "secret", "list"} /\ d.config.secret = E!Masked
  /\ DOMAIN d.form = {"field", "secret", "list"} /\ DOMAIN d.seen = {"field", "list"}
  /\ d.visited \subseteq {"dict", "list"}
  /\ AsSeen(Visited(d), d.edited, d.seen)

RequestOk(r) ==
  /\ r.from \in Editor
  /\ r.action = "get" => r.waits \in {"getting", "refreshing"}
  /\ r.action = "update" => r.waits = "applying" /\ AsSeen(r.data, r.edited, r.seen)

QueueOk(q) ==
  /\ q \in Seq({q[i] : i \in 1 .. Len(q)})
  /\ \A i \in 1 .. Len(q) : RequestOk(q[i])

ConfigInv ==
  /\ OnlyEditedWritten
  /\ key = "ok" => file.sealed
  /\ DOMAIN editor = Editor
  /\ \A e \in Editor :
       editor[e] = E!Closed \/ editor[e] = [at |-> "getting"] \/ DialogOk(editor[e])
  /\ QueueOk(queue)

-----------------------------------------------------------------------------
(* The requests.                                                           *)

LEMMA OwnElements ==
  ASSUME NEW S, NEW s \in Seq(S)
  PROVE  s \in Seq({s[i] : i \in 1 .. Len(s)}) /\ Len(s) \in Nat
BY LenProperties

LEMMA RequestSent ==
  ASSUME NEW q, QueueOk(q), NEW r, RequestOk(r)
  PROVE  QueueOk(Append(q, r))
<1> DEFINE S == {q[i] : i \in 1 .. Len(q)} \cup {r}
           q2 == Append(q, r)
<1>1. q \in Seq({q[i] : i \in 1 .. Len(q)})
  BY DEF QueueOk
<1>2. q \in Seq(S) /\ Len(q) \in Nat
  BY <1>1, LenProperties
<1>3. /\ q2 \in Seq(S) /\ Len(q2) = Len(q) + 1 /\ q2[Len(q) + 1] = r
      /\ \A i \in 1 .. Len(q) : q2[i] = q[i]
  BY <1>2, AppendProperties
<1> HIDE DEF S, q2
<1>4. q2 \in Seq({q2[i] : i \in 1 .. Len(q2)})
  BY <1>3, OwnElements
<1>5. \A i \in 1 .. Len(q2) : RequestOk(q2[i])
  BY <1>2, <1>3 DEF QueueOk
<1>6. QED
  BY <1>4, <1>5 DEF QueueOk, q2

LEMMA RequestTaken ==
  ASSUME NEW q, QueueOk(q), q # <<>>
  PROVE  RequestOk(Head(q)) /\ QueueOk(Tail(q))
<1> DEFINE S == {q[i] : i \in 1 .. Len(q)}
           q2 == Tail(q)
<1>1. q \in Seq(S) /\ \A i \in 1 .. Len(q) : RequestOk(q[i])
  BY DEF QueueOk
<1> HIDE DEF S
<1>2. Len(q) \in Nat /\ Len(q) # 0
  BY <1>1, LenProperties, EmptySeq
<1>3. /\ Head(q) = q[1] /\ q2 \in Seq(S) /\ Len(q2) = Len(q) - 1
      /\ \A i \in 1 .. Len(q2) : q2[i] = q[i + 1]
  BY <1>1, HeadTailProperties
<1> HIDE DEF q2
<1>4. q2 \in Seq({q2[i] : i \in 1 .. Len(q2)})
  BY <1>3, OwnElements
<1>5. \A i \in 1 .. Len(q2) : RequestOk(q2[i])
  BY <1>1, <1>2, <1>3
<1>6. RequestOk(Head(q))
  BY <1>1, <1>2, <1>3
<1>7. QED
  BY <1>4, <1>5, <1>6 DEF QueueOk, q2

-----------------------------------------------------------------------------
(* The dialogs.                                                            *)

\* What the other sections of an update do is nothing to it.
LEMMA SeenEverywhere ==
  ASSUME NEW d, DialogOk(d)
  PROVE  /\ "field" \notin d.edited => d.form.field = E!Shown(d.seen.field)
         /\ "secret" \notin d.edited => d.form.secret = E!Masked
         /\ "list" \in d.visited /\ "list" \notin d.edited /\ "items" \notin d.edited =>
              d.form.list = d.seen.list
<1> DEFINE fields == {"field", "secret"} \cup (IF "list" \in d.visited THEN {"list"} ELSE {})
<1>1. /\ DOMAIN Visited(d) = fields
      /\ \A x \in fields : Visited(d)[x] = d.form[x]
  BY DEF Visited
<1>2. AsSeen(Visited(d), d.edited, d.seen)
  BY DEF DialogOk
<1>3. QED
  BY <1>1, <1>2 DEF AsSeen

\* And the other way round.
LEMMA DialogIs ==
  ASSUME NEW d,
         DOMAIN d = {"at", "config", "current", "visited", "form", "edited", "seen"},
         d.at \in DialogState,
         DOMAIN d.config = {"field", "secret", "list"}, d.config.secret = E!Masked,
         DOMAIN d.form = {"field", "secret", "list"}, DOMAIN d.seen = {"field", "list"},
         d.visited \subseteq {"dict", "list"},
         "field" \notin d.edited => d.form.field = E!Shown(d.seen.field),
         "secret" \notin d.edited => d.form.secret = E!Masked,
         "list" \in d.visited /\ "list" \notin d.edited /\ "items" \notin d.edited =>
              d.form.list = d.seen.list
  PROVE  DialogOk(d)
<1> DEFINE fields == {"field", "secret"} \cup (IF "list" \in d.visited THEN {"list"} ELSE {})
<1>1. /\ DOMAIN Visited(d) = fields
      /\ \A x \in fields : Visited(d)[x] = d.form[x]
  BY DEF Visited
<1>2. AsSeen(Visited(d), d.edited, d.seen)
  BY <1>1 DEF AsSeen
<1>3. QED
  BY <1>2 DEF DialogOk

LEMMA DialogMoves ==
  ASSUME NEW d, DialogOk(d), NEW s \in DialogState
  PROVE  DialogOk([d EXCEPT !.at = s])
<1> DEFINE d2 == [d EXCEPT !.at = s]
<1>1. /\ DOMAIN d2 = DOMAIN d /\ d2.at = s /\ d2.config = d.config /\ d2.current = d.current
      /\ d2.visited = d.visited /\ d2.form = d.form /\ d2.edited = d.edited /\ d2.seen = d.seen
  BY DEF DialogOk
<1> HIDE DEF d2
<1>2. DialogOk(d2)
  BY <1>1 DEF DialogOk, Visited
<1>3. QED
  BY <1>2 DEF d2

LEMMA DialogOpened ==
  ASSUME NEW d, d = [at |-> "getting"] \/ DialogOk(d)
  PROVE  DialogOk(E!Opened(d, E!MaskConfig(file), file))
<1> DEFINE config == E!MaskConfig(file)
           d2 == E!Opened(d, config, file)
<1>1. DOMAIN config = {"field", "secret", "list"} /\ config.field = file.field
      /\ config.secret = E!Masked /\ config.list = file.list
  BY DEF E!MaskConfig
<1> HIDE DEF config
<1>2. DOMAIN d2 = {"at", "config", "current", "visited", "form", "edited", "seen"}
      /\ d2.at = "open" /\ d2.config = config /\ DOMAIN d2.seen = {"field", "list"}
      /\ d2.seen.field = file.field
  BY DEF E!Opened
<1>3. /\ DOMAIN E!Form(config) = {"field", "secret", "list"}
      /\ E!Form(config).field = E!Shown(file.field) /\ E!Form(config).secret = E!Masked
  BY <1>1 DEF E!Form
<1>4. CASE d = [at |-> "getting"]
  <2>1. "visited" \notin DOMAIN d /\ "form" \notin DOMAIN d /\ "edited" \notin DOMAIN d
    BY <1>4
  <2>2. d2.visited = {"dict"} /\ d2.form = E!Form(config)
    BY <2>1 DEF E!Opened
  <2> HIDE DEF d2
  <2>3. d2.at \in DialogState /\ d2.visited \subseteq {"dict", "list"} /\ d2.config.secret = E!Masked
        /\ DOMAIN d2.config = {"field", "secret", "list"}
        /\ DOMAIN d2.form = {"field", "secret", "list"}
        /\ d2.form.field = E!Shown(d2.seen.field) /\ d2.form.secret = E!Masked
        /\ "list" \notin d2.visited
    BY <1>1, <1>2, <1>3, <2>2 DEF DialogState
  <2>4. DialogOk(d2)
    BY <1>2, <2>3, DialogIs
  <2>5. QED
    BY <2>4 DEF d2, config
<1>5. CASE DialogOk(d)
  <2>1. "visited" \in DOMAIN d /\ "form" \in DOMAIN d /\ "edited" \in DOMAIN d /\ "seen" \in DOMAIN d
        /\ d.visited \subseteq {"dict", "list"}
    BY <1>5 DEF DialogOk
  <2>2. /\ d2.visited = d.visited \cup {"dict"}
        /\ d2.form = [E!Form(config) EXCEPT !.list = d.form.list]
        /\ d2.edited = d.edited \cap {"list", "items"}
        /\ "list" \in d.visited => d2.seen.list = d.seen.list
    BY <2>1 DEF E!Opened
  <2>3. /\ DOMAIN d2.form = {"field", "secret", "list"} /\ d2.form.field = E!Form(config).field
        /\ d2.form.secret = E!Form(config).secret /\ d2.form.list = d.form.list
    BY <1>3, <2>2
  <2> HIDE DEF d2
  <2>4. "list" \in d2.visited /\ "list" \notin d2.edited /\ "items" \notin d2.edited =>
          d2.form.list = d2.seen.list
    BY <1>5, <2>2, <2>3, SeenEverywhere
  <2>5. d2.at \in DialogState /\ d2.visited \subseteq {"dict", "list"} /\ d2.config.secret = E!Masked
        /\ DOMAIN d2.config = {"field", "secret", "list"}
        /\ DOMAIN d2.form = {"field", "secret", "list"}
        /\ d2.form.field = E!Shown(d2.seen.field) /\ d2.form.secret = E!Masked
    BY <1>1, <1>2, <1>3, <2>1, <2>2, <2>3 DEF DialogState
  <2>6. DialogOk(d2)
    BY <1>2, <2>4, <2>5, DialogIs
  <2>7. QED
    BY <2>6 DEF d2, config
<1>6. QED
  BY <1>4, <1>5

\* A section that is built shows what was read last.
LEMMA DialogBuilt ==
  ASSUME NEW d, DialogOk(d), NEW section \in {"dict", "list"}
  PROVE  DialogOk(E!Built(d, section)) /\ E!Built(d, section).at = d.at
<1> DEFINE d2 == E!Built(d, section)
           shows == E!FieldsOf(section)
<1>1. DOMAIN d = {"at", "config", "current", "visited", "form", "edited", "seen"}
      /\ DOMAIN d.config = {"field", "secret", "list"} /\ d.config.secret = E!Masked
      /\ DOMAIN d.form = {"field", "secret", "list"} /\ DOMAIN d.seen = {"field", "list"}
      /\ d.visited \subseteq {"dict", "list"} /\ d.at \in DialogState
  BY DEF DialogOk
<1>2. /\ DOMAIN d2 = DOMAIN d /\ d2.at = d.at /\ d2.config = d.config
      /\ d2.visited = d.visited \cup {section} /\ d2.edited = d.edited \ shows
      /\ d2.form = [x \in DOMAIN d.form |-> IF x \in shows THEN E!Form(d.config)[x] ELSE d.form[x]]
      /\ d2.seen = [x \in DOMAIN d.seen |-> IF x \in shows THEN d.config[x] ELSE d.seen[x]]
  BY <1>1 DEF E!Built
<1>3. /\ E!Form(d.config).field = E!Shown(d.config.field)
      /\ E!Form(d.config).secret = E!Masked /\ E!Form(d.config).list = d.config.list
  BY <1>1 DEF E!Form
<1> HIDE DEF d2
<1>4. CASE section = "dict"
  <2>1. shows = {"field", "secret"}
    BY <1>4 DEF E!FieldsOf
  <2>2. /\ d2.form.field = E!Shown(d2.seen.field) /\ d2.form.secret = E!Masked
        /\ d2.form.list = d.form.list /\ d2.seen.list = d.seen.list
    BY <1>1, <1>2, <1>3, <2>1
  <2>3. "list" \in d2.visited /\ "list" \notin d2.edited /\ "items" \notin d2.edited =>
          d2.form.list = d2.seen.list
    BY <1>2, <1>4, <2>1, <2>2, SeenEverywhere
  <2>4. DOMAIN d2.form = {"field", "secret", "list"} /\ DOMAIN d2.seen = {"field", "list"}
        /\ d2.visited \subseteq {"dict", "list"}
    BY <1>1, <1>2
  <2>5. QED
    BY <1>1, <1>2, <2>2, <2>3, <2>4, DialogIs DEF d2
<1>5. CASE section = "list"
  <2>1. shows = {"list"}
    BY <1>5 DEF E!FieldsOf
  <2>2. /\ d2.form.list = d2.seen.list
        /\ d2.form.field = d.form.field /\ d2.form.secret = d.form.secret
        /\ d2.seen.field = d.seen.field
    BY <1>1, <1>2, <1>3, <2>1
  <2>3. /\ "field" \notin d2.edited => d2.form.field = E!Shown(d2.seen.field)
        /\ "secret" \notin d2.edited => d2.form.secret = E!Masked
    BY <1>2, <2>1, <2>2, SeenEverywhere
  <2>4. DOMAIN d2.form = {"field", "secret", "list"} /\ DOMAIN d2.seen = {"field", "list"}
        /\ d2.visited \subseteq {"dict", "list"}
    BY <1>1, <1>2, <1>5
  <2>5. QED
    BY <1>1, <1>2, <2>2, <2>3, <2>4, DialogIs DEF d2
<1>6. QED
  BY <1>4, <1>5

\* What is typed counts as edited.
LEMMA DialogTyped ==
  ASSUME NEW d, DialogOk(d), NEW x \in {"field", "secret", "list"}, NEW v
  PROVE  DialogOk([d EXCEPT !.form[x] = v, !.edited = @ \cup {x}])
<1> DEFINE d2 == [d EXCEPT !.form[x] = v, !.edited = @ \cup {x}]
<1>1. DOMAIN d = {"at", "config", "current", "visited", "form", "edited", "seen"}
      /\ DOMAIN d.config = {"field", "secret", "list"} /\ d.config.secret = E!Masked
      /\ DOMAIN d.form = {"field", "secret", "list"} /\ DOMAIN d.seen = {"field", "list"}
      /\ d.visited \subseteq {"dict", "list"} /\ d.at \in DialogState
  BY DEF DialogOk
<1>2. /\ DOMAIN d2 = DOMAIN d /\ d2.at = d.at /\ d2.config = d.config /\ d2.visited = d.visited
      /\ d2.seen = d.seen /\ d2.edited = d.edited \cup {x} /\ d2.form = [d.form EXCEPT ![x] = v]
  BY <1>1
<1> HIDE DEF d2
<1>3. /\ DOMAIN d2.form = {"field", "secret", "list"}
      /\ \A y \in {"field", "secret", "list"} : y # x => d2.form[y] = d.form[y]
  BY <1>1, <1>2
<1>4. /\ "field" \notin d2.edited => d2.form.field = E!Shown(d2.seen.field)
      /\ "secret" \notin d2.edited => d2.form.secret = E!Masked
      /\ "list" \in d2.visited /\ "list" \notin d2.edited /\ "items" \notin d2.edited =>
           d2.form.list = d2.seen.list
  BY <1>2, <1>3, SeenEverywhere
<1>5. DialogOk(d2)
  BY <1>1, <1>2, <1>3, <1>4, DialogIs
<1>6. QED
  BY <1>5 DEF d2

\* And so does an item that is added or removed, whatever the items are then.
LEMMA DialogItems ==
  ASSUME NEW d, DialogOk(d), NEW items
  PROVE  DialogOk([E!Built([d EXCEPT !.config.list = items], "list") EXCEPT
                     !.edited = @ \cup {"items"}])
<1> DEFINE d1 == [d EXCEPT !.config.list = items]
           b == E!Built(d1, "list")
           d2 == [b EXCEPT !.edited = @ \cup {"items"}]
<1>1. DialogOk(d1)
  <2>1. DOMAIN d = {"at", "config", "current", "visited", "form", "edited", "seen"}
        /\ DOMAIN d.config = {"field", "secret", "list"} /\ d.config.secret = E!Masked
    BY DEF DialogOk
  <2>2. /\ DOMAIN d1 = DOMAIN d /\ d1.at = d.at /\ d1.visited = d.visited /\ d1.form = d.form
        /\ d1.seen = d.seen /\ d1.edited = d.edited
        /\ DOMAIN d1.config = {"field", "secret", "list"} /\ d1.config.secret = E!Masked
    BY <2>1
  <2> HIDE DEF d1
  <2>3. QED
    BY <2>1, <2>2 DEF DialogOk, Visited
<1> HIDE DEF d1
<1>2. DialogOk(b)
  BY <1>1, DialogBuilt
<1> HIDE DEF b
<1>3. DOMAIN b = {"at", "config", "current", "visited", "form", "edited", "seen"}
  BY <1>2 DEF DialogOk
<1>4. /\ DOMAIN d2 = DOMAIN b /\ d2.at = b.at /\ d2.config = b.config /\ d2.visited = b.visited
      /\ d2.form = b.form /\ d2.seen = b.seen /\ d2.edited = b.edited \cup {"items"}
  BY <1>3
<1> HIDE DEF d2
<1>5. DialogOk(d2)
  BY <1>2, <1>4 DEF DialogOk, AsSeen, Visited
<1>6. QED
  BY <1>5 DEF d2, b, d1

\* What is sent are the fields of the sections that were visited.
LEMMA CollectedAsSeen ==
  ASSUME NEW d, DialogOk(d)
  PROVE  AsSeen(E!Collected(d), d.edited, d.seen)
<1> DEFINE fields == DOMAIN E!Collected(d)
<1>1. \A x \in fields : E!Collected(d)[x] = d.form[x]
  BY DEF E!Collected
<1>2. "list" \in fields => "list" \in d.visited
  BY DEF E!Collected, E!FieldsOf, DialogOk
<1> HIDE DEF fields
<1>3. QED
  BY <1>1, <1>2, SeenEverywhere DEF AsSeen, fields

-----------------------------------------------------------------------------
(* The steps.                                                              *)

EditorOk(d) == d = E!Closed \/ d = [at |-> "getting"] \/ DialogOk(d)

LEMMA EditorPut ==
  ASSUME ConfigInv, NEW e \in Editor, NEW d, EditorOk(d), editor' = [editor EXCEPT ![e] = d]
  PROVE  DOMAIN editor' = Editor /\ \A x \in Editor : EditorOk(editor'[x])
BY DEF ConfigInv, EditorOk

LEMMA EditorStates ==
  ASSUME ConfigInv, NEW e \in Editor
  PROVE  /\ editor[e].at \in DialogState => DialogOk(editor[e])
         /\ editor[e].at = "getting" => editor[e] = [at |-> "getting"]
         /\ editor[e].at \in DialogState \cup {"closed", "getting"}
<1>1. EditorOk(editor[e])
  BY DEF ConfigInv, EditorOk
<1>2. QED
  BY <1>1 DEF EditorOk, E!Closed, DialogOk, DialogState

\* Where neither the file nor the update handled last changes.
LEMMA WrittenKept ==
  ASSUME ConfigInv, UNCHANGED <<key, file, last>>, backup' \in {file, backup}
  PROVE  OnlyEditedWritten' /\ (key = "ok" => file.sealed)'
<1>1. key' = key /\ file' = file /\ last' = last
  OBVIOUS
<1>2. CASE backup' = backup
  BY <1>1, <1>2 DEF ConfigInv, OnlyEditedWritten, E!OnlyEditedWritten, E!Nothing, E!NoFile, E!Null
<1>3. CASE backup' = file
  BY <1>1, <1>3 DEF ConfigInv, OnlyEditedWritten, E!OnlyEditedWritten, E!Nothing, E!NoFile, E!Null
<1>4. QED
  BY <1>2, <1>3

\* An update whose fields are as they were seen, where nothing was edited.
LEMMA UpdateWritten ==
  ASSUME key = "ok" => file.sealed, NEW data, NEW edited, NEW seen, AsSeen(data, edited, seen),
         key' = key, backup' = file, file' = E!Updated(file, data),
         last' = [edited |-> edited, seen |-> seen]
  PROVE  OnlyEditedWritten' /\ (key = "ok" => file.sealed)'
<1> DEFINE secret == IF "secret" \in DOMAIN data THEN E!Merged(file.secret, data.secret)
                     ELSE file.secret
           field == IF "field" \in DOMAIN data THEN E!Merged(file.field, data.field)
                    ELSE file.field
           list == IF "list" \in DOMAIN data THEN data.list ELSE file.list
<1>1. file'.field = field /\ file'.secret = secret /\ file'.list = list
      /\ file'.sealed = E!Sealed(file, secret)
  BY DEF E!Updated
<1>2. last'.edited = edited /\ last'.seen = seen
  OBVIOUS
<1>3. key = "ok" => file'.sealed
  BY <1>1 DEF E!Sealed
<1>4. "secret" \notin edited => secret = file.secret
  BY DEF AsSeen, E!Merged
<1>5. field # file.field => "field" \in edited \/ seen.field # file.field \/ seen.field = E!Null
  BY DEF AsSeen, E!Merged, E!Shown
<1>6. list # file.list => "list" \in edited \/ "items" \in edited \/ seen.list # file.list
  BY DEF AsSeen
<1> HIDE DEF secret, field, list
<1>7. QED
  BY <1>1, <1>2, <1>3, <1>4, <1>5, <1>6 DEF OnlyEditedWritten, E!OnlyEditedWritten

EditorsOk == DOMAIN editor = Editor /\ \A e \in Editor : EditorOk(editor[e])

LEMMA ConfigParts ==
  ConfigInv <=> /\ OnlyEditedWritten /\ (key = "ok" => file.sealed) /\ EditorsOk
                /\ QueueOk(queue)
BY DEF ConfigInv, EditorsOk, EditorOk

LEMMA AnsweredKept ==
  ASSUME ConfigInv, NEW r, r.from \in Editor, NEW d,
         editor[r.from].at = r.waits => EditorOk(d), E!Answer(r, d)
  PROVE  EditorsOk'
<1>1. CASE editor[r.from].at = r.waits
  <2>1. editor' = [editor EXCEPT ![r.from] = d]
    BY <1>1 DEF E!Answer
  <2>2. QED
    BY <1>1, <2>1, EditorPut DEF EditorsOk
<1>2. CASE editor[r.from].at # r.waits
  BY <1>2, ConfigParts DEF E!Answer, EditorsOk
<1>3. QED
  BY <1>1, <1>2

LEMMA GetHandled ==
  ASSUME ConfigInv, E!HandleGet
  PROVE  ConfigInv'
<1> DEFINE r == Head(queue)
<1>1. RequestOk(r) /\ QueueOk(queue') /\ r.action = "get"
  BY RequestTaken, ConfigParts DEF E!HandleGet
<1>2. r.from \in Editor /\ r.waits \in {"getting", "refreshing"}
  BY <1>1 DEF RequestOk
<1>3. \/ E!Answer(r, E!Opened(editor[r.from], E!MaskConfig(file), file))
      \/ E!Answer(r, E!Closed)
  BY DEF E!HandleGet
<1> HIDE DEF r
<1>4. editor[r.from].at = r.waits =>
        editor[r.from] = [at |-> "getting"] \/ DialogOk(editor[r.from])
  BY <1>2, EditorStates DEF DialogState
<1>5. /\ editor[r.from].at = r.waits =>
           EditorOk(E!Opened(editor[r.from], E!MaskConfig(file), file))
      /\ EditorOk(E!Closed)
  BY <1>4, DialogOpened DEF EditorOk
<1>6. EditorsOk'
  BY <1>2, <1>3, <1>5, AnsweredKept
<1>7. OnlyEditedWritten' /\ (key = "ok" => file.sealed)'
  BY WrittenKept DEF E!HandleGet
<1>8. ConfigInv'
  BY <1>1, <1>6, <1>7 DEF ConfigInv, EditorsOk, EditorOk
<1>9. QED
  BY <1>8

LEMMA UpdateHandled ==
  ASSUME ConfigInv, E!HandleUpdate
  PROVE  ConfigInv'
<1> DEFINE r == Head(queue)
           new == E!Updated(file, r.data)
<1>1. RequestOk(r) /\ QueueOk(queue') /\ r.action = "update" /\ key' = key
  BY RequestTaken, ConfigParts DEF E!HandleUpdate
<1>2. r.from \in Editor /\ r.waits = "applying" /\ AsSeen(r.data, r.edited, r.seen)
  BY <1>1 DEF RequestOk
<1>3. \/ /\ \/ UNCHANGED <<file, backup, last>>
            \/ backup' = file /\ file' = new /\ last' = [edited |-> r.edited, seen |-> r.seen]
         /\ E!Answer(r, [editor[r.from] EXCEPT !.at = "applied"])
      \/ /\ backup' \in {file, backup} /\ UNCHANGED <<file, last>>
         /\ E!Answer(r, [editor[r.from] EXCEPT !.at = "open"])
  BY DEF E!HandleUpdate
<1> HIDE DEF r
<1>4. editor[r.from].at = r.waits =>
        /\ EditorOk([editor[r.from] EXCEPT !.at = "applied"])
        /\ EditorOk([editor[r.from] EXCEPT !.at = "open"])
  BY <1>2, EditorStates, DialogMoves DEF DialogState, EditorOk
<1>5. EditorsOk'
  BY <1>2, <1>3, <1>4, AnsweredKept
<1>6. OnlyEditedWritten' /\ (key = "ok" => file.sealed)'
  <2>1. CASE UNCHANGED <<file, last>> /\ backup' \in {file, backup}
    BY <1>1, <2>1, WrittenKept
  <2>2. CASE backup' = file /\ file' = new /\ last' = [edited |-> r.edited, seen |-> r.seen]
    BY <1>1, <1>2, <2>2, UpdateWritten, ConfigParts
  <2>3. QED
    BY <1>3, <2>1, <2>2
<1>7. QED
  BY <1>1, <1>5, <1>6 DEF ConfigInv, EditorsOk, EditorOk

LEMMA ElsewhereKept ==
  ASSUME ConfigInv, E!UpdatedElsewhere
  PROVE  ConfigInv'
<1>1. PICK data \in {[field |-> "c"], [list |-> <<E!Template>>]} :
        /\ last' = [edited |-> DOMAIN data, seen |-> E!Seen(file)]
        /\ backup' = file /\ file' = E!Updated(file, data)
  BY DEF E!UpdatedElsewhere
<1>2. AsSeen(data, DOMAIN data, E!Seen(file))
  <2>1. "secret" \notin DOMAIN data
    OBVIOUS
  <2>2. QED
    BY <2>1 DEF AsSeen
<1>3. UNCHANGED <<key, editor, queue>>
  BY DEF E!UpdatedElsewhere
<1>4. OnlyEditedWritten' /\ (key = "ok" => file.sealed)'
  BY <1>1, <1>2, <1>3, UpdateWritten, ConfigParts
<1>5. QED
  BY <1>3, <1>4 DEF ConfigInv

\* What only the dialog of one editor, and the requests, change.
LEMMA EditorKept ==
  ASSUME ConfigInv, NEW e \in Editor, NEW d, EditorOk(d), editor' = [editor EXCEPT ![e] = d],
         QueueOk(queue'), UNCHANGED <<key, file, backup, last>>
  PROVE  ConfigInv'
<1>1. OnlyEditedWritten' /\ (key = "ok" => file.sealed)'
  BY WrittenKept
<1>2. DOMAIN editor' = Editor /\ \A x \in Editor : EditorOk(editor'[x])
  BY EditorPut
<1>3. QED
  BY <1>1, <1>2 DEF ConfigInv, EditorOk

LEMMA GetSent ==
  ASSUME ConfigInv, NEW e \in Editor, E!Open(e) \/ E!Refresh(e)
  PROVE  ConfigInv'
<1>1. PICK d : EditorOk(d) /\ d.at \in {"getting", "refreshing"} /\ E!GetAgentConfig(e, d)
  <2>1. CASE E!Open(e)
    <3> DEFINE d == [at |-> "getting"]
    <3>1. EditorOk(d) /\ d.at \in {"getting", "refreshing"}
      BY DEF EditorOk
    <3>2. E!GetAgentConfig(e, d)
      BY <2>1 DEF E!Open
    <3> HIDE DEF d
    <3>3. QED
      BY <3>1, <3>2
  <2>2. CASE E!Refresh(e)
    <3> DEFINE d == [editor[e] EXCEPT !.at = "refreshing"]
    <3>1. DialogOk(editor[e])
      BY <2>2, EditorStates DEF E!Refresh, DialogState
    <3>2. DialogOk(d) /\ d.at = "refreshing"
      BY <3>1, DialogMoves DEF DialogState, DialogOk
    <3>3. E!GetAgentConfig(e, d)
      BY <2>2 DEF E!Refresh
    <3> HIDE DEF d
    <3>4. QED
      BY <3>2, <3>3 DEF EditorOk
  <2>3. QED
    BY <2>1, <2>2
<1>2. RequestOk([from |-> e, waits |-> d.at, action |-> "get"])
  BY <1>1 DEF RequestOk
<1>3. QueueOk(queue')
  BY <1>1, <1>2, RequestSent, ConfigParts DEF E!GetAgentConfig
<1>4. QED
  BY <1>1, <1>3, EditorKept DEF E!GetAgentConfig

LEMMA DialogKept ==
  ASSUME ConfigInv, NEW e \in Editor, NEW d, EditorOk(d), E!Dialog(e, d)
  PROVE  ConfigInv'
BY EditorKept, ConfigParts DEF E!Dialog

LEMMA TimeoutKept ==
  ASSUME ConfigInv, NEW e \in Editor, E!Timeout(e)
  PROVE  ConfigInv'
<1> DEFINE d == IF editor[e].at = "getting" THEN E!Closed ELSE [editor[e] EXCEPT !.at = "open"]
<1>1. editor' = [editor EXCEPT ![e] = d]
  BY ConfigParts DEF E!Timeout, EditorsOk
<1>2. EditorOk(d)
  BY EditorStates, DialogMoves DEF E!Timeout, EditorOk, DialogState
<1> HIDE DEF d
<1>3. QED
  BY <1>1, <1>2, EditorKept, ConfigParts DEF E!Timeout

LEMMA AppliedKept ==
  ASSUME ConfigInv, NEW e \in Editor, E!Apply(e)
  PROVE  ConfigInv'
<1> DEFINE d == editor[e]
           r == [from |-> e, waits |-> "applying", action |-> "update",
                 data |-> E!Collected(d), edited |-> d.edited, seen |-> d.seen]
<1>1. DialogOk(d)
  BY EditorStates DEF E!Apply, DialogState
<1>2. DialogOk([d EXCEPT !.at = "applying"])
  BY <1>1, DialogMoves DEF DialogState
<1>3. RequestOk(r)
  BY <1>1, CollectedAsSeen DEF RequestOk
<1>4. queue' = Append(queue, r) /\ UNCHANGED <<key, file, backup, last>>
      /\ editor' = [editor EXCEPT ![e] = [d EXCEPT !.at = "applying"]]
  BY ConfigParts DEF E!Apply, EditorsOk
<1> HIDE DEF d, r
<1>5. QueueOk(queue')
  BY <1>3, <1>4, RequestSent, ConfigParts
<1>6. QED
  BY <1>2, <1>4, <1>5, EditorKept DEF EditorOk

LEMMA EditedKept ==
  ASSUME ConfigInv, NEW e \in Editor,
         \/ E!Close(e) \/ E!AddItem(e) \/ E!RemoveItem(e)
         \/ \E s \in {"dict", "list"} : E!SelectSection(e, s)
         \/ \E x \in {"field", "secret", "list"}, v \in Value : E!Type(e, x, v)
  PROVE  ConfigInv'
<1>1. CASE E!Close(e)
  BY <1>1, DialogKept DEF E!Close, EditorOk
<1>2. editor[e].at = "open" => DialogOk(editor[e])
  BY EditorStates DEF DialogState
<1>3. CASE E!AddItem(e) \/ E!RemoveItem(e)
  <2>1. PICK items : E!ChangeList(e, items) /\ editor[e].at = "open"
    BY <1>3 DEF E!AddItem, E!RemoveItem
  <2>2. QED
    BY <1>2, <2>1, DialogItems, DialogKept DEF E!ChangeList, EditorOk
<1>4. ASSUME NEW s \in {"dict", "list"}, E!SelectSection(e, s) PROVE ConfigInv'
  BY <1>2, <1>4, DialogBuilt, DialogKept DEF E!SelectSection, EditorOk
<1>5. ASSUME NEW x \in {"field", "secret", "list"}, NEW v \in Value, E!Type(e, x, v)
      PROVE  ConfigInv'
  <2> DEFINE d == editor[e]
  <2>1. DialogOk(d)
    BY <1>2, <1>5 DEF E!Type
  <2>2. PICK w : E!Dialog(e, [d EXCEPT !.form[x] = w, !.edited = @ \cup {x}])
    <3>1. CASE x # "list"
      BY <1>5, <3>1 DEF E!Type
    <3>2. CASE x = "list"
      <4>1. PICK i : E!Dialog(e, [d EXCEPT !.form.list[i].name = v, !.edited = @ \cup {x}])
        BY <1>5, <3>2 DEF E!Type
      <4> DEFINE w == [d.form.list EXCEPT ![i].name = v]
      <4>2. [d EXCEPT !.form.list[i].name = v, !.edited = @ \cup {x}]
              = [d EXCEPT !.form[x] = w, !.edited = @ \cup {x}]
        BY <2>1, <3>2 DEF DialogOk
      <4> HIDE DEF w, d
      <4>3. QED
        BY <4>1, <4>2
    <3>3. QED
      BY <3>1, <3>2
  <2>3. EditorOk([d EXCEPT !.form[x] = w, !.edited = @ \cup {x}])
    BY <2>1, DialogTyped DEF EditorOk
  <2> HIDE DEF d
  <2>4. QED
    BY <2>2, <2>3, DialogKept
<1>6. QED
  BY <1>1, <1>3, <1>4, <1>5

\* An update changes what its editor edited, and else only what has become different at the agent
\* since the editor read it; a secret only if it was typed anew; and where the key encrypts, a
\* secret is saved encrypted (config_handler.py:101-175, config_editor.py:871-917).
THEOREM EditedIsWritten == E!Spec => []OnlyEditedWritten
<1>1. E!Init => ConfigInv
  <2> SUFFICES ASSUME E!Init PROVE ConfigInv
    OBVIOUS
  <2>1. OnlyEditedWritten
    BY DEF E!Init, OnlyEditedWritten, E!OnlyEditedWritten
  <2>2. key = "ok" => file.sealed
    BY DEF E!Init
  <2>3. QueueOk(queue)
    BY DEF E!Init, QueueOk
  <2>4. EditorsOk
    BY DEF E!Init, EditorsOk, EditorOk
  <2>5. QED
    BY <2>1, <2>2, <2>3, <2>4, ConfigParts
<1>2. ConfigInv /\ [E!Next]_(E!vars) => ConfigInv'
  <2> SUFFICES ASSUME ConfigInv, [E!Next]_(E!vars) PROVE ConfigInv'
    OBVIOUS
  <2>1. CASE UNCHANGED E!vars
    <3>1. UNCHANGED <<key, file, backup, editor, queue, last>>
      BY <2>1 DEF E!vars
    <3>2. OnlyEditedWritten'
      BY <3>1, WrittenKept
    <3>3. QED
      BY <3>1, <3>2 DEF ConfigInv
  <2>2. CASE E!Next
    BY <2>2, GetHandled, UpdateHandled, ElsewhereKept, GetSent, TimeoutKept, AppliedKept, EditedKept
       DEF E!Next
  <2>3. QED
    BY <2>1, <2>2
<1>3. ConfigInv => OnlyEditedWritten
  BY DEF ConfigInv
<1>4. QED
  BY <1>1, <1>2, <1>3, PTL DEF E!Spec

-----------------------------------------------------------------------------
(***************************************************************************)
(* The server's manager.  A process that lives is the window's; and when   *)
(* no end is to be reported, the last command in its pipe, or the last it  *)
(* took, is the one the window shows.                                      *)
(***************************************************************************)

Command == {"start", "stop"}
ShownCommand == IF dashShown THEN "start" ELSE "stop"

\* Of a process that does not live there is neither pipe nor dashboard; one that is not
\* ready has no dashboard yet.
ProcessRests(p) ==
  /\ phase[p] \in {"unborn", "dead"} => pipe[p] = <<>> /\ dash[p] = "off" /\ p \notin changed
  /\ phase[p] = "starting" => dash[p] = "off"
  /\ dash[p] \in {"off", "on"} => stopper[p] = {}
  /\ stopper[p] = {} => dash[p] \in {"off", "on"}
  /\ "main" \in stopper[p] => phase[p] = "closing"

ManagerTypes ==
  /\ phase \in [M!Process -> {"unborn", "starting", "ready", "closing", "dead"}]
  /\ pipe \in [M!Process -> Seq(Command)]
  /\ dash \in [M!Process -> {"off", "on", "stopping"}]
  /\ stopper \in [M!Process -> SUBSET {"stdin", "telegram", "main"}]
  /\ proc \in M!Process \cup {0}
  /\ dashShown \in BOOLEAN /\ late \in BOOLEAN /\ shown \in BOOLEAN /\ quit \in BOOLEAN
  /\ changed \subseteq M!Process
  /\ readers \subseteq M!Process /\ posts \subseteq M!Process

\* Ends are reported of processes that were started; the window's process is one whose end
\* is to be reported still, and without one it shows nothing.
ReportsFit ==
  /\ \A p \in posts : phase[p] = "dead"
  /\ \A p \in readers : phase[p] # "unborn"
  /\ proc # 0 => proc \in readers \cup posts
  /\ shown <=> proc # 0
  /\ proc = 0 => ~dashShown

\* What the window shows is what the process will come to.
DashFits(p) ==
  /\ pipe[p] # <<>> => pipe[p][Len(pipe[p])] = ShownCommand
  /\ pipe[p] = <<>> /\ p \notin changed /\ phase[p] \in {"starting", "ready"} =>
       \/ dash[p] = "on" /\ dashShown
       \/ dash[p] = "off" /\ ~dashShown
       \/ dash[p] = "stopping" /\ (~dashShown \/ "telegram" \in stopper[p])

WindowFits ==
  \A p \in M!Process :
    M!Alive(p) => /\ proc = p /\ ~quit
                  /\ M!Settled => DashFits(p)

ManagerInv ==
  /\ ManagerTypes
  /\ \A p \in M!Process : ProcessRests(p)
  /\ ReportsFit
  /\ ~late => WindowFits

Own == <<phase, pipe, dash, stopper, changed>>

\* What a process does by itself.
Runs(p) ==
  \/ M!Ready(p) \/ M!HandleCommand(p) \/ M!Telegram(p) \/ M!DashboardStopped(p) \/ M!Interrupt(p)
Ends(p) == M!Alive(p) /\ M!Gone(p)
Clicks ==
  \/ M!ClickStart \/ M!StartTimer \/ M!ClickStop \/ M!ClickRestart \/ M!ClickDashboard
  \/ M!DashboardTimer \/ M!StatusTimer \/ M!Quit

LEMMA DashTypes ==
  ASSUME ManagerTypes, NEW p \in M!Process, NEW who \in {"stdin", "telegram", "main"},
         (M!StartDashboard(p) /\ UNCHANGED stopper) \/ M!StopDashboard(p, who)
  PROVE  /\ dash' \in [M!Process -> {"off", "on", "stopping"}]
         /\ stopper' \in [M!Process -> SUBSET {"stdin", "telegram", "main"}]
         /\ \A q \in M!Process \ {p} : dash'[q] = dash[q] /\ stopper'[q] = stopper[q]
<1>1. CASE M!StartDashboard(p) /\ UNCHANGED stopper
  BY <1>1 DEF M!StartDashboard, ManagerTypes
<1>2. CASE M!StopDashboard(p, who)
  <2>1. stopper[p] \cup {who} \in SUBSET {"stdin", "telegram", "main"}
    BY DEF ManagerTypes
  <2>2. QED
    BY <1>2, <2>1 DEF M!StopDashboard, ManagerTypes
<1>3. QED
  BY <1>1, <1>2

LEMMA RunsTypes ==
  ASSUME ManagerTypes, NEW p \in M!Process, Runs(p)
  PROVE  /\ ManagerTypes'
         /\ UNCHANGED <<proc, shown, dashShown, quit, late, readers, posts>>
         /\ \A q \in M!Process \ {p} :
              /\ phase'[q] = phase[q] /\ pipe'[q] = pipe[q] /\ dash'[q] = dash[q]
              /\ stopper'[q] = stopper[q] /\ (q \in changed' <=> q \in changed)
         /\ M!Alive(p) /\ M!Alive(p)'
<1>1. CASE M!Ready(p)
  BY <1>1 DEF M!Ready, ManagerTypes, M!guiVars, M!Alive
<1>2. CASE M!HandleCommand(p)
  <2>1. pipe[p] \in Seq(Command) /\ Tail(pipe[p]) \in Seq(Command)
    BY <1>2, HeadTailProperties DEF M!HandleCommand, ManagerTypes
  <2>2. (M!StartDashboard(p) /\ UNCHANGED stopper) \/ M!StopDashboard(p, "stdin")
    BY <1>2 DEF M!HandleCommand
  <2>3. QED
    BY <1>2, <2>1, <2>2, DashTypes DEF M!HandleCommand, ManagerTypes, M!guiVars, M!Alive
<1>3. CASE M!Telegram(p)
  <2>1. (M!StartDashboard(p) /\ UNCHANGED stopper) \/ M!StopDashboard(p, "telegram")
    BY <1>3 DEF M!Telegram
  <2>2. QED
    BY <1>3, <2>1, DashTypes DEF M!Telegram, ManagerTypes, M!guiVars, M!Alive
<1>4. CASE M!DashboardStopped(p)
  BY <1>4 DEF M!DashboardStopped, ManagerTypes, M!guiVars, M!Alive
<1>5. CASE M!Interrupt(p)
  BY <1>5 DEF M!Interrupt, M!StopDashboard, ManagerTypes, M!guiVars, M!Alive
<1>6. QED
  BY <1>1, <1>2, <1>3, <1>4, <1>5 DEF Runs

LEMMA RunsRests ==
  ASSUME ManagerTypes, NEW p \in M!Process, ProcessRests(p), Runs(p)
  PROVE  ProcessRests(p)'
<1>1. CASE M!Ready(p)
  BY <1>1 DEF M!Ready, ManagerTypes, M!guiVars, ProcessRests
<1>2. CASE M!HandleCommand(p)
  BY <1>2 DEF M!HandleCommand, M!StartDashboard, M!StopDashboard, ManagerTypes, ProcessRests
<1>3. CASE M!Telegram(p)
  BY <1>3 DEF M!Telegram, M!StartDashboard, M!StopDashboard, ManagerTypes, ProcessRests
<1>4. CASE M!DashboardStopped(p)
  BY <1>4 DEF M!DashboardStopped, ManagerTypes, ProcessRests, M!Alive
<1>5. CASE M!Interrupt(p)
  BY <1>5 DEF M!Interrupt, M!StopDashboard, ManagerTypes, ProcessRests
<1>6. QED
  BY <1>1, <1>2, <1>3, <1>4, <1>5 DEF Runs

\* The last of the commands stays the last.
LEMMA LastOfTail ==
  ASSUME NEW S, NEW s \in Seq(S), s # <<>>
  PROVE  /\ Head(s) \in S /\ Tail(s) \in Seq(S)
         /\ Tail(s) = <<>> => Head(s) = s[Len(s)]
         /\ Tail(s) # <<>> => Tail(s)[Len(Tail(s))] = s[Len(s)]
<1>1. /\ Head(s) \in S /\ Tail(s) \in Seq(S) /\ Len(Tail(s)) = Len(s) - 1
      /\ Head(s) = s[1] /\ \A i \in 1 .. Len(Tail(s)) : Tail(s)[i] = s[i + 1]
      /\ Len(s) \in Nat
  BY HeadTailProperties, LenProperties
<1>2. \A t \in Seq(S) : t = <<>> <=> Len(t) = 0
  BY EmptySeq
<1>3. Tail(s) = <<>> <=> Len(Tail(s)) = 0
  BY <1>2, <1>1
<1>4. Len(Tail(s)) \in Nat
  BY <1>1, LenProperties
<1>5. /\ Tail(s) = <<>> => Len(s) = 1
      /\ Tail(s) # <<>> => Len(s) - 1 \in 1 .. Len(Tail(s)) /\ Len(s) - 1 + 1 = Len(s)
  <2>1. Len(Tail(s)) = Len(s) - 1 /\ Len(s) \in Nat
    BY <1>1
  <2>2. QED
    BY ONLY <1>3, <1>4, <2>1
<1>6. QED
  BY <1>1, <1>3, <1>5

LEMMA RunsFits ==
  ASSUME ManagerTypes, NEW p \in M!Process, ProcessRests(p), DashFits(p), Runs(p)
  PROVE  DashFits(p)'
<1>1. CASE M!Ready(p)
  BY <1>1 DEF M!Ready, ManagerTypes, M!guiVars, ProcessRests, DashFits, ShownCommand
<1>2. CASE M!HandleCommand(p)
  <2>1. /\ pipe[p] \in Seq(Command) /\ pipe[p] # <<>> /\ pipe'[p] = Tail(pipe[p])
        /\ phase'[p] = "ready" /\ phase[p] = "ready" /\ "stdin" \notin stopper[p]
        /\ dashShown' = dashShown
    BY <1>2 DEF M!HandleCommand, ManagerTypes, M!guiVars
  <2>2. /\ Tail(pipe[p]) = <<>> => Head(pipe[p]) = ShownCommand
        /\ Tail(pipe[p]) # <<>> => Tail(pipe[p])[Len(Tail(pipe[p]))] = ShownCommand
    BY <2>1, LastOfTail DEF DashFits
  <2>3. ASSUME Head(pipe[p]) = ShownCommand
        PROVE  \/ dash'[p] = "on" /\ dashShown
               \/ dash'[p] = "off" /\ ~dashShown
               \/ dash'[p] = "stopping" /\ (~dashShown \/ "telegram" \in stopper'[p])
    <3>1. CASE dashShown
      <4>1. /\ dash' = (IF dash[p] = "off" THEN [dash EXCEPT ![p] = "on"] ELSE dash)
            /\ stopper' = stopper
        BY <1>2, <2>3, <3>1 DEF M!HandleCommand, M!StartDashboard, ShownCommand
      <4>2. dash[p] = "stopping" => "telegram" \in stopper[p]
        BY <2>1 DEF ProcessRests, ManagerTypes
      <4>3. QED
        BY <3>1, <4>1, <4>2 DEF ManagerTypes
    <3>2. CASE ~dashShown
      <4>1. dash' = (IF dash[p] = "off" THEN dash ELSE [dash EXCEPT ![p] = "stopping"])
        BY <1>2, <2>3, <3>2 DEF M!HandleCommand, M!StopDashboard, ShownCommand
      <4>2. QED
        BY <3>2, <4>1 DEF ManagerTypes
    <3>3. QED
      BY <3>1, <3>2
  <2>4. ShownCommand' = ShownCommand
    BY <2>1 DEF ShownCommand
  <2>5. QED
    BY <2>1, <2>2, <2>3, <2>4 DEF DashFits
<1>3. CASE M!Telegram(p)
  <2>1. pipe' = pipe /\ p \in changed' /\ dashShown' = dashShown
    BY <1>3 DEF M!Telegram, M!guiVars
  <2>2. QED
    BY <2>1 DEF DashFits, ShownCommand
<1>4. CASE M!DashboardStopped(p)
  <2>1. pipe' = pipe /\ phase' = phase /\ dashShown' = dashShown /\ dash'[p] = "off"
        /\ dash[p] = "stopping" /\ p \in M!Process
        /\ changed' = IF "telegram" \in stopper[p] THEN changed \cup {p} ELSE changed
    BY <1>4 DEF M!DashboardStopped, M!guiVars, ManagerTypes
  <2>2. QED
    BY <2>1 DEF DashFits, ShownCommand
<1>5. CASE M!Interrupt(p)
  <2>1. pipe' = pipe /\ phase'[p] = "closing" /\ dashShown' = dashShown
    BY <1>5 DEF M!Interrupt, M!guiVars, ManagerTypes
  <2>2. QED
    BY <2>1 DEF DashFits, ShownCommand
<1>6. QED
  BY <1>1, <1>2, <1>3, <1>4, <1>5 DEF Runs

LEMMA RunsStep == ASSUME ManagerInv, NEW p \in M!Process, Runs(p) PROVE ManagerInv'
<1>1. /\ ManagerTypes'
      /\ UNCHANGED <<proc, shown, dashShown, quit, late, readers, posts>>
      /\ \A q \in M!Process \ {p} :
           /\ phase'[q] = phase[q] /\ pipe'[q] = pipe[q] /\ dash'[q] = dash[q]
           /\ stopper'[q] = stopper[q] /\ (q \in changed' <=> q \in changed)
      /\ M!Alive(p) /\ M!Alive(p)'
  BY RunsTypes DEF ManagerInv
<1>2. ASSUME NEW q \in M!Process PROVE ProcessRests(q)'
  <2>1. CASE q = p
    BY <2>1, RunsRests DEF ManagerInv
  <2>2. CASE q # p
    BY <1>1, <2>2 DEF ProcessRests, ManagerInv
  <2>3. QED
    BY <2>1, <2>2
<1>3. \A q \in M!Process : M!Alive(q)' <=> M!Alive(q)
  BY <1>1 DEF M!Alive
<1>4. ReportsFit'
  BY <1>1, <1>3 DEF ReportsFit, ManagerInv, M!Alive, ManagerTypes
<1>5. M!Settled' => M!Settled
  BY <1>1, <1>3 DEF M!Settled, ManagerInv, ManagerTypes
<1>6. ASSUME ~late, NEW q \in M!Process, M!Alive(q)'
      PROVE  proc = q /\ ~quit /\ (M!Settled' => DashFits(q)')
  <2>1. proc = q /\ ~quit /\ (M!Settled => DashFits(q)) /\ proc = p
    BY <1>1, <1>3, <1>6 DEF ManagerInv, WindowFits
  <2>2. QED
    BY <1>5, <2>1, RunsFits DEF ManagerInv
<1>7. QED
  BY <1>1, <1>2, <1>4, <1>6 DEF ManagerInv, WindowFits

\* A process that goes leaves nothing, and when it was the window's no other lives.
LEMMA GoneLeaves ==
  ASSUME ManagerInv, NEW p \in M!Process, M!Alive(p), M!Gone(p)
  PROVE  /\ phase' \in [M!Process -> {"unborn", "starting", "ready", "closing", "dead"}]
         /\ pipe' \in [M!Process -> Seq(Command)]
         /\ dash' \in [M!Process -> {"off", "on", "stopping"}]
         /\ stopper' \in [M!Process -> SUBSET {"stdin", "telegram", "main"}]
         /\ changed' \subseteq M!Process
         /\ \A q \in M!Process : ProcessRests(q)'
         /\ \A q \in M!Process : phase'[q] = IF q = p THEN "dead" ELSE phase[q]
         /\ ~late => \A q \in M!Process : ~M!Alive(q)'
<1>1. /\ phase' \in [M!Process -> {"unborn", "starting", "ready", "closing", "dead"}]
      /\ pipe' \in [M!Process -> Seq(Command)]
      /\ dash' \in [M!Process -> {"off", "on", "stopping"}]
      /\ stopper' \in [M!Process -> SUBSET {"stdin", "telegram", "main"}]
      /\ changed' \subseteq M!Process
      /\ \A q \in M!Process : phase'[q] = IF q = p THEN "dead" ELSE phase[q]
  BY EmptySeq DEF M!Gone, ManagerInv, ManagerTypes
<1>2. ASSUME NEW q \in M!Process PROVE ProcessRests(q)'
  <2>1. ProcessRests(q)
    BY DEF ManagerInv
  <2>2. QED
    BY <2>1 DEF ProcessRests, M!Gone, ManagerInv, ManagerTypes
<1>3. ASSUME ~late, NEW q \in M!Process PROVE ~M!Alive(q)'
  BY <1>1, <1>3 DEF ManagerInv, WindowFits, M!Alive
<1>4. QED
  BY <1>1, <1>2, <1>3

LEMMA EndStep ==
  ASSUME ManagerInv, NEW p \in M!Process, M!Die(p) \/ M!Exit(p)
  PROVE  ManagerInv'
<1>1. /\ M!Alive(p) /\ M!Gone(p)
      /\ UNCHANGED <<proc, shown, dashShown, quit, late, readers, posts>>
  BY DEF M!Die, M!Exit, M!guiVars, M!Alive
<1>2. ManagerTypes' /\ \A q \in M!Process : ProcessRests(q)'
  BY <1>1, GoneLeaves DEF ManagerInv, ManagerTypes
<1>3. ReportsFit'
  BY <1>1, GoneLeaves DEF ManagerInv, ReportsFit, ManagerTypes
<1>4. ~late => WindowFits'
  BY <1>1, GoneLeaves DEF WindowFits
<1>5. QED
  BY <1>1, <1>2, <1>3, <1>4 DEF ManagerInv

\* An end is reported to the window, which forgets its process.
LEMMA ReportSteps ==
  ASSUME ManagerInv, NEW p \in M!Process, M!OutputEnds(p) \/ M!OnServerStopped(p)
  PROVE  ManagerInv'
<1>1. /\ UNCHANGED <<phase, pipe, dash, stopper, changed, quit>>
      /\ \A q : ProcessRests(q)' = ProcessRests(q)
      /\ \A q : M!Alive(q)' = M!Alive(q)
  BY DEF M!OutputEnds, M!OnServerStopped, M!serverVars, M!guiVars, ProcessRests, M!Alive
<1>2. CASE M!OutputEnds(p)
  <2>1. /\ UNCHANGED <<proc, shown, dashShown, late>> /\ phase[p] = "dead" /\ p \in readers
        /\ readers' = readers \ {p} /\ posts' = posts \cup {p}
    BY <1>2 DEF M!OutputEnds, M!guiVars
  <2>2. ManagerTypes' /\ ReportsFit'
    BY <1>1, <2>1 DEF ManagerInv, ManagerTypes, ReportsFit
  <2>3. ~M!Settled'
    BY <2>1 DEF M!Settled
  <2>4. ~late => WindowFits'
    BY <1>1, <2>1, <2>3 DEF ManagerInv, WindowFits
  <2>5. QED
    BY <1>1, <2>1, <2>2, <2>4 DEF ManagerInv
<1>3. CASE M!OnServerStopped(p)
  <2>1. /\ p \in posts /\ posts' = posts \ {p} /\ readers' = readers
        /\ proc' = 0 /\ shown' = FALSE /\ dashShown' = FALSE
        /\ late' = (late \/ proc \notin {0, p})
    BY <1>3 DEF M!OnServerStopped, M!ShowStopped, M!None
  <2>2. ManagerTypes'
    BY <1>1, <2>1 DEF ManagerInv, ManagerTypes
  <2>3. ReportsFit'
    BY <1>1, <2>1 DEF ManagerInv, ManagerTypes, ReportsFit
  <2>4. ASSUME ~late', NEW q \in M!Process PROVE ~M!Alive(q)'
    <3>1. late \in BOOLEAN /\ late' = (late \/ proc \notin {0, p})
      BY <2>1 DEF ManagerInv, ManagerTypes
    <3>2. ~late /\ proc \in {0, p}
      BY <2>4, <3>1, Zenon
    <3>3. phase[p] = "dead" /\ 0 \notin M!Process
      BY <2>1 DEF ManagerInv, ReportsFit, M!Process
    <3>4. M!Alive(q) => proc = q
      BY <3>2 DEF ManagerInv, WindowFits
    <3>5. QED
      BY <1>1, <3>2, <3>4, <3>3 DEF M!Alive
  <2>5. ~late' => WindowFits'
    BY <2>4 DEF WindowFits
  <2>6. QED
    BY <1>1, <2>2, <2>3, <2>5 DEF ManagerInv
<1>4. QED
  BY <1>2, <1>3

LEMMA NothingStep ==
  ASSUME ManagerInv,
         UNCHANGED <<phase, pipe, dash, stopper, changed, proc, shown, dashShown, quit, late,
                     readers, posts>>
  PROVE  ManagerInv'
<1>1. ManagerTypes' /\ ReportsFit'
  BY DEF ManagerInv, ManagerTypes, ReportsFit
<1>2. \A p : /\ ProcessRests(p)' = ProcessRests(p) /\ M!Alive(p)' = M!Alive(p)
             /\ DashFits(p)' = DashFits(p) /\ M!Settled' = M!Settled
  BY DEF ProcessRests, M!Alive, DashFits, ShownCommand, M!Settled
<1>3. QED
  BY <1>1, <1>2 DEF ManagerInv, WindowFits

\* A server is started by the window when none lives.
LEMMA StartStep ==
  ASSUME ManagerInv, ~quit, NEW t, M!StartServer(t) PROVE ManagerInv'
<1>1. CASE M!IsServerRunning /\ timers' = t
           /\ UNCHANGED <<M!serverVars, proc, shown, dashShown, quit, late, readers, posts>>
  BY <1>1, NothingStep DEF M!serverVars
<1>2. ASSUME NEW p \in M!Process, ~M!IsServerRunning, phase[p] = "unborn",
             phase' = [phase EXCEPT ![p] = "starting"], proc' = p,
             readers' = readers \cup {p}, shown' = TRUE,
             UNCHANGED <<pipe, dash, stopper, changed, dashShown, quit, late, posts>>
      PROVE  ManagerInv'
  <2>1. ManagerTypes'
    BY <1>2 DEF ManagerInv, ManagerTypes
  <2>2. ASSUME NEW q \in M!Process PROVE ProcessRests(q)'
    <3>1. ProcessRests(q) /\ ProcessRests(p)
      BY DEF ManagerInv
    <3>2. QED
      BY <1>2, <3>1 DEF ProcessRests, ManagerInv, ManagerTypes
  <2>3. ReportsFit'
    <3>1. p # 0
      BY DEF M!Process
    <3>2. QED
      BY <1>2, <3>1 DEF ManagerInv, ManagerTypes, ReportsFit
  <2>4. ASSUME ~late, NEW q \in M!Process, M!Alive(q)'
        PROVE  proc' = q /\ ~quit' /\ (M!Settled' => DashFits(q)')
    <3>1. q = p
      <4>1. ~M!Alive(q)
        BY <1>2, <2>4 DEF ManagerInv, WindowFits, M!IsServerRunning, M!Process, M!None
      <4>2. QED
        BY <1>2, <2>4, <4>1 DEF M!Alive, ManagerInv, ManagerTypes
    <3>2. ASSUME M!Settled' PROVE ~dashShown
      <4>1. posts = {} /\ \A r \in readers : M!Alive(r)'
        BY <1>2, <3>2 DEF M!Settled
      <4>2. \A r \in readers : r # p /\ M!Alive(r)
        BY <1>2, <4>1 DEF M!Alive, ManagerInv, ManagerTypes, ReportsFit
      <4>3. proc = 0
        BY <1>2, <4>1, <4>2 DEF ManagerInv, ReportsFit, M!IsServerRunning, M!None
      <4>4. QED
        BY <4>3 DEF ManagerInv, ReportsFit
    <3>3. pipe'[p] = <<>> /\ dash'[p] = "off"
      BY <1>2 DEF ManagerInv, ProcessRests
    <3>4. QED
      BY <1>2, <3>1, <3>2, <3>3 DEF DashFits
  <2>5. QED
    BY <1>2, <2>1, <2>2, <2>3, <2>4 DEF ManagerInv, WindowFits
<1>3. QED
  BY <1>1, <1>2 DEF M!StartServer

\* The window stops its server, or has none that lives.
LEMMA StopStep ==
  ASSUME ManagerInv, M!StopServer, quit' \in {quit, TRUE}, UNCHANGED <<late, readers, posts>>
  PROVE  ManagerInv'
<1>1. CASE M!IsServerRunning
  <2>1. /\ proc \in M!Process /\ M!Alive(proc) /\ M!Gone(proc) /\ proc' = 0
        /\ shown' = FALSE /\ dashShown' = FALSE
    BY <1>1 DEF M!StopServer, M!ShowStopped, M!IsServerRunning, M!None, ManagerInv, ManagerTypes
  <2>2. ManagerTypes' /\ \A q \in M!Process : ProcessRests(q)'
    BY <2>1, GoneLeaves DEF ManagerInv, ManagerTypes
  <2>3. ReportsFit'
    BY <2>1, GoneLeaves DEF ManagerInv, ReportsFit, ManagerTypes
  <2>4. ~late => WindowFits'
    BY <2>1, GoneLeaves DEF WindowFits
  <2>5. QED
    BY <2>2, <2>3, <2>4 DEF ManagerInv
<1>2. CASE ~M!IsServerRunning
  <2>1. UNCHANGED <<phase, pipe, dash, stopper, changed, proc, shown, dashShown>>
    BY <1>2 DEF M!StopServer, M!serverVars
  <2>2. ManagerTypes' /\ ReportsFit'
    BY <2>1 DEF ManagerInv, ManagerTypes, ReportsFit
  <2>3. \A p \in M!Process : ProcessRests(p)'
    BY <2>1 DEF ManagerInv, ProcessRests
  <2>4. ASSUME ~late, NEW q \in M!Process PROVE ~M!Alive(q)'
    <3>1. ~M!Alive(q)
      BY <1>2, <2>4 DEF ManagerInv, WindowFits, M!IsServerRunning, M!Process, M!None
    <3>2. QED
      BY <2>1, <3>1 DEF M!Alive
  <2>5. QED
    BY <2>2, <2>3, <2>4 DEF ManagerInv, WindowFits
<1>3. QED
  BY <1>1, <1>2

\* A command goes down the pipe, and the window shows it.
LEMMA SendStep ==
  ASSUME ManagerInv, NEW command \in Command, M!Send(command), proc # 0,
         dashShown' = (command = "start"),
         UNCHANGED <<phase, dash, stopper, changed, proc, shown, quit, late, readers, posts>>
  PROVE  ManagerInv'
<1>1. \A q \in M!Process : M!Alive(q)' = M!Alive(q)
  BY DEF M!Alive
<1>2. \A q \in M!Process :
        pipe'[q] = IF q = proc /\ M!Alive(q) THEN Append(pipe[q], command) ELSE pipe[q]
  BY DEF M!Send, M!IsServerRunning, M!None, ManagerInv, ManagerTypes
<1>3. \A q \in M!Process : /\ Append(pipe[q], command) \in Seq(Command)
                            /\ Append(pipe[q], command)[Len(Append(pipe[q], command))] = command
  BY AppendProperties DEF ManagerInv, ManagerTypes
<1>4. pipe' \in [M!Process -> Seq(Command)]
  <2>1. /\ M!IsServerRunning => /\ proc \in M!Process
                                /\ pipe' = [pipe EXCEPT ![proc] = Append(pipe[proc], command)]
        /\ ~M!IsServerRunning => pipe' = pipe
    BY DEF M!Send, M!IsServerRunning, M!None, ManagerInv, ManagerTypes
  <2>2. QED
    BY <1>3, <2>1 DEF ManagerInv, ManagerTypes
<1>5. ManagerTypes' /\ ReportsFit'
  BY <1>4 DEF ManagerInv, ManagerTypes, ReportsFit
<1>6. ASSUME NEW q \in M!Process PROVE ProcessRests(q)'
  <2>1. ProcessRests(q)
    BY DEF ManagerInv
  <2>2. QED
    BY <1>2, <2>1 DEF ProcessRests, M!Alive
<1>7. ASSUME ~late, NEW q \in M!Process, M!Alive(q)'
      PROVE  proc' = q /\ ~quit' /\ (M!Settled' => DashFits(q)')
  <2>1. proc = q /\ ~quit /\ M!Alive(q)
    BY <1>1, <1>7 DEF ManagerInv, WindowFits
  <2>2. pipe'[q] = Append(pipe[q], command)
    BY <1>2, <2>1
  <2>3. ShownCommand' = command
    BY DEF ShownCommand, Command
  <2>4. pipe'[q] # <<>>
    BY <2>2, AppendProperties, EmptySeq DEF ManagerInv, ManagerTypes
  <2>5. pipe'[q][Len(pipe'[q])] = ShownCommand'
    BY <1>3, <2>2, <2>3
  <2>6. DashFits(q)'
    BY <2>4, <2>5 DEF DashFits
  <2>7. QED
    BY <2>1, <2>6
<1>8. QED
  BY <1>5, <1>6, <1>7 DEF ManagerInv, WindowFits

LEMMA DashSteps == ASSUME ManagerInv, M!ClickDashboard \/ M!DashboardTimer PROVE ManagerInv'
<1>1. UNCHANGED <<phase, dash, stopper, changed, proc, shown, quit, late, readers, posts>>
  BY DEF M!ClickDashboard, M!DashboardTimer
<1>2. CASE M!ClickDashboard
  <2> DEFINE command == IF dashShown THEN "stop" ELSE "start"
  <2>1. command \in Command /\ M!Send(command) /\ dashShown' = (command = "start") /\ proc # 0
    BY <1>2 DEF M!ClickDashboard, Command, ManagerInv, ManagerTypes, ReportsFit
  <2> HIDE DEF command
  <2>2. QED
    BY <1>1, <2>1, SendStep
<1>3. CASE M!DashboardTimer /\ M!IsServerRunning /\ ~dashShown
  <2>1. "start" \in Command /\ M!Send("start") /\ dashShown' = ("start" = "start") /\ proc # 0
    BY <1>3 DEF M!DashboardTimer, Command, M!IsServerRunning, M!None
  <2>2. QED
    BY <1>1, <2>1, SendStep
<1>4. CASE M!DashboardTimer /\ ~(M!IsServerRunning /\ ~dashShown)
  BY <1>1, <1>4, NothingStep DEF M!DashboardTimer
<1>5. QED
  BY <1>2, <1>3, <1>4

LEMMA ManagerStep == ManagerInv /\ [M!Next]_(M!vars) => ManagerInv'
<1> SUFFICES ASSUME ManagerInv, [M!Next]_(M!vars) PROVE ManagerInv'
  OBVIOUS
<1>1. ASSUME NEW p \in M!Process,
             \/ M!Ready(p) \/ M!HandleCommand(p) \/ M!Telegram(p) \/ M!DashboardStopped(p)
             \/ M!Interrupt(p)
      PROVE  ManagerInv'
  BY <1>1, RunsStep DEF Runs
<1>2. ASSUME NEW p \in M!Process, M!Die(p) \/ M!Exit(p) PROVE ManagerInv'
  BY <1>2, EndStep
<1>3. ASSUME NEW p \in M!Process, M!OutputEnds(p) \/ M!OnServerStopped(p) PROVE ManagerInv'
  BY <1>3, ReportSteps
<1>4. CASE M!ClickStart \/ M!StartTimer
  BY <1>4, StartStep DEF M!ClickStart, M!StartTimer
<1>5. CASE M!ClickStop \/ M!ClickRestart \/ M!Quit
  BY <1>5, StopStep DEF M!ClickStop, M!ClickRestart, M!Quit
<1>6. CASE M!ClickDashboard \/ M!DashboardTimer
  BY <1>6, DashSteps
<1>7. CASE M!StatusTimer \/ UNCHANGED M!vars
  BY <1>7, NothingStep DEF M!StatusTimer, M!vars, M!serverVars, M!guiVars
<1>8. QED
  BY <1>1, <1>2, <1>3, <1>4, <1>5, <1>6, <1>7 DEF M!Next

\* The one process that lives is the one the window can stop, and when all is reported and done
\* its dashboard runs as the window shows, unless the end of an earlier process was reported after
\* its start (app.py:221-324, server_tab.py:241-301, run_server.py:383-482).
THEOREM ServerIsKnown == M!Spec => []ServerKnown
<1>1. M!Init => ManagerInv
  <2> SUFFICES ASSUME M!Init PROVE ManagerInv
    OBVIOUS
  <2>1. ManagerTypes /\ ReportsFit
    BY EmptySeq DEF M!Init, ManagerTypes, ReportsFit, M!None, M!Process
  <2>2. \A p \in M!Process : ProcessRests(p) /\ ~M!Alive(p)
    BY DEF M!Init, ProcessRests, M!Alive
  <2>3. QED
    BY <2>1, <2>2 DEF ManagerInv, WindowFits
<1>2. ManagerInv => ServerKnown
  <2> SUFFICES ASSUME ManagerInv, ~late, NEW p \in M!Process, M!Alive(p)
               PROVE  /\ proc = p /\ ~quit
                      /\ phase[p] = "ready" /\ pipe[p] = <<>> /\ dash[p] # "stopping"
                         /\ p \notin changed /\ M!Settled
                         => (dashShown <=> dash[p] = "on")
    BY DEF ServerKnown, M!ServerKnown
  <2>1. proc = p /\ ~quit /\ (M!Settled => DashFits(p))
    BY DEF ManagerInv, WindowFits
  <2>2. QED
    BY <2>1 DEF DashFits
<1>3. QED
  BY <1>1, <1>2, ManagerStep, PTL DEF M!Spec

-----------------------------------------------------------------------------
\* A sequence without one of its places.
Without(s, i) == SubSeq(s, 1, i - 1) \o SubSeq(s, i + 1, Len(s))

LEMMA RemovedPlaces ==
  ASSUME NEW S, NEW s \in Seq(S), NEW i \in 1 .. Len(s)
  PROVE  /\ Without(s, i) \in Seq(S) /\ Len(Without(s, i)) = Len(s) - 1
         /\ \A j \in 1 .. Len(s) - 1 :
              Without(s, i)[j] = IF j < i THEN s[j] ELSE s[j + 1]
<1> DEFINE f == SubSeq(s, 1, i - 1)
           b == SubSeq(s, i + 1, Len(s))
<1>1. Len(s) \in Nat /\ \A j \in 1 .. Len(s) : s[j] \in S
  BY LenProperties, ElementOfSeq
<1>2. f \in Seq(S) /\ Len(f) = i - 1 /\ \A j \in 1 .. i - 1 : f[j] = s[j]
  BY <1>1, SubSeqProperties
<1>3. b \in Seq(S) /\ Len(b) = Len(s) - i /\ \A j \in 1 .. Len(s) - i : b[j] = s[i + j]
  <2>1. i + 1 \in Int /\ Len(s) \in Int /\ \A j \in i + 1 .. Len(s) : s[j] \in S
    BY <1>1
  <2>2. /\ b \in Seq(S) /\ Len(b) = IF i + 1 <= Len(s) THEN Len(s) - (i + 1) + 1 ELSE 0
        /\ \A j \in 1 .. Len(s) - (i + 1) + 1 : b[j] = s[i + 1 + j - 1]
    BY <2>1, SubSeqProperties
  <2>3. QED
    BY <1>1, <2>2
<1>4. Without(s, i) = f \o b
  BY DEF Without
<1> HIDE DEF f, b
<1>5. /\ f \o b \in Seq(S) /\ Len(f \o b) = Len(f) + Len(b)
      /\ \A j \in 1 .. Len(f) + Len(b) :
           (f \o b)[j] = IF j <= Len(f) THEN f[j] ELSE b[j - Len(f)]
  BY <1>2, <1>3, ConcatProperties
<1>6. ASSUME NEW j \in 1 .. Len(s) - 1
      PROVE  (f \o b)[j] = IF j < i THEN s[j] ELSE s[j + 1]
  <2>1. CASE j < i
    BY <1>1, <1>2, <1>3, <1>5, <2>1
  <2>2. CASE j >= i
    <3>1. j - (i - 1) \in 1 .. Len(s) - i /\ i + (j - (i - 1)) = j + 1
      BY <1>1, <2>2
    <3>2. QED
      BY <1>1, <1>2, <1>3, <1>5, <2>2, <3>1
  <2>3. j < i \/ j >= i
    BY <1>1
  <2>4. QED
    BY <2>1, <2>2, <2>3
<1>7. QED
  BY <1>1, <1>2, <1>3, <1>4, <1>5, <1>6


\* The others are still there.
LEMMA OthersRemain ==
  ASSUME NEW S, NEW s \in Seq(S), NEW i \in 1 .. Len(s), NEW k \in 1 .. Len(s), k # i
  PROVE  \E j \in DOMAIN Without(s, i) : Without(s, i)[j] = s[k]
<1> DEFINE t == Without(s, i)
           n == IF k < i THEN k ELSE k - 1
<1>1. /\ Len(s) \in Nat /\ Len(t) = Len(s) - 1 /\ t \in Seq(S)
      /\ \A j \in 1 .. Len(s) - 1 : t[j] = IF j < i THEN s[j] ELSE s[j + 1]
  BY RemovedPlaces, LenProperties
<1> HIDE DEF t
<1>2. n \in 1 .. Len(s) - 1 /\ (IF n < i THEN n ELSE n + 1) = k
  BY <1>1
<1>3. t[n] = s[k]
  BY <1>1, <1>2
<1>4. DOMAIN t = 1 .. Len(s) - 1
  BY <1>1, LenProperties
<1> HIDE DEF n
<1>5. QED
  BY <1>2, <1>3, <1>4 DEF t

(***************************************************************************)
(* The windows that deploy.  As long as nothing came between a look and    *)
(* its use, the list is of the agent chosen, or that agent's is on its     *)
(* way; and so it is with what was clicked.                                *)
(***************************************************************************)

Choice == Target \cup {"none", "(auto)"}

\* One agent, or none, is meant by a choice.
Meant(a) == D!Resolved(a)
Agrees(of, a) == of \in {"none", Meant(a)} \/ Meant(a) = "none"

ListFits == Agrees(listed, chosen) \/ \E i \in DOMAIN asks : asks[i] = Meant(chosen)

FileLists == {0} \cup (0 .. FileBound)
Jobs == [do : {"deploy", "ctrl", "exec", "rollback", "direct"}, at : {"asks", "sends", "zips", "waits"},
         to : Choice, of : Choice \cup {"later"}, asked : FileLists, got : Choice]

DeployTypes ==
  /\ kind \in D!Kind
  /\ first \in Target \cup {"none"}
  /\ chosen \in Target \cup {"(auto)"}
  /\ listed \in Target \cup {"none"}
  /\ asks \in Seq(Target)
  /\ files \in FileLists
  /\ jobs \subseteq Jobs
  /\ kind = "process" => asks = <<>>

\* What a job has of the window is still what the window has.
JobFits(j) ==
  /\ j.of = "later" => j.at = "sends" /\ j.to = chosen /\ kind = "process"
  /\ j.of # "later" => Agrees(j.of, j.to)
  /\ j.do \in {"deploy", "direct"} /\ j.at # "waits" => j.asked = files
  /\ j.at = "waits" => j.got = Meant(j.to)

DeployInv ==
  /\ DeployTypes
  /\ SentAsShown
  /\ tooLate = {} => ListFits /\ \A j \in jobs : JobFits(j)

LEMMA MeantIs ==
  ASSUME DeployTypes
  PROVE  /\ \A a \in Target \cup {"none"} : Meant(a) = a
         /\ Meant("(auto)") = first
         /\ \A a \in Choice : Meant(a) \in Target \cup {"none"} /\ Meant(Meant(a)) = Meant(a)
BY TargetAssumption DEF Meant, D!Resolved, D!Auto, DeployTypes, Choice

\* The first agent is another one.
LEMMA FirstStep == ASSUME DeployInv, D!FirstChanges PROVE DeployInv'
<1>1. DeployTypes'
  BY DEF DeployInv, DeployTypes, D!FirstChanges, D!None
<1>2. SentAsShown'
  BY DEF D!FirstChanges, SentAsShown, D!SentAsShown, D!Nothing
<1>3. ASSUME tooLate' = {}
      PROVE  ListFits' /\ \A j \in jobs : JobFits(j)'
  <2>1. /\ tooLate = {}
        /\ chosen = "(auto)" => listed = "none" /\ asks = <<>>
        /\ \A j \in jobs : j.to # "(auto)"
    BY <1>3 DEF D!FirstChanges, D!Late, D!None, D!Auto
  <2>2. \A a : a # "(auto)" => Meant(a)' = Meant(a)
    BY DEF Meant, D!Resolved, D!Auto
  <2>3. ListFits'
    BY <2>1, <2>2 DEF DeployInv, ListFits, Agrees, D!FirstChanges
  <2>4. ASSUME NEW j \in jobs PROVE JobFits(j)'
    <3>1. JobFits(j) /\ Meant(j.to)' = Meant(j.to)
      BY <2>1, <2>2 DEF DeployInv
    <3>2. QED
      BY <3>1 DEF JobFits, Agrees, D!FirstChanges
  <2>5. QED
    BY <2>3, <2>4
<1>4. QED
  BY <1>1, <1>2, <1>3 DEF DeployInv, D!FirstChanges

\* What is sent is forgotten, and whatever else happens is no matter of it.
LEMMA NothingSent == ASSUME sent' = D!Nothing PROVE SentAsShown'
BY DEF SentAsShown, D!SentAsShown, D!Nothing, D!None

\* A fetch goes to the end of those under way.
LEMMA FetchedFits ==
  ASSUME DeployTypes, NEW a \in Target \cup {"none"}
  PROVE  /\ D!Fetched(a) \in Seq(Target)
         /\ a = "none" \/ \E i \in DOMAIN D!Fetched(a) : D!Fetched(a)[i] = a
<1>1. CASE a = "none"
  BY <1>1 DEF D!Fetched, D!None, DeployTypes
<1>2. CASE a # "none"
  <2>1. D!Fetched(a) = Append(asks, a) /\ asks \in Seq(Target) /\ a \in Target
    BY <1>2 DEF D!Fetched, D!None, DeployTypes
  <2>2. /\ Append(asks, a) \in Seq(Target) /\ Len(asks) \in Nat
        /\ Len(Append(asks, a)) = Len(asks) + 1
        /\ Append(asks, a)[Len(asks) + 1] = a
        /\ DOMAIN Append(asks, a) = 1 .. Len(asks) + 1
    BY <2>1, AppendProperties, LenProperties
  <2>3. QED
    BY <2>1, <2>2
<1>3. QED
  BY <1>1, <1>2

LEMMA SelectStep ==
  ASSUME DeployInv, NEW a \in Target \cup {"(auto)"}, D!Select(a)
  PROVE  DeployInv'
<1>1. /\ kind' = kind /\ first' = first /\ files' = files /\ jobs' = jobs /\ chosen' = a
      /\ sent' = D!Nothing
      /\ \A b : Meant(b)' = Meant(b)
  BY DEF D!Select, D!SelectAgent, Meant, D!Resolved
<1>2. Meant(a) \in Target \cup {"none"} /\ (a # "(auto)" => Meant(a) = a)
  BY MeantIs DEF DeployInv, Choice
<1>3. /\ listed' \in Target \cup {"none"} /\ asks' \in Seq(Target)
      /\ kind = "process" => asks' = <<>>
      /\ \/ listed' \in {"none", Meant(a)}
         \/ Meant(a) = "none"
         \/ \E i \in DOMAIN asks' : asks'[i] = Meant(a)
  <2>1. CASE kind = "process"
    <3>1. asks' = asks /\ asks = <<>> /\ asks \in Seq(Target)
      BY <2>1 DEF D!Select, D!SelectAgent, D!SelectProcesses, DeployInv, DeployTypes
    <3>2. listed' \in {"none", Meant(a)} /\ listed' \in Target \cup {"none"}
      BY <2>1, <1>2 DEF D!Select, D!SelectAgent, D!SelectProcesses, D!None, D!Auto
    <3>3. QED
      BY <3>1, <3>2
  <2>2. CASE kind \in {"folder", "command"}
    <3>1. listed' = listed /\ asks' = D!Fetched(Meant(a))
      BY <2>2 DEF D!Select, D!SelectAgent, Meant
    <3>2. QED
      BY <2>2, <3>1, <1>2, FetchedFits DEF DeployInv, DeployTypes
  <2>3. CASE kind = "test" /\ a = "(auto)"
    <3>1. listed' = "none" /\ asks' = asks
      BY <2>3 DEF D!Select, D!SelectAgent, D!SelectTested, D!None, D!Auto
    <3>2. QED
      BY <2>3, <3>1 DEF DeployInv, DeployTypes
  <2>4. CASE kind = "test" /\ a # "(auto)"
    <3>1. listed' = listed /\ asks' = D!Fetched(Meant(a))
      BY <2>4, <1>2 DEF D!Select, D!SelectAgent, D!SelectTested, D!Auto
    <3>2. QED
      BY <2>4, <3>1, <1>2, FetchedFits DEF DeployInv, DeployTypes
  <2>5. QED
    BY <2>1, <2>2, <2>3, <2>4 DEF DeployInv, DeployTypes, D!Kind
<1>4. DeployTypes'
  BY <1>1, <1>3 DEF DeployInv, DeployTypes
<1>5. ASSUME tooLate' = {}
      PROVE  ListFits' /\ \A j \in jobs : JobFits(j)'
  <2>1. tooLate = {} /\ ~\E j \in jobs : j.of = "later"
    BY <1>5 DEF D!Select, D!Late
  <2>2. ListFits'
    BY <1>1, <1>3 DEF ListFits, Agrees
  <2>3. ASSUME NEW j \in jobs PROVE JobFits(j)'
    <3>1. JobFits(j) /\ j.of # "later"
      BY <2>1 DEF DeployInv
    <3>2. QED
      BY <3>1, <1>1 DEF JobFits, Agrees
  <2>4. QED
    BY <2>2, <2>3
<1>6. QED
  BY <1>1, <1>4, <1>5, NothingSent DEF DeployInv

LEMMA FetchStep == ASSUME DeployInv, D!Fetch PROVE DeployInv'
<1>1. /\ UNCHANGED <<kind, first, chosen, listed, files, jobs, tooLate>> /\ sent' = D!Nothing
      /\ asks' = D!Fetched(Meant(chosen)) /\ kind # "process"
      /\ \A b : Meant(b)' = Meant(b)
  BY DEF D!Fetch, Meant, D!Resolved
<1>2. /\ Meant(chosen) \in Target \cup {"none"} /\ asks' \in Seq(Target)
      /\ Meant(chosen) = "none" \/ \E i \in DOMAIN asks' : asks'[i] = Meant(chosen)
  BY <1>1, MeantIs, FetchedFits DEF DeployInv, DeployTypes, Choice
<1>3. DeployTypes'
  BY <1>1, <1>2 DEF DeployInv, DeployTypes
<1>4. ListFits'
  BY <1>1, <1>2 DEF ListFits, Agrees
<1>5. ASSUME NEW j \in jobs, JobFits(j) PROVE JobFits(j)'
  BY <1>1, <1>5 DEF JobFits, Agrees
<1>6. QED
  BY <1>1, <1>3, <1>4, <1>5, NothingSent DEF DeployInv

\* A list that comes, or does not.
LEMMA ListSteps ==
  ASSUME DeployInv, NEW i, D!ListComes(i) \/ D!ListFails(i)
  PROVE  DeployInv'
<1>1. /\ UNCHANGED <<kind, first, chosen, files, jobs>> /\ sent' = D!Nothing
      /\ i \in DOMAIN asks /\ asks' = Without(asks, i)
      /\ \A b : Meant(b)' = Meant(b)
  BY DEF D!ListComes, D!ListFails, Meant, D!Resolved, D!RemoveAt, Without
<1>2. asks \in Seq(Target) /\ i \in 1 .. Len(asks) /\ asks[i] \in Target
  BY <1>1, ElementOfSeq, LenProperties DEF DeployInv, DeployTypes
<1>3. asks' \in Seq(Target)
  BY <1>1, <1>2, RemovedPlaces
<1>4. listed' \in Target \cup {"none"} /\ kind # "process"
  BY <1>1, <1>2, EmptySeq DEF D!ListComes, D!ListFails, D!None, DeployInv, DeployTypes
<1>5. DeployTypes'
  BY <1>1, <1>3, <1>4 DEF DeployInv, DeployTypes
<1>6. ASSUME tooLate' = {} PROVE tooLate = {} /\ ListFits'
  <2>1. CASE D!ListComes(i)
    BY <1>1, <1>6, <2>1 DEF D!ListComes, D!Late, D!None, Meant, ListFits, Agrees
  <2>2. CASE D!ListFails(i)
    <3>1. /\ tooLate = {} /\ listed' = listed /\ listed \in {"none", asks[i]}
          /\ ListFits
      BY <1>6, <2>2 DEF D!ListFails, D!Late, D!None, DeployInv
    <3>2. CASE Agrees(listed, chosen)
      BY <1>1, <3>1, <3>2 DEF ListFits, Agrees
    <3>3. CASE \E k \in DOMAIN asks : asks[k] = Meant(chosen)
      <4>1. PICK k \in 1 .. Len(asks) : asks[k] = Meant(chosen)
        BY <1>2, <3>3, LenProperties
      <4>2. CASE k = i
        BY <1>1, <3>1, <4>1, <4>2 DEF ListFits, Agrees
      <4>3. CASE k # i
        <5>1. \E j \in DOMAIN asks' : asks'[j] = asks[k]
          BY <1>1, <1>2, <4>1, <4>3, OthersRemain
        <5>2. Meant(chosen)' = asks[k]
          BY <1>1, <4>1
        <5>3. QED
          BY <3>1, <5>1, <5>2 DEF ListFits
      <4>4. QED
        BY <4>2, <4>3
    <3>4. QED
      BY <3>1, <3>2, <3>3 DEF ListFits
  <2>3. QED
    BY <2>1, <2>2
<1>7. ASSUME NEW j \in jobs, JobFits(j) PROVE JobFits(j)'
  BY <1>1, <1>7 DEF JobFits, Agrees
<1>8. QED
  BY <1>1, <1>5, <1>6, <1>7, NothingSent DEF DeployInv

LEMMA FilesChange == ASSUME DeployInv, D!ChangeFiles PROVE DeployInv'
<1>1. /\ UNCHANGED <<kind, first, chosen, listed, asks, jobs>> /\ sent' = D!Nothing
      /\ \A b : Meant(b)' = Meant(b)
      /\ files' \in 0 .. FileBound /\ ~\E j \in jobs : j.at = "asks"
  BY DEF D!ChangeFiles, Meant, D!Resolved
<1>2. DeployTypes'
  BY <1>1 DEF DeployInv, DeployTypes, FileLists
<1>3. ASSUME tooLate' = {} PROVE ListFits' /\ \A j \in jobs : JobFits(j)'
  <2>1. /\ tooLate = {}
        /\ ~\E j \in jobs : j.do \in {"deploy", "direct"} /\ j.at \in {"zips", "sends"}
    BY <1>3 DEF D!ChangeFiles, D!Late
  <2>2. ListFits'
    BY <1>1, <2>1 DEF DeployInv, ListFits, Agrees
  <2>3. ASSUME NEW j \in jobs PROVE JobFits(j)'
    <3>1. JobFits(j) /\ j.at \in {"asks", "sends", "zips", "waits"}
      BY <2>1 DEF DeployInv, DeployTypes, Jobs
    <3>2. QED
      BY <1>1, <2>1, <3>1 DEF JobFits, Agrees
  <2>4. QED
    BY <2>2, <2>3
<1>4. QED
  BY <1>1, <1>2, <1>3, NothingSent DEF DeployInv

\* A click: what it takes from the window fits, when no list is under way.
LEMMA ClickStep ==
  ASSUME DeployInv, NEW j \in Jobs, D!Begin(j),
         ListFits /\ asks = <<>> => JobFits(j)
  PROVE  DeployInv'
<1>1. /\ UNCHANGED <<kind, first, chosen, listed, asks, files>> /\ sent' = D!Nothing
      /\ \A b : Meant(b)' = Meant(b) /\ jobs' = jobs \cup {j}
  BY DEF D!Begin, Meant, D!Resolved
<1>2. DeployTypes'
  BY <1>1 DEF DeployInv, DeployTypes
<1>3. ASSUME tooLate' = {} PROVE ListFits' /\ \A k \in jobs' : JobFits(k)'
  <2>1. tooLate = {} /\ asks = <<>>
    BY <1>3 DEF D!Begin, D!Late
  <2>2. ListFits'
    BY <1>1, <2>1 DEF DeployInv, ListFits, Agrees
  <2>3. ASSUME NEW k \in jobs' PROVE JobFits(k)'
    <3>1. JobFits(k)
      BY <1>1, <2>1 DEF DeployInv
    <3>2. QED
      BY <1>1, <3>1 DEF JobFits, Agrees
  <2>4. QED
    BY <2>2, <2>3
<1>4. QED
  BY <1>1, <1>2, <1>3, NothingSent DEF DeployInv

\* What each of the buttons takes.
LEMMA ClickSteps ==
  ASSUME DeployInv,
         D!Deploy \/ D!Control \/ D!Execute \/ D!Rollback \/ D!AskDeploy \/ D!AskDirect
  PROVE  DeployInv'
<1>1. /\ chosen \in Choice /\ listed \in Choice /\ files \in FileLists /\ "none" \in Choice
      /\ Meant(chosen) \in Choice /\ Meant(Meant(chosen)) = Meant(chosen)
      /\ listed # "later"
  BY MeantIs, TargetAssumption DEF DeployInv, DeployTypes, Choice
<1>2. ASSUME ListFits, asks = <<>> PROVE Agrees(listed, chosen)
  BY <1>2 DEF ListFits
<1>3. CASE D!Deploy
  <2> DEFINE j == D!Job("deploy", "sends", chosen, listed)
  <2>1. j \in Jobs /\ (Agrees(listed, chosen) => JobFits(j)) /\ D!Begin(j)
    BY <1>1, <1>3 DEF D!Deploy, D!Job, D!None, Jobs, JobFits
  <2>2. QED
    BY <1>2, <2>1, ClickStep
<1>4. CASE D!Control
  <2> DEFINE j == D!Job("ctrl", "sends", chosen, IF kind = "process" THEN "later" ELSE listed)
  <2>1. j \in Jobs /\ (Agrees(listed, chosen) => JobFits(j)) /\ D!Begin(j)
    BY <1>1, <1>4 DEF D!Control, D!Job, D!None, Jobs, JobFits
  <2>2. QED
    BY <1>2, <2>1, ClickStep
<1>5. CASE D!Execute
  <2> DEFINE j == D!Job("exec", "sends", Meant(chosen), listed)
  <2>1. j \in Jobs /\ (Agrees(listed, chosen) => JobFits(j)) /\ D!Begin(j)
    BY <1>1, <1>5 DEF D!Execute, D!Job, D!None, Jobs, JobFits, Agrees, Meant
  <2>2. QED
    BY <1>2, <2>1, ClickStep
<1>6. CASE D!Rollback
  <2> DEFINE j == D!Job("rollback", "sends", Meant(chosen), listed)
  <2>1. j \in Jobs /\ (Agrees(listed, chosen) => JobFits(j)) /\ D!Begin(j)
    BY <1>1, <1>6 DEF D!Rollback, D!Job, D!None, Jobs, JobFits, Agrees, Meant
  <2>2. QED
    BY <1>2, <2>1, ClickStep
<1>7. CASE D!AskDeploy
  <2> DEFINE j == D!Job("deploy", "asks", chosen, listed)
  <2>1. j \in Jobs /\ (Agrees(listed, chosen) => JobFits(j)) /\ D!Begin(j)
    BY <1>1, <1>7 DEF D!AskDeploy, D!Job, D!None, Jobs, JobFits
  <2>2. QED
    BY <1>2, <2>1, ClickStep
<1>8. CASE D!AskDirect
  <2> DEFINE j == D!Job("direct", "asks", chosen, listed)
  <2>1. j \in Jobs /\ (Agrees(listed, chosen) => JobFits(j)) /\ D!Begin(j)
    BY <1>1, <1>8 DEF D!AskDirect, D!Job, D!None, Jobs, JobFits
  <2>2. QED
    BY <1>2, <2>1, ClickStep
<1>9. QED
  BY <1>3, <1>4, <1>5, <1>6, <1>7, <1>8

\* A job goes on with what fits the window, or is gone.
LEMMA JobStep ==
  ASSUME DeployInv, NEW j \in jobs, NEW some, some \subseteq Jobs,
         UNCHANGED <<kind, first, chosen, listed, asks, files>>,
         jobs' \subseteq (jobs \ {j}) \cup some, SentAsShown', tooLate \subseteq tooLate',
         tooLate' = {} /\ ListFits /\ JobFits(j) => \A k \in some : JobFits(k)
  PROVE  DeployInv'
<1>1. \A b : Meant(b)' = Meant(b)
  BY DEF Meant, D!Resolved
<1>2. DeployTypes'
  BY DEF DeployInv, DeployTypes
<1>3. ASSUME tooLate' = {} PROVE ListFits' /\ \A k \in jobs' : JobFits(k)'
  <2>1. tooLate = {} /\ ListFits /\ \A k \in jobs' : JobFits(k)
    BY <1>3 DEF DeployInv
  <2>2. ListFits'
    BY <1>1, <2>1 DEF ListFits, Agrees
  <2>3. ASSUME NEW k \in jobs' PROVE JobFits(k)'
    BY <1>1, <2>1 DEF JobFits, Agrees
  <2>4. QED
    BY <2>2, <2>3
<1>4. QED
  BY <1>2, <1>3 DEF DeployInv

\* What is sent fits.
LEMMA ReachFits ==
  ASSUME DeployInv, NEW j \in jobs, j.at \in {"sends", "zips"}, Meant(j.to) # "none", D!Reach(j),
         UNCHANGED tooLate
  PROVE  SentAsShown'
<1>1. ASSUME tooLate = {}
      PROVE  /\ sent'.of \in {"none", sent'.to}
             /\ sent'.files = sent'.asked
  <2>1. ListFits /\ JobFits(j) /\ j \in Jobs
    BY <1>1 DEF DeployInv, DeployTypes
  <2>2. j.of = "later" => listed \in {"none", Meant(j.to)}
    <3>1. CASE j.of = "later"
      <4>1. j.to = chosen /\ asks = <<>>
        BY <2>1, <3>1 DEF JobFits, DeployInv, DeployTypes
      <4>2. QED
        BY <2>1, <4>1 DEF ListFits, Agrees
    <3>2. QED
      BY <3>1
  <2>3. j.of # "later" => j.of \in {"none", Meant(j.to)}
    BY <2>1 DEF JobFits, Agrees
  <2>4. j.do \in {"deploy", "direct"} => j.asked = files
    BY <2>1 DEF JobFits
  <2>5. QED
    BY <2>2, <2>3, <2>4 DEF D!Reach, Meant
<1>2. QED
  BY <1>1 DEF SentAsShown, D!SentAsShown, D!None

LEMMA DeployStep == DeployInv /\ [D!Next]_(D!vars) => DeployInv'
<1> SUFFICES ASSUME DeployInv, [D!Next]_(D!vars) PROVE DeployInv'
  OBVIOUS
<1>1. ASSUME NEW j \in jobs, D!Decline(j) \/ D!Fail(j) PROVE DeployInv'
  <2>1. jobs' = (jobs \ {j}) \cup {} /\ SentAsShown'
    BY <1>1, NothingSent DEF D!Decline, D!Fail
  <2>2. QED
    BY <1>1, <2>1, JobStep DEF D!Decline, D!Fail
<1>2. ASSUME NEW j \in jobs, D!Confirm(j) PROVE DeployInv'
  <2> DEFINE k == IF j.do = "deploy" THEN [j EXCEPT !.at = "zips", !.to = chosen, !.of = listed]
                  ELSE [j EXCEPT !.at = "sends"]
  <2>1. /\ j \in Jobs /\ chosen \in Choice /\ listed \in Choice \cup {"later"} /\ listed # "later"
        /\ j.at = "asks"
    BY <1>2, TargetAssumption DEF DeployInv, DeployTypes, Choice, D!Confirm
  <2>2. k \in Jobs
    BY <2>1 DEF Jobs
  <2>3. ASSUME ListFits, asks = <<>>, JobFits(j) PROVE JobFits(k)
    <3>1. Agrees(listed, chosen)
      BY <2>3 DEF ListFits
    <3>2. QED
      BY <2>1, <2>3, <3>1 DEF JobFits, Jobs
  <2>4. jobs' = (jobs \ {j}) \cup {k} /\ SentAsShown' /\ (tooLate' = {} => asks = <<>>)
    BY <1>2, NothingSent DEF D!Confirm, D!With, D!Late
  <2>5. tooLate \subseteq tooLate'
    BY <1>2 DEF D!Confirm, D!Late
  <2> DEFINE some == {k}
  <2> HIDE DEF k
  <2>6. some \subseteq Jobs /\ jobs' \subseteq (jobs \ {j}) \cup some
        /\ (tooLate' = {} /\ ListFits /\ JobFits(j) => \A l \in some : JobFits(l))
    BY <2>2, <2>3, <2>4
  <2> HIDE DEF some
  <2>7. UNCHANGED <<kind, first, chosen, listed, asks, files>>
    BY <1>2 DEF D!Confirm
  <2>8. QED
    BY <2>4, <2>5, <2>6, <2>7, JobStep
<1>3. ASSUME NEW j \in jobs, D!Send(j) PROVE DeployInv'
  <2>1. jobs' = (jobs \ {j}) \cup {} /\ SentAsShown'
    BY <1>3, ReachFits DEF D!Send, D!None, Meant
  <2>2. QED
    BY <1>3, <2>1, JobStep DEF D!Send
<1>4. ASSUME NEW j \in jobs, D!Upload(j) PROVE DeployInv'
  <2> DEFINE k == [j EXCEPT !.at = "waits", !.got = Meant(j.to)]
  <2>1. j \in Jobs /\ Meant(j.to) \in Choice /\ j.at = "zips"
    BY <1>4, MeantIs DEF DeployInv, DeployTypes, Choice, D!Upload, Jobs
  <2>2. k \in Jobs
    BY <2>1 DEF Jobs
  <2>3. ASSUME JobFits(j) PROVE JobFits(k)
    BY <2>1, <2>3 DEF JobFits, Jobs
  <2>4. jobs' = (jobs \ {j}) \cup {k} /\ SentAsShown'
    BY <1>4, ReachFits DEF D!Upload, D!With, D!None, Meant
  <2> DEFINE some == {k}
  <2> HIDE DEF k
  <2>5. some \subseteq Jobs /\ jobs' \subseteq (jobs \ {j}) \cup some
        /\ (tooLate' = {} /\ ListFits /\ JobFits(j) => \A l \in some : JobFits(l))
    BY <2>2, <2>3, <2>4
  <2> HIDE DEF some
  <2>6. UNCHANGED <<kind, first, chosen, listed, asks, files, tooLate>>
    BY <1>4 DEF D!Upload
  <2>7. QED
    BY <2>4, <2>5, <2>6, JobStep
<1>5. ASSUME NEW j \in jobs, D!Restart(j) PROVE DeployInv'
  <2>1. jobs' = (jobs \ {j}) \cup {} /\ tooLate' = tooLate /\ j.at = "waits"
        /\ sent' = [D!Nothing EXCEPT !.do = "restart", !.to = Meant(j.to), !.of = j.got]
    BY <1>5 DEF D!Restart, D!RestartStaged, Meant
  <2>2. tooLate = {} => j.got = Meant(j.to)
    BY <2>1 DEF DeployInv, JobFits
  <2>3. SentAsShown'
    BY <2>1, <2>2 DEF SentAsShown, D!SentAsShown, D!Nothing
  <2>4. QED
    BY <1>5, <2>1, <2>3, JobStep DEF D!Restart
<1>6. CASE UNCHANGED D!vars
  <2>1. /\ UNCHANGED <<kind, first, chosen, listed, asks, files, jobs, sent, tooLate>>
        /\ \A b : Meant(b)' = Meant(b)
    BY <1>6 DEF D!vars, Meant, D!Resolved
  <2>2. DeployTypes' /\ SentAsShown' /\ (ListFits => ListFits')
    BY <2>1 DEF DeployInv, DeployTypes, SentAsShown, D!SentAsShown, ListFits, Agrees
  <2>3. ASSUME NEW j \in jobs, JobFits(j) PROVE JobFits(j)'
    BY <2>1, <2>3 DEF JobFits, Agrees
  <2>4. QED
    BY <2>1, <2>2, <2>3 DEF DeployInv
<1>7. QED
  BY <1>1, <1>2, <1>3, <1>4, <1>5, <1>6, FirstStep, SelectStep, FetchStep, ListSteps, FilesChange,
     ClickSteps DEF D!Next, D!Auto

\* What is sent was on the list of the agent it goes to, with the files that were confirmed,
\* unless the window was used before its list had come or what a thread still reads was changed
\* (deploy_tab.py:516-540, 834-862, test_deploy_tab.py:384-466).
THEOREM SentIsShown == D!Spec => []SentAsShown
<1>1. D!Init => DeployInv
  <2> SUFFICES ASSUME D!Init PROVE DeployInv
    OBVIOUS
  <2>1. DeployTypes
    BY EmptySeq DEF D!Init, DeployTypes, D!Auto, D!None, FileLists
  <2>2. QED
    BY <2>1 DEF D!Init, DeployInv, ListFits, Agrees, D!None, SentAsShown, D!SentAsShown, D!Nothing
<1>2. DeployInv => SentAsShown
  BY DEF DeployInv
<1>3. QED
  BY <1>1, <1>2, DeployStep, PTL DEF D!Spec
=============================================================================
