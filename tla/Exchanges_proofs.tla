--------------------------- MODULE Exchanges_proofs ---------------------------
(***************************************************************************)
(* Theorems about the exchanges of MCExchanges: whose answer a question    *)
(* gets (Requests), what a refused request of the GUI has tried (Accounts), *)
(* what the tab of the agents shows (AgentsTab), and what a download has   *)
(* saved (Downloads), for any constants.                                   *)
(***************************************************************************)
EXTENDS MCExchanges, SequenceTheorems, FiniteSetTheorems, TLAPS

(* What is taken of the requests: each asks an agent, and the ids of file  *)
(* requests, eight digits of a uuid4, differ (tcp_server.py:976).          *)
Distinct ==
  /\ \A r \in Request : r.agent \in Agent
  /\ \A q, r \in Request : q.id = r.id => q = r

(* Key and UnderWay as operators of the values they read, which stay the   *)
(* same operators after a step.                                            *)
KeyOf(k, r) ==
  IF k = "file" THEN r.id ELSE IF k = "control" THEN <<r.agent, r.action>> ELSE r.agent

Among(q, s) == \E i \in DOMAIN s : s[i] = q
Sent(q, d, u) == Among(q, d[q.agent]) \/ Among(q, u[q.agent])

Of(a) == {r \in Request : r.agent = a}

Types ==
  /\ kind \in Kinds
  /\ at \in [Request -> {"new", "draining", "waiting", "answered", "failed", "timed out"}]
  /\ waits \in [Request -> Request]
  /\ pending \subseteq Request
  /\ down \in [Agent -> Seq(Request)] /\ up \in [Agent -> Seq(Request)]
  /\ \A a \in Agent : down[a] \in Seq(Of(a)) /\ up[a] \in Seq(Of(a))

(* Every future in the table is of its key.                                *)
TableKeys == \A k \in DOMAIN table : table[k] \in Request /\ KeyOf(kind, table[k]) = k

(* The future an answer under way will find is that of its request, or of  *)
(* one that met it.                                                        *)
AnswersFind ==
  \A q \in Request : Sent(q, down, up) /\ KeyOf(kind, q) \in DOMAIN table =>
    table[KeyOf(kind, q)] = q \/ table[KeyOf(kind, q)] \in crossed

(* The future a request finds after its drain is its own, or it met        *)
(* another.                                                                *)
RequestsFind ==
  \A r \in Request : at[r] = "draining" /\ KeyOf(kind, r) \in DOMAIN table =>
    table[KeyOf(kind, r)] = r \/ r \in crossed

WaitsOwn ==
  \A r \in Request : KeyOf(kind, waits[r]) = KeyOf(kind, r) /\ (waits[r] = r \/ r \in crossed)

ResultsOwn ==
  \A f \in DOMAIN result :
    /\ f \in Request /\ result[f] \in Request
    /\ KeyOf(kind, result[f]) = KeyOf(kind, f)
    /\ result[f] = f \/ f \in crossed

AnsweredHave == \A r \in Request : at[r] = "answered" => waits[r] \in DOMAIN result

Inv == Types /\ TableKeys /\ AnswersFind /\ RequestsFind /\ WaitsOwn /\ ResultsOwn /\ AnsweredHave

LEMMA KeyIs == \A r : Key(r) = KeyOf(kind, r)
BY DEF Key, KeyOf

LEMMA UnderWayIs == \A q : UnderWay(q) <=> Sent(q, down, up)
BY DEF UnderWay, Sent, Among

(* Requests with one key ask the same agent the same action; file requests *)
(* are one.                                                                *)
LEMMA KeyTells ==
  ASSUME Distinct, NEW q \in Request, NEW r \in Request, KeyOf(kind, q) = KeyOf(kind, r)
  PROVE  IF kind = "file" THEN q = r
         ELSE q.agent = r.agent /\ (kind = "control" => q.action = r.action)
BY DEF KeyOf, Distinct

LEMMA AmongTail ==
  ASSUME NEW S, NEW s \in Seq(S), s # <<>>, NEW q
  PROVE  /\ Tail(s) \in Seq(S) /\ Head(s) \in S
         /\ Among(Head(s), s)
         /\ Among(q, Tail(s)) => Among(q, s)
<1>1. Tail(s) \in Seq(S) /\ Head(s) \in S
  BY HeadTailProperties
<1>2. Among(Head(s), s)
  BY DEF Among
<1>3. ASSUME NEW i \in DOMAIN Tail(s) PROVE i + 1 \in DOMAIN s /\ s[i + 1] = Tail(s)[i]
  BY <1>1
<1> QED
  BY <1>1, <1>2, <1>3 DEF Among

LEMMA AmongAppend ==
  ASSUME NEW S, NEW s \in Seq(S), NEW e \in S, NEW q
  PROVE  Append(s, e) \in Seq(S) /\ (Among(q, Append(s, e)) => q = e \/ Among(q, s))
BY DEF Among

LEMMA WithoutLess ==
  ASSUME NEW k
  PROVE  /\ DOMAIN Without(k) \subseteq DOMAIN table
         /\ \A j \in DOMAIN Without(k) : Without(k)[j] = table[j]
BY DEF Without

(* Steps that add nothing to the table and send nothing.                   *)
Less ==
  /\ kind' = kind /\ crossed' = crossed
  /\ DOMAIN table' \subseteq DOMAIN table
  /\ \A k \in DOMAIN table' : table'[k] = table[k]
  /\ \A q \in Request : Sent(q, down, up)' => Sent(q, down, up)

LEMMA LessFinds ==
  ASSUME Inv, Less
  PROVE  /\ TableKeys' /\ AnswersFind'
         /\ (\A r \in Request : at'[r] = "draining" => at[r] = "draining") => RequestsFind'
BY DEF Inv, Less, TableKeys, AnswersFind, RequestsFind

LEMMA InitInv == Distinct /\ Init => Inv
<1> SUFFICES ASSUME Distinct, Init PROVE Inv
  OBVIOUS
<1>1. Types
  BY DEF Init, Types
<1>2. DOMAIN table = {} /\ DOMAIN result = {}
  BY DEF Init
<1> QED
  BY <1>1, <1>2 DEF Init, Inv, TableKeys, AnswersFind, RequestsFind, WaitsOwn, ResultsOwn, AnsweredHave

-----------------------------------------------------------------------------
(* A request is asked: its future is in the table, its packet under way.   *)
(* Whatever of its key is open or under way makes it, and that, crossed.   *)
LEMMA AskStep ==
  ASSUME Distinct, Inv, NEW r \in Request, Ask(r)
  PROVE  Inv'
<1> DEFINE met == {q \in Request \ {r} : /\ q.agent = r.agent
                                         /\ kind = "control" => q.action = r.action
                                         /\ Open(q) \/ UnderWay(q)}
           k == KeyOf(kind, r)
<1> USE DEF Inv
<1>1. /\ at[r] = "new" /\ at' = [at EXCEPT ![r] = "draining"]
      /\ pending' = pending \cup {r}
      /\ down' = down \/ down' = [down EXCEPT ![r.agent] = Append(@, r)]
      /\ kind' = kind /\ waits' = waits /\ result' = result /\ up' = up
  BY DEF Ask
<1>2. table' = With(table, k, r)
  BY KeyIs DEF Ask
<1>3. /\ crossed \subseteq crossed' /\ met \subseteq crossed'
      /\ met # {} => r \in crossed'
  BY DEF Ask
<1>4. DOMAIN table' = DOMAIN table \cup {k} /\ table'[k] = r
      /\ \A j \in DOMAIN table : j # k => table'[j] = table[j]
  <2> HIDE DEF k
  <2> QED
    BY <1>2 DEF With
<1> HIDE DEF met, k
<1>5. \A q \in Request \ {r} : KeyOf(kind, q) = k /\ (Open(q) \/ Sent(q, down, up)) /\ kind # "file"
                            => q \in met
  BY KeyTells, UnderWayIs DEF met, k
<1>6. \A q \in Request \ {r} : KeyOf(kind, q) = k => kind # "file"
  BY KeyTells DEF k
<1>7. r.agent \in Agent /\ r \in Of(r.agent)
  BY DEF Distinct, Of
<1>8. ASSUME NEW q \in Request, Sent(q, down, up)', q # r PROVE Sent(q, down, up)
  <2>1. q.agent \in Agent
    BY DEF Distinct
  <2>2. CASE down' = down
    BY <1>1, <1>8, <2>2 DEF Sent
  <2>3. CASE down' = [down EXCEPT ![r.agent] = Append(@, r)]
    <3>1. Among(q, Append(down[r.agent], r)) => Among(q, down[r.agent])
      BY <1>7, <1>8, AmongAppend DEF Types
    <3> QED
      BY <1>1, <1>7, <1>8, <2>1, <2>3, <3>1 DEF Sent, Types
  <2> QED
    BY <1>1, <2>2, <2>3
<1>9. Types'
  <2>1. CASE down' = down
    BY <1>1, <2>1 DEF Types
  <2>2. CASE down' = [down EXCEPT ![r.agent] = Append(@, r)]
    <3>1. Append(down[r.agent], r) \in Seq(Of(r.agent)) /\ Append(down[r.agent], r) \in Seq(Request)
      BY <1>7, AmongAppend DEF Types
    <3> QED
      BY <1>1, <1>7, <2>2, <3>1 DEF Types
  <2> QED
    BY <1>1, <2>1, <2>2
<1>10. TableKeys'
  BY <1>1, <1>4 DEF TableKeys, k
<1>11. AnswersFind'
  <2> SUFFICES ASSUME NEW q \in Request, Sent(q, down, up)', KeyOf(kind, q) \in DOMAIN table'
               PROVE  table'[KeyOf(kind, q)] = q \/ table'[KeyOf(kind, q)] \in crossed'
    BY <1>1 DEF AnswersFind
  <2>1. CASE q = r
    BY <1>4, <2>1 DEF k
  <2>2. CASE q # r /\ KeyOf(kind, q) = k
    BY <1>3, <1>4, <1>5, <1>6, <1>8, <2>2
  <2>3. CASE q # r /\ KeyOf(kind, q) # k
    BY <1>3, <1>4, <1>8, <2>3 DEF AnswersFind
  <2> QED
    BY <2>1, <2>2, <2>3
<1>12. RequestsFind'
  <2> SUFFICES ASSUME NEW q \in Request, at'[q] = "draining", KeyOf(kind, q) \in DOMAIN table'
               PROVE  table'[KeyOf(kind, q)] = q \/ q \in crossed'
    BY <1>1 DEF RequestsFind
  <2>1. CASE q = r
    BY <1>4, <2>1 DEF k
  <2>2. CASE q # r
    <3>1. at[q] = "draining" /\ Open(q)
      BY <1>1, <2>2 DEF Types, Open
    <3>2. CASE KeyOf(kind, q) = k
      BY <1>3, <1>5, <1>6, <2>2, <3>1, <3>2
    <3>3. CASE KeyOf(kind, q) # k
      BY <1>3, <1>4, <3>1, <3>3 DEF RequestsFind
    <3> QED
      BY <3>2, <3>3
  <2> QED
    BY <2>1, <2>2
<1>13. WaitsOwn' /\ ResultsOwn'
  BY <1>1, <1>3 DEF WaitsOwn, ResultsOwn
<1>14. AnsweredHave'
  BY <1>1 DEF AnsweredHave, Types
<1> QED
  BY <1>9, <1>10, <1>11, <1>12, <1>13, <1>14

(* After its drain a request waits for the future it finds.                *)
LEMMA DrainedStep ==
  ASSUME Distinct, Inv, NEW r \in Request, Drained(r)
  PROVE  Inv'
<1> USE DEF Inv
<1>1. /\ UNCHANGED <<kind, pending, result, table, down, up, crossed>>
      /\ at[r] = "draining"
      /\ \/ at' = [at EXCEPT ![r] = "waiting"] /\ waits' = waits
         \/ /\ KeyOf(kind, r) \in DOMAIN table
            /\ at' = [at EXCEPT ![r] = "waiting"]
            /\ waits' = [waits EXCEPT ![r] = table[KeyOf(kind, r)]]
         \/ at' = [at EXCEPT ![r] = "failed"] /\ waits' = waits
  BY KeyIs DEF Drained
<1>2. Types'
  BY <1>1 DEF Types, TableKeys
<1>3. TableKeys' /\ AnswersFind' /\ RequestsFind'
  BY <1>1, LessFinds DEF Less, Types
<1>4. WaitsOwn'
  <2>1. CASE waits' = waits
    BY <1>1, <2>1 DEF WaitsOwn
  <2>2. CASE /\ KeyOf(kind, r) \in DOMAIN table
             /\ waits' = [waits EXCEPT ![r] = table[KeyOf(kind, r)]]
    <3>1. /\ waits'[r] = table[KeyOf(kind, r)]
          /\ \A q \in Request \ {r} : waits'[q] = waits[q]
      BY <2>2 DEF Types
    <3>2. /\ KeyOf(kind, table[KeyOf(kind, r)]) = KeyOf(kind, r)
          /\ table[KeyOf(kind, r)] = r \/ r \in crossed
      BY <1>1, <2>2 DEF TableKeys, RequestsFind
    <3> QED
      BY <1>1, <3>1, <3>2 DEF WaitsOwn
  <2> QED
    BY <1>1, <2>1, <2>2
<1>5. ResultsOwn'
  BY <1>1 DEF ResultsOwn
<1>6. AnsweredHave'
  BY <1>1 DEF AnsweredHave, Types
<1> QED
  BY <1>2, <1>3, <1>4, <1>5, <1>6

(* The other steps of a request: they take from the table or leave it.     *)
LEMMA EndStep ==
  ASSUME Distinct, Inv, NEW r \in Request, DrainRaises(r) \/ Finish(r) \/ TimeOut(r)
  PROVE  Inv'
<1> USE DEF Inv
<1>1. /\ UNCHANGED <<kind, waits, result, down, up, crossed>>
      /\ pending' \subseteq pending
      /\ table' = table \/ table' = Without(Key(r))
      /\ \E e \in {"answered", "failed", "timed out"} :
           /\ at' = [at EXCEPT ![r] = e]
           /\ e = "answered" => waits[r] \in DOMAIN result
  BY DEF DrainRaises, Finish, TimeOut, Left
<1>2. Less
  BY <1>1, WithoutLess DEF Less
<1>3. Types'
  BY <1>1 DEF Types
<1>4. TableKeys' /\ AnswersFind' /\ RequestsFind'
  BY <1>1, <1>2, LessFinds DEF Types
<1>5. WaitsOwn' /\ ResultsOwn'
  BY <1>1 DEF WaitsOwn, ResultsOwn
<1>6. AnsweredHave'
  BY <1>1 DEF AnsweredHave, Types
<1> QED
  BY <1>3, <1>4, <1>5, <1>6

(* The agent answers in the order it was asked.                            *)
LEMMA AnswerStep ==
  ASSUME Distinct, Inv, NEW a \in Agent, Answer(a)
  PROVE  Inv'
<1> USE DEF Inv
<1>1. /\ down[a] # <<>>
      /\ down' = [down EXCEPT ![a] = Tail(@)]
      /\ up' = [up EXCEPT ![a] = Append(@, Head(down[a]))]
      /\ UNCHANGED <<kind, at, waits, pending, result, table, crossed>>
  BY DEF Answer
<1>2. /\ down[a] \in Seq(Of(a)) /\ up[a] \in Seq(Of(a))
      /\ down[a] \in Seq(Request) /\ up[a] \in Seq(Request)
  BY DEF Types
<1>3. /\ Head(down[a]) \in Of(a) /\ Among(Head(down[a]), down[a])
      /\ Tail(down[a]) \in Seq(Of(a)) /\ Tail(down[a]) \in Seq(Request)
      /\ Append(up[a], Head(down[a])) \in Seq(Of(a))
      /\ Append(up[a], Head(down[a])) \in Seq(Request)
  BY <1>1, <1>2, AmongTail, AmongAppend DEF Of
<1>4. ASSUME NEW q \in Request, Sent(q, down, up)' PROVE Sent(q, down, up)
  <2>1. q.agent \in Agent
    BY DEF Distinct
  <2>2. CASE q.agent = a
    <3>1. Among(q, Tail(down[a])) => Among(q, down[a])
      BY <1>1, <1>2, AmongTail
    <3>2. Among(q, Append(up[a], Head(down[a]))) => q = Head(down[a]) \/ Among(q, up[a])
      BY <1>2, <1>3, AmongAppend
    <3> QED
      BY <1>1, <1>3, <1>4, <2>2, <3>1, <3>2 DEF Sent, Types
  <2>3. CASE q.agent # a
    BY <1>1, <1>4, <2>1, <2>3 DEF Sent, Types
  <2> QED
    BY <2>2, <2>3
<1>5. Types'
  BY <1>1, <1>3 DEF Types
<1>6. TableKeys' /\ AnswersFind' /\ RequestsFind'
  BY <1>1, <1>4, LessFinds DEF Less
<1> QED
  BY <1>1, <1>5, <1>6 DEF WaitsOwn, ResultsOwn, AnsweredHave

(* An answer is given to the future of its key: its own, or one that met   *)
(* it.                                                                     *)
LEMMA HandleAnswerStep ==
  ASSUME Distinct, Inv, NEW a \in Agent, HandleAnswer(a)
  PROVE  Inv'
<1> USE DEF Inv
<1> DEFINE q == Head(up[a])
           k == KeyOf(kind, q)
<1>1. /\ up[a] # <<>> /\ up' = [up EXCEPT ![a] = Tail(@)]
      /\ table' = table \/ table' = Without(k)
      /\ UNCHANGED <<kind, at, waits, down, crossed>>
      /\ \/ /\ k \in DOMAIN table /\ table[k] \in pending
            /\ pending' = pending \ {table[k]}
            /\ result' = With(result, table[k], q)
         \/ UNCHANGED <<pending, result>>
  BY KeyIs DEF HandleAnswer
<1>2. up[a] \in Seq(Of(a)) /\ up[a] \in Seq(Request)
  BY DEF Types
<1>3. /\ q \in Request /\ q.agent = a /\ Sent(q, down, up)
      /\ Tail(up[a]) \in Seq(Of(a)) /\ Tail(up[a]) \in Seq(Request)
  BY <1>1, <1>2, AmongTail DEF Of, Sent
<1>4. ASSUME NEW p \in Request, Sent(p, down, up)' PROVE Sent(p, down, up)
  <2>1. p.agent \in Agent
    BY DEF Distinct
  <2>2. Among(p, Tail(up[a])) => Among(p, up[a])
    BY <1>1, <1>2, AmongTail
  <2>3. /\ up'[p.agent] = IF p.agent = a THEN Tail(up[a]) ELSE up[p.agent]
        /\ down'[p.agent] = down[p.agent]
    BY <1>1, <2>1 DEF Types
  <2> HIDE DEF q, k
  <2> QED
    BY <1>1, <1>4, <2>2, <2>3 DEF Sent
<1> HIDE DEF q, k
<1>5. Less
  BY <1>1, <1>4, WithoutLess DEF Less
<1>6. Types'
  BY <1>1, <1>3 DEF Types
<1>7. TableKeys' /\ AnswersFind' /\ RequestsFind'
  BY <1>1, <1>5, LessFinds
<1>8. ResultsOwn' /\ DOMAIN result \subseteq DOMAIN result'
  <2>1. CASE UNCHANGED result
    BY <1>1, <2>1 DEF ResultsOwn
  <2>2. CASE /\ k \in DOMAIN table
             /\ result' = With(result, table[k], q)
    <3>1. /\ DOMAIN result' = DOMAIN result \cup {table[k]} /\ result'[table[k]] = q
          /\ \A f \in DOMAIN result : f # table[k] => result'[f] = result[f]
      BY <2>2 DEF With
    <3>2. /\ table[k] \in Request /\ KeyOf(kind, table[k]) = k /\ KeyOf(kind, q) = k
          /\ table[k] = q \/ table[k] \in crossed
      BY <1>3, <2>2 DEF TableKeys, AnswersFind, k
    <3> QED
      BY <1>1, <1>3, <3>1, <3>2 DEF ResultsOwn
  <2> QED
    BY <1>1, <2>1, <2>2
<1>9. WaitsOwn' /\ AnsweredHave'
  BY <1>1, <1>8 DEF WaitsOwn, AnsweredHave
<1> QED
  BY <1>6, <1>7, <1>8, <1>9

(* A lost connection, the end of its handler and the agent's return.       *)
LEMMA LinkStep ==
  ASSUME Distinct, Inv, NEW a \in Agent, Lose(a) \/ HandlerEnds(a) \/ Return(a)
  PROVE  Inv'
<1> USE DEF Inv
<1>1. /\ UNCHANGED <<kind, at, waits, pending, result, crossed>>
      /\ \/ UNCHANGED <<down, up>>
         \/ down' = [down EXCEPT ![a] = <<>>] /\ up' = [up EXCEPT ![a] = <<>>]
  BY DEF Lose, HandlerEnds, Return
<1>2. /\ DOMAIN table' \subseteq DOMAIN table
      /\ \A k \in DOMAIN table' : table'[k] = table[k]
  <2>1. CASE UNCHANGED table
    BY <2>1
  <2>2. CASE HandlerEnds(a)
    BY <2>2 DEF HandlerEnds
  <2> QED
    BY <2>1, <2>2 DEF Lose, Return
<1>3. \A b : <<>> \in Seq(Of(b)) /\ <<>> \in Seq(Request) /\ ~Among(b, <<>>)
  BY EmptySeq DEF Among
<1>4. ASSUME NEW q \in Request, Sent(q, down, up)' PROVE Sent(q, down, up)
  <2>1. q.agent \in Agent
    BY DEF Distinct
  <2>2. /\ up'[q.agent] \in {up[q.agent], <<>>}
        /\ down'[q.agent] \in {down[q.agent], <<>>}
    BY <1>1, <2>1 DEF Types
  <2> QED
    BY <1>3, <1>4, <2>2 DEF Sent
<1>5. Types'
  BY <1>1, <1>3 DEF Types
<1>6. TableKeys' /\ AnswersFind' /\ RequestsFind'
  BY <1>1, <1>2, <1>4, LessFinds DEF Less
<1> QED
  BY <1>1, <1>5, <1>6 DEF WaitsOwn, ResultsOwn, AnsweredHave

LEMMA InvStep == Distinct /\ Inv /\ [Next]_vars => Inv'
<1> SUFFICES ASSUME Distinct, Inv, [Next]_vars PROVE Inv'
  OBVIOUS
<1>1. CASE UNCHANGED vars
  BY <1>1 DEF vars, Inv, Types, TableKeys, AnswersFind, RequestsFind, WaitsOwn, ResultsOwn,
     AnsweredHave
<1> QED
  BY <1>1, AskStep, DrainedStep, EndStep, AnswerStep, HandleAnswerStep, LinkStep DEF Next

(* A request that meets no other of its agent (and action) is answered     *)
(* with its own answer or not at all, and a file request always, however   *)
(* late the answers are and however often connections are lost.            *)
THEOREM AnswersAreOwn ==
  ASSUME Distinct
  PROVE  Spec => []OwnAnswer
<1>1. Init => Inv
  BY InitInv
<1>2. Inv /\ [Next]_vars => Inv'
  BY InvStep
<1>3. Inv => OwnAnswer
  <2> SUFFICES ASSUME Inv, NEW r \in Request, at[r] = "answered", result[waits[r]] # r
               PROVE  r \in crossed /\ kind # "file"
    BY DEF OwnAnswer
  <2>1. waits[r] \in DOMAIN result /\ waits[r] \in Request /\ result[waits[r]] \in Request
    BY DEF Inv, AnsweredHave, ResultsOwn
  <2>2. r \in crossed
    BY <2>1 DEF Inv, WaitsOwn, ResultsOwn
  <2>3. KeyOf(kind, result[waits[r]]) = KeyOf(kind, r)
    BY <2>1 DEF Inv, WaitsOwn, ResultsOwn
  <2> QED
    BY <2>1, <2>2, <2>3, KeyTells
<1> QED
  BY <1>1, <1>2, <1>3, PTL DEF Spec

-----------------------------------------------------------------------------
(* The GUI's requests.                                                     *)

Active == {"auth", "build", "sent"}
Fields == {"at", "op", "attempt", "header", "wrong", "meddled"}

\* Whether a token is let in, as far as it goes.
Fresh(token) == token # U!NoToken /\ token.fresh

\* A second attempt that no other thread has meddled with begins without a cookie, and
\* logs in, unless its login is refused, with a token that does not expire meanwhile.
LogsIn(r, c, f) ==
  /\ r.at \in {"idle", "done"} \cup Active
  /\ r.at \in Active => DOMAIN r = Fields /\ r.attempt \in {0, 1}
  /\ r.at \in Active /\ r.attempt = 1 /\ ~r.meddled /\ ~r.wrong =>
       /\ r.at = "auth" => c = U!NoToken /\ ~f
       /\ r.at = "build" => Fresh(c)
       /\ r.at = "sent" => Fresh(r.header)
  /\ r.at = "done" /\ r.status = "401" => r.wrong \/ r.meddled

AccountInv == DOMAIN request = Thread /\ \A t \in Thread : LogsIn(request[t], cookie, failed)

LEMMA AccountStarts == U!Init => AccountInv
BY DEF U!Init, AccountInv, LogsIn, U!Idle, Active

LEMMA TokensAreFresh == \A name : Fresh(U!Token(name))
<1>1. ASSUME NEW name
      PROVE  Fresh(U!Token(name))
  <2>1. U!Token(name).fresh
    BY DEF U!Token
  <2>2. "fresh" \in DOMAIN U!Token(name) /\ "fresh" \notin DOMAIN U!NoToken
    BY DEF U!Token, U!NoToken
  <2>3. QED
    BY <2>1, <2>2 DEF Fresh
<1>2. QED
  BY <1>1

\* A step of one thread that leaves the cookie and the flag.
LEMMA OwnStep ==
  ASSUME AccountInv, NEW t \in Thread, NEW r, U!Step(t, r), LogsIn(r, cookie, failed)
  PROVE  AccountInv'
<1>1. cookie' = cookie /\ failed' = failed /\ request' = [request EXCEPT ![t] = r]
  BY DEF U!Step
<1>2. DOMAIN request' = Thread /\ \A u \in Thread : request'[u] = r \/ request'[u] = request[u]
  BY <1>1 DEF AccountInv
<1>3. QED
  BY <1>1, <1>2 DEF AccountInv

\* Another thread's request that is meddled with, or has nothing to meddle with.
LEMMA Meddled ==
  ASSUME NEW r, NEW c, NEW f, NEW d, NEW g, LogsIn(r, c, f)
  PROVE  /\ r.at \in {"idle", "done"} => LogsIn(r, d, g)
         /\ r.at \notin {"idle", "done"} => LogsIn([r EXCEPT !.meddled = TRUE], d, g)
<1>1. ASSUME r.at \in {"idle", "done"} PROVE LogsIn(r, d, g)
  BY <1>1 DEF LogsIn, Active
<1>2. ASSUME r.at \notin {"idle", "done"} PROVE LogsIn([r EXCEPT !.meddled = TRUE], d, g)
  <2> DEFINE m == [r EXCEPT !.meddled = TRUE]
  <2>1. r.at \in Active /\ DOMAIN r = Fields
    BY <1>2 DEF LogsIn
  <2>2. DOMAIN m = Fields /\ m.at = r.at /\ m.attempt = r.attempt /\ m.meddled
    BY <2>1 DEF Fields
  <2>3. QED
    BY <2>1, <2>2 DEF LogsIn, Active
<1>3. QED
  BY <1>1, <1>2

\* A step of one thread that changes them: the others that are under way are meddled with.
LEMMA SharedStep ==
  ASSUME AccountInv, NEW t \in Thread, NEW c, NEW f, NEW r, U!Shared(t, c, f, r), LogsIn(r, c, f)
  PROVE  AccountInv'
<1>1. /\ cookie' = c /\ failed' = f /\ DOMAIN request' = Thread
      /\ \A u \in Thread : request'[u] =
           IF u = t THEN r
           ELSE IF <<c, f>> = <<cookie, failed>> \/ request[u].at \in {"idle", "done"}
                THEN request[u] ELSE [request[u] EXCEPT !.meddled = TRUE]
  BY DEF U!Shared
<1>2. ASSUME NEW u \in Thread PROVE LogsIn(request'[u], c, f)
  <2>1. LogsIn(request[u], cookie, failed)
    BY DEF AccountInv
  <2>2. CASE u = t
    BY <1>1, <2>2
  <2>3. CASE u # t /\ <<c, f>> = <<cookie, failed>>
    BY <1>1, <2>1, <2>3
  <2>4. CASE u # t /\ <<c, f>> # <<cookie, failed>>
    <3>1. request'[u] = IF request[u].at \in {"idle", "done"} THEN request[u]
                        ELSE [request[u] EXCEPT !.meddled = TRUE]
      BY <1>1, <2>4
    <3>2. QED
      BY <2>1, <3>1, Meddled
  <2>5. QED
    BY <2>2, <2>3, <2>4
<1>3. QED
  BY <1>1, <1>2 DEF AccountInv

\* The next of a request's steps, with the fields it sets.
LEMMA Begun ==
  ASSUME NEW op, NEW c, NEW f
  PROVE  LogsIn([at |-> "auth", op |-> op, attempt |-> 0, header |-> U!NoToken, wrong |-> FALSE,
                 meddled |-> FALSE], c, f)
BY DEF LogsIn, Active, Fields

LEMMA CallStep == ASSUME AccountInv, NEW t \in Thread, NEW op, U!Call(t, op) PROVE AccountInv'
<1> DEFINE r == [at |-> "auth", op |-> op, attempt |-> 0, header |-> U!NoToken, wrong |-> FALSE,
                 meddled |-> FALSE]
<1>1. U!Step(t, r)
  BY DEF U!Call, U!Step
<1>2. LogsIn(r, cookie, failed)
  BY Begun
<1> HIDE DEF r
<1>3. QED
  BY <1>1, <1>2, OwnStep

LEMMA EnsureAuthStep == ASSUME AccountInv, NEW t \in Thread, U!EnsureAuth(t) PROVE AccountInv'
<1> DEFINE r == request[t]
           known == U!Known(Configured.name, Configured.password)
           plain == [r EXCEPT !.at = "build"]
           wrong == [r EXCEPT !.at = "build", !.wrong = TRUE]
           asked == [r EXCEPT !.at = "build", !.wrong = ~known]
<1>1. LogsIn(r, cookie, failed) /\ r.at = "auth"
  BY DEF AccountInv, U!EnsureAuth
<1>2. DOMAIN r = Fields /\ r.attempt \in {0, 1}
  BY <1>1 DEF LogsIn, Active
<1>3. known \in BOOLEAN
  BY DEF U!Known
<1>4. CASE (cookie # U!NoToken \/ failed) /\ U!Step(t, plain)
  <2>1. plain.at = "build" /\ DOMAIN plain = Fields /\ plain.attempt = r.attempt
        /\ plain.wrong = r.wrong /\ plain.meddled = r.meddled
    BY <1>2 DEF Fields
  <2>2. LogsIn(plain, cookie, failed)
    BY <1>1, <1>2, <1>4, <2>1 DEF LogsIn, Active
  <2> HIDE DEF plain
  <2>3. QED
    BY <1>4, <2>2, OwnStep
<1>5. CASE U!Shared(t, IF known THEN U!Token(Configured.name) ELSE cookie, failed \/ ~known, asked)
  <2>1. asked.at = "build" /\ DOMAIN asked = Fields /\ asked.attempt = r.attempt
        /\ asked.wrong = ~known
    BY <1>2, <1>3 DEF Fields
  <2>2. known => Fresh(IF known THEN U!Token(Configured.name) ELSE cookie)
    BY TokensAreFresh
  <2> HIDE DEF known, asked
  <2>3. LogsIn(asked, IF known THEN U!Token(Configured.name) ELSE cookie, failed \/ ~known)
    BY <1>2, <2>1, <2>2 DEF LogsIn, Active
  <2>4. QED
    BY <1>5, <2>3, SharedStep
<1>6. CASE U!Step(t, wrong)
  <2>1. wrong.at = "build" /\ DOMAIN wrong = Fields /\ wrong.attempt = r.attempt /\ wrong.wrong
    BY <1>2 DEF Fields
  <2>2. LogsIn(wrong, cookie, failed)
    BY <1>2, <2>1 DEF LogsIn, Active
  <2> HIDE DEF wrong
  <2>3. QED
    BY <1>6, <2>2, OwnStep
<1>7. QED
  BY <1>4, <1>5, <1>6 DEF U!EnsureAuth

LEMMA BuildStep == ASSUME AccountInv, NEW t \in Thread, U!Build(t) PROVE AccountInv'
<1> DEFINE r == request[t]
           done == U!Done(r, "401")
           sent == [r EXCEPT !.at = "sent", !.header = cookie]
<1>1. LogsIn(r, cookie, failed) /\ r.at = "build"
  BY DEF AccountInv, U!Build
<1>2. DOMAIN r = Fields /\ r.attempt \in {0, 1}
  BY <1>1 DEF LogsIn, Active
<1>3. CASE cookie = U!NoToken /\ r.attempt = 1 /\ U!Step(t, done)
  <2>1. done.at = "done" /\ done.wrong = r.wrong /\ done.meddled = r.meddled
    BY DEF U!Done
  <2>2. LogsIn(done, cookie, failed)
    BY <1>1, <1>3, <2>1 DEF LogsIn, Active, Fresh
  <2> HIDE DEF done
  <2>3. QED
    BY <1>3, <2>2, OwnStep
<1>4. CASE U!Step(t, sent)
  <2>1. sent.at = "sent" /\ DOMAIN sent = Fields /\ sent.attempt = r.attempt
        /\ sent.wrong = r.wrong /\ sent.meddled = r.meddled /\ sent.header = cookie
    BY <1>2 DEF Fields
  <2>2. LogsIn(sent, cookie, failed)
    BY <1>1, <1>2, <2>1 DEF LogsIn, Active
  <2> HIDE DEF sent
  <2>3. QED
    BY <1>4, <2>2, OwnStep
<1>5. QED
  BY <1>3, <1>4 DEF U!Build

LEMMA AnsweredStep == ASSUME AccountInv, NEW t \in Thread, U!Answered(t) PROVE AccountInv'
<1> DEFINE r == request[t]
           status == U!Admitted(r.header, r.op)
           again == [r EXCEPT !.at = "auth", !.attempt = 1]
<1>1. LogsIn(r, cookie, failed) /\ r.at = "sent"
  BY DEF AccountInv, U!Answered
<1>2. DOMAIN r = Fields /\ r.attempt \in {0, 1}
  BY <1>1 DEF LogsIn, Active
<1>3. CASE U!Shared(t, U!Cleared[1], U!Cleared[2], again)
  <2>1. again.at = "auth" /\ DOMAIN again = Fields /\ again.attempt = 1
    BY <1>2 DEF Fields
  <2>2. LogsIn(again, U!Cleared[1], U!Cleared[2])
    BY <2>1 DEF LogsIn, Active, U!Cleared
  <2> HIDE DEF again
  <2>3. QED
    BY <1>3, <2>2, SharedStep
<1>4. ASSUME NEW s, U!Step(t, U!Done(r, s)), s = "401" => status = "401" /\ r.attempt = 1
      PROVE  AccountInv'
  <2> DEFINE done == U!Done(r, s)
  <2>1. done.at = "done" /\ done.wrong = r.wrong /\ done.meddled = r.meddled /\ done.status = s
    BY DEF U!Done
  <2>2. status = "401" => ~Fresh(r.header)
    BY DEF U!Admitted, Fresh
  <2>3. LogsIn(done, cookie, failed)
    BY <1>1, <1>4, <2>1, <2>2 DEF LogsIn, Active
  <2>4. U!Step(t, done)
    BY <1>4
  <2> HIDE DEF done
  <2>5. QED
    BY <2>3, <2>4, OwnStep
<1>5. CASE /\ ~(up2' /\ status = "401" /\ r.attempt = 0)
           /\ U!Step(t, U!Done(r, IF up2' THEN status ELSE "none"))
  BY <1>2, <1>4, <1>5
<1>6. CASE U!Step(t, U!Done(r, "none"))
  BY <1>4, <1>6
<1>7. QED
  BY <1>3, <1>5, <1>6 DEF U!Answered

LEMMA ExpireStep == ASSUME AccountInv, U!Expire PROVE AccountInv'
<1>1. /\ ~\E t \in Thread : request[t].at \notin {"idle", "done"} /\ request[t].attempt = 1
      /\ DOMAIN request' = Thread
      /\ \A t \in Thread : request'[t] =
           IF request[t].at = "sent" THEN [request[t] EXCEPT !.header = U!Aged(@)] ELSE request[t]
  BY DEF U!Expire
<1>2. ASSUME NEW t \in Thread PROVE LogsIn(request'[t], cookie', failed')
  <2> DEFINE r == request[t]
  <2>1. LogsIn(r, cookie, failed) /\ (r.at \in Active => r.attempt = 0)
    BY <1>1 DEF AccountInv, LogsIn, Active
  <2>2. CASE r.at = "sent"
    <3>1. request'[t] = [r EXCEPT !.header = U!Aged(r.header)]
      BY <1>1, <2>2
    <3>2. DOMAIN r = Fields
      BY <2>1, <2>2 DEF LogsIn, Active
    <3>3. request'[t].at = "sent" /\ DOMAIN request'[t] = Fields /\ request'[t].attempt = 0
      BY <2>1, <2>2, <3>1, <3>2 DEF Fields, Active
    <3>4. QED
      BY <3>3 DEF LogsIn, Active
  <2>3. CASE r.at # "sent"
    <3>1. request'[t] = r
      BY <1>1, <2>3
    <3>2. QED
      BY <2>1, <3>1 DEF LogsIn, Active
  <2>4. QED
    BY <2>2, <2>3
<1>3. QED
  BY <1>1, <1>2 DEF AccountInv

LEMMA AccountStep == AccountInv /\ [U!Next]_accountVars => AccountInv'
<1> SUFFICES ASSUME AccountInv, [U!Next]_accountVars PROVE AccountInv'
  OBVIOUS
<1>1. CASE UNCHANGED <<cookie, failed, request>>
  BY <1>1 DEF AccountInv
<1>2. CASE U!Next
  <2>1. CASE U!Kill \/ U!Start \/ U!Logout
    BY <1>1, <2>1 DEF U!Kill, U!Start, U!Logout
  <2>2. ASSUME NEW n, NEW s, U!Login(n, s) PROVE AccountInv'
    BY <1>1, <2>2 DEF U!Login
  <2>3. ASSUME NEW op, U!Browse(op) PROVE AccountInv'
    BY <1>1, <2>3 DEF U!Browse
  <2>4. QED
    BY <1>2, <2>1, <2>2, <2>3, ExpireStep, CallStep, EnsureAuthStep, BuildStep, AnsweredStep
       DEF U!Next
<1>3. QED
  BY <1>1, <1>2 DEF accountVars

(* A request of the GUI that is refused for want of a login has tried the  *)
(* account it is configured with and was refused, or did not reach the     *)
(* server, or another thread changed the login meanwhile: for any number   *)
(* of threads, accounts and requests, and a server that stops at any time. *)
THEOREM RefusedHasTried == AllSpec => []RefusedIsUnknown
<1>1. AllInit => AccountInv
  BY AccountStarts DEF AllInit
<1>2. AccountInv /\ [AllNext]_allVars => AccountInv'
  BY AccountStep DEF AllNext, allVars, accountVars
<1>3. AccountInv => RefusedIsUnknown
  BY DEF AccountInv, LogsIn, RefusedIsUnknown, U!RefusedIsUnknown
<1>4. QED
  BY <1>1, <1>2, <1>3, PTL DEF AllSpec

-----------------------------------------------------------------------------
(* The tab of the agents.                                                  *)

Who == Listed \cup {A!None}
Threads ==
  {r \in [kind : {"list", "history", "reset", "start", "stop"}, agent : Who, answered : BOOLEAN] :
     r.answered => ~A!OfStream(r)}

TabTypes ==
  /\ tree \subseteq Listed /\ selected \in Who /\ (streaming => selected # A!None)
  /\ DOMAIN polled = A!Timer
  /\ requests \in Seq(Threads)
  /\ \A w \in links : DOMAIN w = {"agent", "at", "id"} /\ w.agent \in Who

Shown(a, who, on) == a = who /\ on

\* A stop of agent a, later than the i-th request.
StopAfter(s, i, a) == \E j \in 1 .. Len(s) : j > i /\ s[j].kind = "stop" /\ s[j].agent = a

PolledOne(p, id, who) == \A i \in A!Timer : p[i] # A!None => i = id /\ p[i] = who

StartsShown(s, who, on) ==
  \A i \in 1 .. Len(s) :
    s[i].kind = "start" => Shown(s[i].agent, who, on) \/ StopAfter(s, i, s[i].agent)

StreamsShown(s, some, who, on) ==
  \A a \in some : Shown(a, who, on) \/ StopAfter(s, 0, a)

TabHolds ==
  /\ TabTypes
  /\ PolledOne(polled, afterId, selected)
  /\ StartsShown(requests, selected, streaming)
  /\ StreamsShown(requests, streams, selected, streaming)

TabInv == late = {} => TabHolds

LEMMA RemovedPlaces ==
  ASSUME NEW S, NEW s \in Seq(S), NEW i \in 1 .. Len(s)
  PROVE  /\ A!RemoveAt(s, i) \in Seq(S) /\ Len(A!RemoveAt(s, i)) = Len(s) - 1
         /\ \A j \in 1 .. Len(s) - 1 :
              A!RemoveAt(s, i)[j] = IF j < i THEN s[j] ELSE s[j + 1]
<1> DEFINE f == SubSeq(s, 1, i - 1)
           b == SubSeq(s, i + 1, Len(s))
<1>1. Len(s) \in Nat /\ \A j \in 1 .. Len(s) : s[j] \in S
  BY LenProperties, ElementOfSeq
<1>2. f \in Seq(S) /\ Len(f) = i - 1 /\ \A j \in 1 .. i - 1 : f[j] = s[j]
  BY <1>1, SubSeqProperties
<1>3. b \in Seq(S) /\ Len(b) = Len(s) - i /\ \A j \in 1 .. Len(s) - i : b[j] = s[i + j]
  <2>1. i + 1 \in Int /\ Len(s) \in Int /\ \A j \in i + 1 .. Len(s) : s[j] \in S
    BY <1>1
  <2>2. /\ b \in Seq(S) /\ Len(b) = IF i + 1 <= Len(s) THEN Len(s) - (i + 1) + 1 ELSE 0
        /\ \A j \in 1 .. Len(s) - (i + 1) + 1 : b[j] = s[i + 1 + j - 1]
    BY <2>1, SubSeqProperties
  <2>3. QED
    BY <1>1, <2>2
<1>4. A!RemoveAt(s, i) = f \o b
  BY DEF A!RemoveAt
<1> HIDE DEF f, b
<1>5. /\ f \o b \in Seq(S) /\ Len(f \o b) = Len(f) + Len(b)
      /\ \A j \in 1 .. Len(f) + Len(b) :
           (f \o b)[j] = IF j <= Len(f) THEN f[j] ELSE b[j - Len(f)]
  BY <1>2, <1>3, ConcatProperties
<1>6. ASSUME NEW j \in 1 .. Len(s) - 1
      PROVE  (f \o b)[j] = IF j < i THEN s[j] ELSE s[j + 1]
  <2>1. CASE j < i
    BY <1>1, <1>2, <1>3, <1>5, <2>1
  <2>2. CASE j >= i
    <3>1. j - (i - 1) \in 1 .. Len(s) - i /\ i + (j - (i - 1)) = j + 1
      BY <1>1, <2>2
    <3>2. QED
      BY <1>1, <1>2, <1>3, <1>5, <2>2, <3>1
  <2>3. j < i \/ j >= i
    BY <1>1
  <2>4. QED
    BY <2>1, <2>2, <2>3
<1>7. QED
  BY <1>1, <1>2, <1>3, <1>4, <1>5, <1>6

LEMMA StopKept ==
  ASSUME NEW s \in Seq(Threads), NEW i \in 1 .. Len(s), NEW k \in 0 .. Len(s), NEW a,
         StopAfter(s, k, a), k < i => ~(s[i].kind = "stop" /\ s[i].agent = a)
  PROVE  StopAfter(A!RemoveAt(s, i), IF k < i THEN k ELSE k - 1, a)
<1>1. PICK j \in 1 .. Len(s) : j > k /\ s[j].kind = "stop" /\ s[j].agent = a
  BY DEF StopAfter
<1>2. j # i \/ k >= i
  BY <1>1
<1> DEFINE t == A!RemoveAt(s, i)
           n == IF j < i THEN j ELSE j - 1
<1>3. /\ Len(s) \in Nat /\ Len(t) = Len(s) - 1
      /\ \A l \in 1 .. Len(s) - 1 : t[l] = IF l < i THEN s[l] ELSE s[l + 1]
  BY RemovedPlaces, LenProperties
<1> HIDE DEF t
<1>4. n \in 1 .. Len(s) - 1 /\ n > (IF k < i THEN k ELSE k - 1)
      /\ (IF n < i THEN n ELSE n + 1) = j
  BY <1>1, <1>2, <1>3
<1>5. t[n] = s[j]
  BY <1>3, <1>4
<1> HIDE DEF n
<1>6. QED
  BY <1>1, <1>3, <1>4, <1>5 DEF StopAfter, t

\* A thread that ends leaves what is to come as the tab shows it, when it was not one of
\* the stream, or the first of its agent.
LEMMA StartsWithout ==
  ASSUME NEW s \in Seq(Threads), NEW i \in 1 .. Len(s), NEW who, NEW on,
         StartsShown(s, who, on),
         A!OfStream(s[i]) =>
           ~\E j \in 1 .. i - 1 : A!OfStream(s[j]) /\ s[j].agent = s[i].agent
  PROVE  StartsShown(A!RemoveAt(s, i), who, on)
<1> DEFINE t == A!RemoveAt(s, i)
<1>1. /\ Len(s) \in Nat /\ Len(t) = Len(s) - 1
      /\ \A l \in 1 .. Len(s) - 1 : t[l] = IF l < i THEN s[l] ELSE s[l + 1]
  BY RemovedPlaces, LenProperties
<1>2. ASSUME NEW l \in 1 .. Len(s) - 1, t[l].kind = "start"
      PROVE  Shown(t[l].agent, who, on) \/ StopAfter(t, l, t[l].agent)
  <2> DEFINE k == IF l < i THEN l ELSE l + 1
  <2>1. k \in 1 .. Len(s) /\ k # i /\ t[l] = s[k] /\ (IF k < i THEN k ELSE k - 1) = l
    BY <1>1
  <2> HIDE DEF k, t
  <2>2. Shown(s[k].agent, who, on) \/ StopAfter(s, k, s[k].agent)
    BY <1>2, <2>1 DEF StartsShown
  <2>3. k < i => ~(s[i].kind = "stop" /\ s[i].agent = s[k].agent)
    <3>1. k < i => k \in 1 .. i - 1
      BY <2>1
    <3>2. A!OfStream(s[k])
      BY <1>2, <2>1 DEF A!OfStream
    <3>3. s[i].kind = "stop" => A!OfStream(s[i])
      BY DEF A!OfStream
    <3>4. QED
      BY <3>1, <3>2, <3>3
  <2>4. k \in 0 .. Len(s)
    BY <2>1
  <2>5. StopAfter(s, k, s[k].agent) => StopAfter(t, l, s[k].agent)
    BY <2>1, <2>3, <2>4, StopKept DEF t
  <2>6. QED
    BY <2>1, <2>2, <2>5
<1> HIDE DEF t
<1>3. QED
  BY <1>1, <1>2 DEF StartsShown, t

LEMMA StreamsWithout ==
  ASSUME NEW s \in Seq(Threads), NEW i \in 1 .. Len(s), NEW who, NEW on, NEW some,
         StreamsShown(s, some, who, on)
  PROVE  StreamsShown(A!RemoveAt(s, i),
                      IF s[i].kind = "stop" THEN some \ {s[i].agent} ELSE some, who, on)
<1>1. Len(s) \in Nat
  BY LenProperties
<1>2. ASSUME NEW a \in some, ~(s[i].kind = "stop" /\ s[i].agent = a), StopAfter(s, 0, a)
      PROVE  StopAfter(A!RemoveAt(s, i), 0, a)
  <2>1. 0 \in 0 .. Len(s) /\ 0 < i
    BY <1>1
  <2>2. QED
    BY <1>2, <2>1, StopKept
<1>3. QED
  BY <1>2 DEF StreamsShown

\* A start that is served, the first of its agent.
LEMMA StreamsWith ==
  ASSUME NEW s \in Seq(Threads), NEW i \in 1 .. Len(s), NEW who, NEW on, NEW some,
         StartsShown(s, who, on), StreamsShown(s, some, who, on), s[i].kind = "start"
  PROVE  StreamsShown(A!RemoveAt(s, i), some \cup {s[i].agent}, who, on)
<1>1. StreamsShown(A!RemoveAt(s, i), some, who, on)
  BY StreamsWithout
<1>2. Len(s) \in Nat /\ 0 \in 0 .. Len(s) /\ 0 < i /\ i > 0
  BY LenProperties
<1>3. Shown(s[i].agent, who, on) \/ StopAfter(s, i, s[i].agent)
  BY DEF StartsShown
<1>4. StopAfter(s, i, s[i].agent) => StopAfter(s, 0, s[i].agent)
  BY <1>2 DEF StopAfter
<1>5. StopAfter(s, 0, s[i].agent) => StopAfter(A!RemoveAt(s, i), 0, s[i].agent)
  BY <1>2, StopKept
<1>6. QED
  BY <1>1, <1>3, <1>4, <1>5 DEF StreamsShown

\* A thread that is started; what was shown is, or is stopped by it.
LEMMA Appended ==
  ASSUME NEW s \in Seq(Threads), NEW e \in Threads, NEW who, NEW on, NEW who2, NEW on2, NEW some,
         StartsShown(s, who, on), StreamsShown(s, some, who, on),
         e.kind = "start" => Shown(e.agent, who2, on2),
         \A a : Shown(a, who, on) => Shown(a, who2, on2) \/ (e.kind = "stop" /\ e.agent = a)
  PROVE  /\ Append(s, e) \in Seq(Threads)
         /\ StartsShown(Append(s, e), who2, on2)
         /\ StreamsShown(Append(s, e), some, who2, on2)
<1> DEFINE t == Append(s, e)
           n == Len(s) + 1
<1>1. /\ Len(s) \in Nat /\ t \in Seq(Threads) /\ Len(t) = n /\ t[n] = e
      /\ \A l \in 1 .. Len(s) : t[l] = s[l]
  BY AppendProperties, LenProperties
<1>2. n \in 1 .. Len(t) /\ \A l \in 1 .. Len(s) : l \in 1 .. Len(t) /\ n > l
  BY <1>1
<1>3. n > 0 /\ \A l \in 1 .. Len(t) : l = n \/ l \in 1 .. Len(s)
  BY <1>1
<1> HIDE DEF t, n
<1>4. \A k, a : StopAfter(s, k, a) => StopAfter(t, k, a)
  BY <1>1, <1>2 DEF StopAfter
<1>5. StartsShown(t, who2, on2)
  <2>1. ASSUME NEW l \in 1 .. Len(t), t[l].kind = "start"
        PROVE  Shown(t[l].agent, who2, on2) \/ StopAfter(t, l, t[l].agent)
    <3>1. CASE l = n
      BY <1>1, <2>1, <3>1
    <3>2. CASE l \in 1 .. Len(s)
      <4>1. Shown(s[l].agent, who, on) \/ StopAfter(s, l, s[l].agent)
        BY <1>1, <2>1, <3>2 DEF StartsShown
      <4>2. e.kind = "stop" /\ e.agent = s[l].agent => StopAfter(t, l, s[l].agent)
        BY <1>1, <1>2, <3>2 DEF StopAfter
      <4>3. QED
        BY <1>1, <1>4, <3>2, <4>1, <4>2
    <3>3. QED
      BY <1>3, <3>1, <3>2
  <2>2. QED
    BY <2>1 DEF StartsShown
<1>6. StreamsShown(t, some, who2, on2)
  <2>1. \A a : e.kind = "stop" /\ e.agent = a => StopAfter(t, 0, a)
    BY <1>1, <1>2, <1>3 DEF StopAfter
  <2>2. QED
    BY <1>4, <2>1 DEF StreamsShown
<1>7. QED
  BY <1>1, <1>5, <1>6 DEF t

LEMMA Flagged ==
  ASSUME NEW s \in Seq(Threads), NEW i \in 1 .. Len(s), NEW who, NEW on, NEW some,
         ~A!OfStream(s[i]),
         StartsShown(s, who, on), StreamsShown(s, some, who, on)
  PROVE  /\ [s EXCEPT ![i].answered = TRUE] \in Seq(Threads)
         /\ StartsShown([s EXCEPT ![i].answered = TRUE], who, on)
         /\ StreamsShown([s EXCEPT ![i].answered = TRUE], some, who, on)
<1> DEFINE e == [s[i] EXCEPT !.answered = TRUE]
           t == [s EXCEPT ![i] = e]
<1>1. s[i] \in Threads
  BY ElementOfSeq
<1>2. e \in Threads /\ e.kind = s[i].kind /\ e.agent = s[i].agent
  BY <1>1 DEF Threads, A!OfStream
<1>3. [s EXCEPT ![i].answered = TRUE] = t
  OBVIOUS
<1> HIDE DEF e
<1>4. /\ t \in Seq(Threads) /\ Len(t) = Len(s)
      /\ \A j \in 1 .. Len(s) : t[j].kind = s[j].kind /\ t[j].agent = s[j].agent
  BY <1>2, ExceptSeq
<1> HIDE DEF t
<1>5. \A k, a : StopAfter(s, k, a) => StopAfter(t, k, a)
  BY <1>4 DEF StopAfter
<1>6. QED
  BY <1>3, <1>4, <1>5 DEF StartsShown, StreamsShown

\* What may be pending has been cancelled.
LEMMA CancelledAll ==
  ASSUME DOMAIN polled = A!Timer, PolledOne(polled, afterId, selected)
  PROVE  /\ DOMAIN A!Cancelled(afterId) = A!Timer
         /\ \A i \in A!Timer : A!Cancelled(afterId)[i] = A!None
BY DEF PolledOne, A!Cancelled, A!Timer, A!NoTimer

LEMMA PolledAfter ==
  ASSUME NEW who, NEW p, DOMAIN p = A!Timer, \A i \in A!Timer : p[i] = A!None, A!Poll(who, p)
  PROVE  DOMAIN polled' = A!Timer /\ PolledOne(polled', afterId', who)
<1>1. PICK j : polled' = [p EXCEPT ![j] = who] /\ afterId' = j
  BY DEF A!Poll
<1>2. QED
  BY <1>1 DEF PolledOne

LEMMA Stopped ==
  ASSUME TabHolds, A!StopPolling
  PROVE  DOMAIN polled' = A!Timer /\ \A who : PolledOne(polled', afterId', who)
BY CancelledAll DEF TabHolds, TabTypes, A!StopPolling, PolledOne

LEMMA Started ==
  ASSUME TabHolds, NEW who, A!StartPolling(who)
  PROVE  DOMAIN polled' = A!Timer /\ PolledOne(polled', afterId', who)
<1>1. A!Poll(who, A!Cancelled(afterId))
  BY DEF A!StartPolling
<1>2. QED
  BY <1>1, CancelledAll, PolledAfter DEF TabHolds, TabTypes

LEMMA TickStep == ASSUME TabHolds, NEW i \in A!Timer, A!Tick(i) PROVE TabHolds'
<1> DEFINE rest == [polled EXCEPT ![i] = A!None]
<1>1. /\ UNCHANGED <<requests, tree, selected, streaming, streams, links>>
      /\ polled[i] # A!None
      /\ selected = polled[i] => A!Poll(selected, rest)
  BY DEF A!Tick
<1>2. /\ DOMAIN rest = A!Timer /\ \A j \in A!Timer : rest[j] = A!None
      /\ selected = polled[i]
  BY <1>1 DEF TabHolds, TabTypes, PolledOne
<1> HIDE DEF rest
<1>3. DOMAIN polled' = A!Timer /\ PolledOne(polled', afterId', selected)
  BY <1>1, <1>2, PolledAfter
<1>4. QED
  BY <1>1, <1>3 DEF TabHolds, TabTypes

\* A thread is started, whatever happens to the polling.
LEMMA ThreadStarts ==
  ASSUME TabHolds, NEW e \in Threads, requests' = Append(requests, e),
         UNCHANGED <<tree, selected, streams>>,
         \A w \in links' : DOMAIN w = {"agent", "at", "id"} /\ w.agent \in Who,
         streaming' => selected # A!None,
         DOMAIN polled' = A!Timer, PolledOne(polled', afterId', selected),
         e.kind = "start" => Shown(e.agent, selected, streaming'),
         \A a : Shown(a, selected, streaming) =>
           Shown(a, selected, streaming') \/ (e.kind = "stop" /\ e.agent = a)
  PROVE  TabHolds'
<1>1. /\ Append(requests, e) \in Seq(Threads)
      /\ StartsShown(Append(requests, e), selected, streaming')
      /\ StreamsShown(Append(requests, e), streams, selected, streaming')
  BY Appended DEF TabHolds, TabTypes
<1>2. QED
  BY <1>1 DEF TabHolds, TabTypes

LEMMA AskingStep ==
  ASSUME TabHolds,
         A!Refresh \/ A!ChangeFolder \/ A!StartRealtime \/ A!StopRealtime \/ A!FetchHistory
  PROVE  TabHolds'
<1>1. A!None \in Who /\ selected \in Who
  BY DEF TabHolds, TabTypes, Who
<1>2. \A kind1 \in {"list", "history", "reset", "start", "stop"}, a \in Who :
        /\ A!Asked(kind1, a) \in Threads
        /\ A!Asked(kind1, a).kind = kind1 /\ A!Asked(kind1, a).agent = a
  BY DEF A!Asked, Threads
<1>3. /\ \A w \in links : DOMAIN w = {"agent", "at", "id"} /\ w.agent \in Who
      /\ streaming => selected # A!None
      /\ DOMAIN polled = A!Timer /\ PolledOne(polled, afterId, selected)
  BY DEF TabHolds, TabTypes
<1>4. CASE A!Refresh
  <2> DEFINE e == A!Asked("list", A!None)
  <2>1. e \in Threads /\ e.kind = "list"
    BY <1>1, <1>2
  <2>2. requests' = Append(requests, e) /\ UNCHANGED <<tree, selected, streaming, streams, polled, afterId, links>>
    BY <1>4 DEF A!Refresh, A!pollVars
  <2> HIDE DEF e
  <2>3. QED
    BY <1>3, <2>1, <2>2, ThreadStarts
<1>5. CASE A!ChangeFolder
  <2> DEFINE e == A!Asked("reset", selected)
  <2>1. e \in Threads /\ e.kind = "reset"
    BY <1>1, <1>2
  <2>2. requests' = Append(requests, e) /\ UNCHANGED <<tree, selected, streaming, streams, links>>
    BY <1>5 DEF A!ChangeFolder
  <2>3. DOMAIN polled' = A!Timer /\ PolledOne(polled', afterId', selected)
    BY <1>5, Stopped DEF A!ChangeFolder
  <2> HIDE DEF e
  <2>4. QED
    BY <1>3, <2>1, <2>2, <2>3, ThreadStarts
<1>6. CASE A!StartRealtime
  <2> DEFINE e == A!Asked("start", selected)
  <2>1. e \in Threads /\ e.agent = selected
    BY <1>1, <1>2
  <2>2. /\ requests' = Append(requests, e)
        /\ UNCHANGED <<tree, selected, streams, polled, afterId, links>>
        /\ streaming' = TRUE /\ selected # A!None
    BY <1>6 DEF A!StartRealtime, A!pollVars
  <2> HIDE DEF e
  <2>3. QED
    BY <1>3, <2>1, <2>2, ThreadStarts DEF Shown
<1>7. CASE A!StopRealtime
  <2> DEFINE e == A!Asked("stop", selected)
  <2>1. e \in Threads /\ e.agent = selected /\ e.kind = "stop"
    BY <1>1, <1>2
  <2>2. /\ requests' = Append(requests, e)
        /\ UNCHANGED <<tree, selected, streams, links>> /\ streaming' = FALSE
    BY <1>7 DEF A!StopRealtime
  <2>3. DOMAIN polled' = A!Timer /\ PolledOne(polled', afterId', selected)
    BY <1>7, Stopped DEF A!StopRealtime
  <2> HIDE DEF e
  <2>4. QED
    BY <1>3, <2>1, <2>2, <2>3, ThreadStarts DEF Shown
<1>8. CASE A!FetchHistory
  <2> DEFINE e == A!Asked("history", selected)
  <2>1. e \in Threads /\ e.kind = "history"
    BY <1>1, <1>2
  <2>2. requests' = Append(requests, e) /\ UNCHANGED <<tree, selected, streaming, streams, polled, afterId, links>>
    BY <1>8 DEF A!FetchHistory, A!pollVars
  <2> HIDE DEF e
  <2>3. QED
    BY <1>3, <2>1, <2>2, ThreadStarts
<1>9. QED
  BY <1>4, <1>5, <1>6, <1>7, <1>8

LEMMA LinkStepOfTab ==
  ASSUME TabHolds, NEW w \in links, A!LinkEnds(w) \/ A!LinkCancels(w) \/ A!LinkClears(w), late' = {}
  PROVE  TabHolds'
<1>1. /\ \A x \in links : DOMAIN x = {"agent", "at", "id"} /\ x.agent \in Who
      /\ streaming => selected # A!None
      /\ DOMAIN polled = A!Timer /\ PolledOne(polled, afterId, selected)
  BY DEF TabHolds, TabTypes
<1>2. CASE A!LinkEnds(w)
  <2> DEFINE x == [w EXCEPT !.at = "cancels", !.id = afterId]
  <2>1. DOMAIN x = {"agent", "at", "id"} /\ x.agent \in Who
    BY <1>1
  <2>2. /\ links' = (links \ {w}) \cup {x}
        /\ UNCHANGED <<tree, selected, streaming, streams, polled, afterId, requests>>
    BY <1>2 DEF A!LinkEnds, A!pollVars
  <2> HIDE DEF x
  <2>3. QED
    BY <2>1, <2>2 DEF TabHolds, TabTypes
<1>3. CASE A!LinkCancels(w)
  <2> DEFINE x == [w EXCEPT !.at = "clears"]
  <2>1. DOMAIN x = {"agent", "at", "id"} /\ x.agent \in Who
    BY <1>1
  <2>2. /\ links' = (links \ {w}) \cup {x}
        /\ UNCHANGED <<tree, selected, streaming, streams, requests>>
        /\ polled' = A!Cancelled(w.id)
        /\ afterId' = IF w.id = afterId THEN A!NoTimer ELSE afterId
    BY <1>3 DEF A!LinkCancels
  <2>3. /\ DOMAIN polled' = A!Timer
        /\ \A i \in A!Timer : polled'[i] # A!None => polled'[i] = polled[i] /\ (i = w.id => i = A!NoTimer)
    BY <1>1, <2>2 DEF A!Cancelled
  <2>4. PolledOne(polled', afterId', selected)
    <3>1. \A i \in A!Timer : i # A!NoTimer
      BY DEF A!Timer, A!NoTimer
    <3>2. QED
      BY <1>1, <2>2, <2>3, <3>1 DEF PolledOne
  <2> HIDE DEF x
  <2>5. QED
    BY <2>1, <2>2, <2>3, <2>4 DEF TabHolds, TabTypes
<1>4. CASE A!LinkClears(w)
  <2> DEFINE e == A!Asked("stop", w.agent)
  <2>1. e \in Threads /\ e.kind = "stop"
    BY <1>1 DEF A!Asked, Threads
  <2>2. /\ requests' = Append(requests, e) /\ links' = links \ {w}
        /\ UNCHANGED <<tree, selected, streaming, streams, polled>>
    BY <1>4 DEF A!LinkClears
  <2>3. afterId' = afterId
    BY <1>4 DEF A!LinkClears
  <2> HIDE DEF e
  <2>4. QED
    BY <1>1, <2>1, <2>2, <2>3, ThreadStarts
<1>5. QED
  BY <1>2, <1>3, <1>4

LEMMA SelectStep ==
  ASSUME TabHolds, NEW a, A!SelectAgent(a), late' = {}
  PROVE  TabHolds'
<1> DEFINE first == A!Asked("stop", selected)
           last == A!Asked("stop", a)
           mid == IF selected = A!None THEN requests ELSE Append(requests, first)
<1>1. a \in Who /\ selected \in Who /\ requests \in Seq(Threads)
  BY DEF A!SelectAgent, TabHolds, TabTypes, Who
<1>2. /\ first \in Threads /\ first.kind = "stop" /\ first.agent = selected
      /\ last \in Threads /\ last.kind = "stop" /\ last.agent = a
  BY <1>1 DEF A!Asked, Threads
<1>3. /\ selected' = a /\ streaming' = FALSE /\ UNCHANGED <<tree, streams>>
      /\ requests' = requests \o (IF selected = A!None THEN <<>> ELSE <<first>>) \o <<last>>
      /\ A!StartPolling(a)
  BY DEF A!SelectAgent
<1>4. \A x \in links' : DOMAIN x = {"agent", "at", "id"} /\ x.agent \in Who
  <2> DEFINE new == [agent |-> a, at |-> "reads", id |-> A!NoTimer]
  <2>1. PICK outlived \in SUBSET links : links' = outlived \cup {new}
    BY DEF A!SelectAgent
  <2>2. DOMAIN new = {"agent", "at", "id"} /\ new.agent \in Who
    BY <1>1
  <2> HIDE DEF new
  <2>3. QED
    BY <2>1, <2>2 DEF TabHolds, TabTypes
<1> HIDE DEF first, last
<1>5. /\ mid \in Seq(Threads) /\ StartsShown(mid, a, FALSE) /\ StreamsShown(mid, streams, a, FALSE)
  <2>1. CASE selected = A!None
    <3>1. \A b : ~Shown(b, selected, streaming) /\ ~Shown(b, a, FALSE)
      BY <2>1 DEF Shown, TabHolds, TabTypes
    <3>2. StartsShown(requests, selected, streaming) /\ StreamsShown(requests, streams, selected, streaming)
      BY DEF TabHolds
    <3>3. QED
      BY <1>1, <2>1, <3>1, <3>2 DEF StartsShown, StreamsShown
  <2>2. CASE selected # A!None
    <3>1. \A b : Shown(b, selected, streaming) => first.kind = "stop" /\ first.agent = b
      BY <1>2 DEF Shown
    <3>2. QED
      BY <1>1, <1>2, <2>2, <3>1, Appended DEF TabHolds
  <2>3. QED
    BY <2>1, <2>2
<1>6. requests' = Append(mid, last)
  <2>1. requests \o <<>> = requests
    BY <1>1, ConcatEmptySeq
  <2>2. \A s \in Seq(Threads), e \in Threads : s \o <<e>> = Append(s, e)
    BY AppendIsConcat
  <2>3. QED
    BY <1>1, <1>2, <1>3, <1>5, <2>1, <2>2
<1> HIDE DEF mid
<1>7. /\ Append(mid, last) \in Seq(Threads) /\ StartsShown(Append(mid, last), a, FALSE)
      /\ StreamsShown(Append(mid, last), streams, a, FALSE)
  <2>1. \A b : ~Shown(b, a, FALSE)
    BY DEF Shown
  <2>2. QED
    BY <1>2, <1>5, <2>1, Appended
<1>8. DOMAIN polled' = A!Timer /\ PolledOne(polled', afterId', a)
  BY <1>3, Started
<1>9. QED
  BY <1>1, <1>3, <1>4, <1>6, <1>7, <1>8 DEF TabHolds, TabTypes

LEMMA ServeStep == ASSUME TabHolds, NEW i, A!Serve(i), late = {}, late' = {} PROVE TabHolds'
<1> DEFINE r == requests[i]
<1>1. requests \in Seq(Threads) /\ DOMAIN requests = 1 .. Len(requests)
  BY LenProperties DEF TabHolds, TabTypes
<1>2. i \in 1 .. Len(requests)
  BY <1>1 DEF A!Serve
<1>3. r \in Threads
  BY <1>1, <1>2, ElementOfSeq
<1>4. /\ UNCHANGED <<tree, selected, streaming, polled, afterId, links>>
      /\ streams' = CASE r.kind = "start" -> streams \cup {r.agent}
                      [] r.kind = "stop" -> streams \ {r.agent}
                      [] OTHER -> streams
      /\ requests' = IF A!OfStream(r) THEN A!RemoveAt(requests, i)
                     ELSE [requests EXCEPT ![i].answered = TRUE]
      /\ A!OfStream(r) =>
           ~\E j \in 1 .. i - 1 : A!OfStream(requests[j]) /\ requests[j].agent = r.agent
  BY DEF A!Serve, A!pollVars
<1>5. /\ StartsShown(requests, selected, streaming)
      /\ StreamsShown(requests, streams, selected, streaming)
  BY DEF TabHolds
<1> HIDE DEF r
<1>6. /\ requests' \in Seq(Threads) /\ StartsShown(requests', selected, streaming)
      /\ StreamsShown(requests', streams', selected, streaming)
  <2>1. CASE ~A!OfStream(r)
    <3>1. streams' = streams
      BY <1>4, <2>1 DEF A!OfStream
    <3>2. QED
      BY <1>1, <1>2, <1>4, <1>5, <2>1, <3>1, Flagged DEF r
  <2>2. CASE A!OfStream(r)
    <3>1. requests' \in Seq(Threads)
      BY <1>1, <1>2, <1>4, <2>2, RemovedPlaces
    <3>2. StartsShown(requests', selected, streaming)
      BY <1>1, <1>2, <1>4, <1>5, <2>2, StartsWithout DEF r
    <3>3. CASE r.kind = "start"
      <4>1. streams' = streams \cup {r.agent}
        BY <1>4, <3>3
      <4>2. StreamsShown(A!RemoveAt(requests, i), streams \cup {requests[i].agent}, selected, streaming)
        BY <1>1, <1>2, <1>5, <3>3, StreamsWith DEF r
      <4>3. QED
        BY <1>4, <2>2, <3>1, <3>2, <4>1, <4>2 DEF r
    <3>4. CASE r.kind = "stop"
      <4>1. streams' = streams \ {r.agent}
        BY <1>4, <3>4
      <4>2. StreamsShown(A!RemoveAt(requests, i), streams \ {requests[i].agent}, selected, streaming)
        BY <1>1, <1>2, <1>5, <3>4, StreamsWithout DEF r
      <4>3. QED
        BY <1>4, <2>2, <3>1, <3>2, <4>1, <4>2 DEF r
    <3>5. QED
      BY <2>2, <3>3, <3>4 DEF A!OfStream
  <2>3. QED
    BY <2>1, <2>2
<1>7. QED
  BY <1>4, <1>6 DEF TabHolds, TabTypes

\* A thread that is not one of the stream ends.
LEMMA OtherEnds ==
  ASSUME TabHolds, NEW i \in 1 .. Len(requests), ~A!OfStream(requests[i])
  PROVE  /\ A!RemoveAt(requests, i) \in Seq(Threads)
         /\ StartsShown(A!RemoveAt(requests, i), selected, streaming)
         /\ StreamsShown(A!RemoveAt(requests, i), streams, selected, streaming)
<1>1. /\ requests \in Seq(Threads) /\ StartsShown(requests, selected, streaming)
      /\ StreamsShown(requests, streams, selected, streaming)
      /\ requests[i].kind # "stop"
  BY DEF TabHolds, TabTypes, A!OfStream
<1>2. A!RemoveAt(requests, i) \in Seq(Threads)
  BY <1>1, RemovedPlaces
<1>3. StartsShown(A!RemoveAt(requests, i), selected, streaming)
  BY <1>1, StartsWithout
<1>4. StreamsShown(A!RemoveAt(requests, i), streams, selected, streaming)
  BY <1>1, StreamsWithout
<1>5. QED
  BY <1>2, <1>3, <1>4

LEMMA FailStep == ASSUME TabHolds, NEW i, A!Fail(i), late' = {} PROVE TabHolds'
<1>1. requests \in Seq(Threads) /\ DOMAIN requests = 1 .. Len(requests)
  BY LenProperties DEF TabHolds, TabTypes
<1>2. i \in 1 .. Len(requests) /\ ~A!OfStream(requests[i])
  BY <1>1 DEF A!Fail
<1>3. /\ UNCHANGED <<tree, selected, streaming, streams, polled, afterId, links>>
      /\ requests' = IF requests[i].kind = "reset" THEN [requests EXCEPT ![i].answered = TRUE]
                     ELSE A!RemoveAt(requests, i)
  BY DEF A!Fail, A!pollVars
<1>4. /\ requests' \in Seq(Threads) /\ StartsShown(requests', selected, streaming)
      /\ StreamsShown(requests', streams, selected, streaming)
  <2>1. CASE requests[i].kind = "reset"
    BY <1>1, <1>2, <1>3, <2>1, Flagged DEF TabHolds
  <2>2. CASE requests[i].kind # "reset"
    BY <1>2, <1>3, <2>2, OtherEnds
  <2>3. QED
    BY <2>1, <2>2
<1>5. QED
  BY <1>3, <1>4 DEF TabHolds, TabTypes

\* Only requests that are not of the stream wait for the window.
LEMMA AnsweredTabStep ==
  ASSUME TabHolds, NEW i, A!Answered(i), late' = {}
  PROVE  TabHolds'
<1> DEFINE r == requests[i]
<1>1. requests \in Seq(Threads) /\ DOMAIN requests = 1 .. Len(requests)
  BY LenProperties DEF TabHolds, TabTypes
<1>2. i \in 1 .. Len(requests) /\ ~A!OfStream(requests[i])
  <2>1. i \in 1 .. Len(requests) /\ requests[i].answered
    BY <1>1 DEF A!Answered
  <2>2. requests[i] \in Threads
    BY <1>1, <2>1, ElementOfSeq
  <2>3. QED
    BY <2>1, <2>2 DEF Threads
<1>3. /\ UNCHANGED <<selected, streaming, streams, links>>
      /\ tree' \in IF r.kind = "list" THEN SUBSET Listed ELSE {tree}
      /\ requests' = A!RemoveAt(requests, i)
  BY DEF A!Answered
<1>4. DOMAIN polled' = A!Timer /\ PolledOne(polled', afterId', selected)
  <2>1. CASE r.kind = "reset"
    <3>1. A!StartPolling(r.agent) /\ r.agent = selected
      BY <2>1 DEF A!Answered
    <3>2. QED
      BY <3>1, Started
  <2>2. CASE r.kind # "reset"
    BY <2>2 DEF A!Answered, A!pollVars, TabHolds, TabTypes
  <2>3. QED
    BY <2>1, <2>2
<1>5. tree' \subseteq Listed
  BY <1>3 DEF TabHolds, TabTypes
<1>6. QED
  BY <1>2, <1>3, <1>4, <1>5, OtherEnds DEF TabHolds, TabTypes

LEMMA TabStep == TabInv /\ late = {} /\ A!Next => TabInv'
<1> SUFFICES ASSUME TabHolds, late = {}, late' = {}, A!Next PROVE TabHolds'
  BY DEF TabInv
<1>1. ASSUME NEW a, A!SelectAgent(a) PROVE TabHolds'
  BY <1>1, SelectStep
<1>2. ASSUME NEW i, A!Serve(i) \/ A!Fail(i) \/ A!Answered(i) PROVE TabHolds'
  BY <1>2, ServeStep, FailStep, AnsweredTabStep
<1>3. QED
  BY <1>1, <1>2, AskingStep, TickStep, LinkStepOfTab DEF A!Next

LEMMA TabStarts == A!Init => TabInv
<1> SUFFICES ASSUME A!Init PROVE TabHolds
  BY DEF TabInv
<1>1. <<>> \in Seq(Threads) /\ Len(<<>>) = 0
  BY EmptySeq
<1>2. DOMAIN polled = A!Timer /\ \A i \in A!Timer : polled[i] = A!None
  BY DEF A!Init
<1>3. QED
  BY <1>1, <1>2 DEF A!Init, TabHolds, TabTypes, PolledOne, StartsShown, StreamsShown, Who

(* The analysis that the tab of the agents polls is the selected agent's,  *)
(* by one timer that can be cancelled, and a log is streamed only while    *)
(* the tab shows it or its stop is under way, as long as no thread ended   *)
(* late: for any agents and any number of threads.                         *)
THEOREM TabShows == AllSpec => []OnlyWhatIsShown
<1>1. AllInit => TabInv
  BY TabStarts DEF AllInit
<1>2. TabInv /\ [AllNext]_allVars => TabInv'
  <2> SUFFICES ASSUME TabInv, [AllNext]_allVars PROVE TabInv'
    OBVIOUS
  <2>1. CASE UNCHANGED tabVars
    BY <2>1 DEF tabVars, TabInv, TabHolds, TabTypes
  <2>2. CASE late = {} /\ A!Next
    BY <2>2, TabStep
  <2>3. QED
    BY <2>1, <2>2 DEF AllNext, allVars
<1>3. TabInv => OnlyWhatIsShown
  <2> SUFFICES ASSUME TabHolds PROVE OnlyWhatIsShown
    BY DEF TabInv, OnlyWhatIsShown, A!OnlyWhatIsShown
  <2>1. \A i \in A!Timer : polled[i] # A!None => i = afterId /\ polled[i] = selected
    BY DEF TabHolds, PolledOne
  <2>2. ASSUME NEW a \in streams
        PROVE  \/ a = selected /\ streaming
               \/ \E i \in DOMAIN requests : requests[i].kind = "stop" /\ requests[i].agent = a
    <3>1. DOMAIN requests = 1 .. Len(requests)
      BY LenProperties DEF TabHolds, TabTypes
    <3>2. QED
      BY <3>1 DEF TabHolds, StreamsShown, Shown, StopAfter
  <2>3. QED
    BY <2>1, <2>2 DEF OnlyWhatIsShown, A!OnlyWhatIsShown
<1>4. QED
  BY <1>1, <1>2, <1>3, PTL DEF AllSpec

-----------------------------------------------------------------------------
(* The downloads.                                                          *)

Contents == {G!Content(q.file, v) : q \in Download, v \in DOMAIN Pieces}
ContentsOf(r) == {G!Content(r.file, v) : v \in DOMAIN Pieces}
PieceOf == {q.file : q \in Download} \X (DOMAIN Pieces) \X Nat

Packets ==
  [type : {"refusal"}, request : Download]
    \cup [type : {"accepted"}, request : Download, digest : Contents]
    \cup [type : {"piece"}, piece : PieceOf]

GetTypes ==
  /\ getAt \in [Download -> {"new", "draining", "open", "ended"}]
  /\ DOMAIN getResult = Download /\ DOMAIN saved = Download
  /\ lock \in [Peer -> SUBSET Download]
  /\ gets \in Seq(Download)
  /\ getDown \in [Peer -> Seq(Download)]
  /\ getUp \in [Peer -> Seq(Packets)] /\ getOld \in [Peer -> Seq(Packets)]
  /\ \A a \in DOMAIN receiver :
       DOMAIN receiver[a] = {"digest", "pieces"} /\ receiver[a].digest \in Contents

Empty(a) == getDown[a] = <<>> /\ getUp[a] = <<>> /\ getOld[a] = <<>>

\* Nothing is under way but what some request of the agent asked for.
UnderWayAsked == \A a \in Peer : Empty(a) \/ \E q \in Download : q.agent = a /\ getAt[q] # "new"

InTable(q) == \E i \in DOMAIN gets : gets[i] = q

\* A request is in the table while it is under way.
UnderWayInTable ==
  /\ \A q \in Download : getAt[q] \in {"draining", "open"} => InTable(q)
  /\ \A i \in DOMAIN gets : getAt[gets[i]] # "new"

\* It holds the lock of its agent, unless that was dropped.
UnderWayLocks ==
  \A q \in Download \ getCrossed :
    getAt[q] \in {"draining", "open"} => q \in lock[q.agent]

\* The receiver of a, if there is one, is for the file of r.
ReceiverOf(rcv, a, r) == a \in DOMAIN rcv => rcv[a].digest \in ContentsOf(r)

\* In what the server has to read of one connection only r is accepted, and no piece
\* comes before that, unless the receiver is already for its file.
ReadsOf(c, r, mine) ==
  \A i \in DOMAIN c :
    /\ c[i].type = "accepted" => c[i].digest \in ContentsOf(r)
    /\ c[i].type = "piece" => mine \/ \E j \in DOMAIN c : j < i /\ c[j].type = "accepted"

AsksFor(d, r) == \A i \in DOMAIN d : d[i] = r

\* A request that has met no other is alone in the table and on the connections.
Alone(r) ==
  /\ Len(gets) = 1
  /\ \A a \in Peer \ {r.agent} : Empty(a)
  /\ AsksFor(getDown[r.agent], r)
  /\ ReadsOf(getUp[r.agent], r, ReceiverOf(receiver, r.agent, r))
  /\ ReadsOf(getOld[r.agent], r, ReceiverOf(receiver, r.agent, r))

AloneUnlessCrossed == \A i \in DOMAIN gets : gets[i] \notin getCrossed => Alone(gets[i])

GetInv ==
  /\ GetTypes /\ UnderWayAsked /\ UnderWayInTable /\ UnderWayLocks
  /\ AloneUnlessCrossed
  /\ SavedIsWhole

LEMMA ContentStarts ==
  ASSUME NEW r, NEW c \in ContentsOf(r)
  PROVE  c # <<>> /\ c[1][1] = r.file
<1>1. PICK v \in DOMAIN Pieces : c = G!Content(r.file, v)
  BY DEF ContentsOf
<1>2. Pieces[v] \in Nat \ {0}
  BY DownloadAssumption, LenProperties, ElementOfSeq
<1>3. 1 \in 1 .. Pieces[v]
  BY <1>2
<1>4. 1 \in DOMAIN c /\ c[1] = <<r.file, v, 1>>
  BY <1>1, <1>3 DEF G!Content
<1>5. QED
  BY <1>4

\* What is saved stays, and nothing new is reported.
LEMMA SavedKept ==
  ASSUME SavedIsWhole, getCrossed \subseteq getCrossed', UNCHANGED saved,
         \A q \in Download : getResult'[q] = "ok" => getResult[q] = "ok"
  PROVE  SavedIsWhole'
BY DEF SavedIsWhole, G!SavedIsWhole, G!OwnFile

LEMMA ReadsNone == \A r, m : ReadsOf(<<>>, r, m)
BY DEF ReadsOf

LEMMA ReadsTail ==
  ASSUME NEW c \in Seq(Packets), c # <<>>, NEW r, NEW m, NEW n, ReadsOf(c, r, m),
         m => n, Head(c).type = "accepted" => n
  PROVE  ReadsOf(Tail(c), r, n)
<1>1. /\ Len(c) \in Nat /\ DOMAIN c = 1 .. Len(c) /\ Head(c) = c[1]
      /\ Tail(c) \in Seq(Packets) /\ Len(Tail(c)) = Len(c) - 1
      /\ \A i \in 1 .. Len(Tail(c)) : Tail(c)[i] = c[i + 1]
  BY HeadTailProperties, LenProperties
<1> DEFINE t == Tail(c)
<1>2. DOMAIN t = 1 .. Len(c) - 1
  BY <1>1, LenProperties
<1>3. \A i \in DOMAIN t : i + 1 \in DOMAIN c /\ t[i] = c[i + 1]
  BY <1>1, <1>2
<1> HIDE DEF t
<1>4. ASSUME NEW i \in DOMAIN t, t[i].type = "piece", ~n
      PROVE  \E j \in DOMAIN t : j < i /\ t[j].type = "accepted"
  <2>1. PICK j \in DOMAIN c : j < i + 1 /\ c[j].type = "accepted"
    BY <1>3, <1>4 DEF ReadsOf
  <2>2. j # 1
    BY <1>1, <1>4, <2>1
  <2>3. j - 1 \in DOMAIN t /\ j - 1 < i /\ (j - 1) + 1 = j
    BY <1>1, <1>2, <2>1, <2>2
  <2>4. QED
    BY <1>3, <2>1, <2>3
<1>5. QED
  BY <1>3, <1>4 DEF ReadsOf, t

LEMMA ReadsPrefix ==
  ASSUME NEW c \in Seq(Packets), NEW n \in 0 .. Len(c), NEW r, NEW m, ReadsOf(c, r, m)
  PROVE  SubSeq(c, 1, n) \in Seq(Packets) /\ ReadsOf(SubSeq(c, 1, n), r, m)
<1> DEFINE t == SubSeq(c, 1, n)
<1>1. Len(c) \in Nat /\ DOMAIN c = 1 .. Len(c) /\ \A i \in 1 .. Len(c) : c[i] \in Packets
  BY LenProperties, ElementOfSeq
<1>2. t \in Seq(Packets) /\ Len(t) = n /\ \A i \in 1 .. n : t[i] = c[i]
  <2>1. 1 \in Int /\ n \in Int /\ \A i \in 1 .. n : c[i] \in Packets
    BY <1>1
  <2>2. /\ t \in Seq(Packets) /\ Len(t) = IF 1 <= n THEN n - 1 + 1 ELSE 0
        /\ \A i \in 1 .. n - 1 + 1 : t[i] = c[1 + i - 1]
    BY <2>1, SubSeqProperties
  <2>3. QED
    BY <1>1, <2>2
<1>3. DOMAIN t = 1 .. n /\ \A i \in DOMAIN t : i \in DOMAIN c /\ t[i] = c[i]
  BY <1>1, <1>2, LenProperties
<1>4. \A i \in 1 .. n, j \in 1 .. Len(c) : j < i => j \in 1 .. n
  BY <1>1
<1> HIDE DEF t
<1>5. QED
  BY <1>1, <1>2, <1>3, <1>4 DEF ReadsOf, t

\* The answer of the agent: an acceptance, and pieces after it; or a refusal.
LEMMA ReadsAnswer ==
  ASSUME NEW c \in Seq(Packets), NEW k \in Packets, NEW s \in Seq(Packets), NEW r, NEW m,
         ReadsOf(c, r, m),
         k.type = "accepted" => k.digest \in ContentsOf(r), k.type # "piece",
         \A i \in DOMAIN s : s[i].type = "piece" /\ k.type = "accepted"
  PROVE  c \o <<k>> \o s \in Seq(Packets) /\ ReadsOf(c \o <<k>> \o s, r, m)
<1> DEFINE a == Append(c, k)
           t == a \o s
           n == Len(c) + 1
<1>1. /\ Len(c) \in Nat /\ DOMAIN c = 1 .. Len(c) /\ Len(s) \in Nat /\ DOMAIN s = 1 .. Len(s)
      /\ c \o <<k>> = a
      /\ a \in Seq(Packets) /\ Len(a) = n /\ a[n] = k /\ \A i \in 1 .. Len(c) : a[i] = c[i]
  BY AppendProperties, AppendIsConcat, LenProperties
<1> HIDE DEF a
<1>2. /\ t \in Seq(Packets) /\ Len(t) = Len(a) + Len(s)
      /\ \A i \in 1 .. Len(a) + Len(s) : t[i] = IF i <= Len(a) THEN a[i] ELSE s[i - Len(a)]
  <2>1. a \in Seq(Packets) /\ s \in Seq(Packets)
    BY <1>1
  <2>2. QED
    BY ONLY <2>1, ConcatProperties
<1>3. DOMAIN t = 1 .. n + Len(s)
  BY <1>1, <1>2, LenProperties
<1>4. /\ n \in DOMAIN t /\ t[n] = k
      /\ \A i \in DOMAIN c : i \in DOMAIN t /\ t[i] = c[i]
      /\ \A i \in DOMAIN t : i \notin DOMAIN c /\ i # n => i > n /\ i - n \in DOMAIN s /\ t[i] = s[i - n]
  BY <1>1, <1>2, <1>3
<1>5. c \o <<k>> \o s = t
  BY <1>1
<1> HIDE DEF t, n
<1>6. ASSUME NEW i \in DOMAIN t
      PROVE  /\ t[i].type = "accepted" => t[i].digest \in ContentsOf(r)
             /\ t[i].type = "piece" => m \/ \E j \in DOMAIN t : j < i /\ t[j].type = "accepted"
  <2>1. CASE i \in DOMAIN c
    BY <1>4, <2>1 DEF ReadsOf
  <2>2. CASE i = n
    BY <1>4, <2>2
  <2>3. CASE i \notin DOMAIN c /\ i # n
    BY <1>4, <2>3
  <2>4. QED
    BY <2>1, <2>2, <2>3
<1>7. t \in Seq(Packets) /\ ReadsOf(t, r, m)
  BY <1>2, <1>6 DEF ReadsOf
<1>8. QED
  BY <1>5, <1>7

LEMMA QuietAtFirst ==
  ASSUME GetInv, NEW r \in Download, G!Ask(r), r \notin getCrossed'
  PROVE  gets = <<>> /\ \A a \in Peer : Empty(a)
<1>1. \A q \in Download : ~G!Meets(q, r)
  BY DEF G!Ask
<1>2. getAt[r] = "new" /\ lock[r.agent] = {}
  BY DEF G!Ask, G!LockFree
<1>3. ASSUME NEW i \in DOMAIN gets PROVE FALSE
  <2> DEFINE q == gets[i]
  <2>1. q \in Download
    BY LenProperties, ElementOfSeq DEF GetInv, GetTypes
  <2>2. q # r
    BY <1>2 DEF GetInv, UnderWayInTable
  <2>3. q \in G!ToSet(gets)
    BY DEF G!ToSet
  <2>4. q.agent = r.agent /\ getAt[q] # "ended" /\ q \notin getCrossed
    BY <1>1, <2>1, <2>2, <2>3 DEF G!Meets
  <2>5. getAt[q] \in {"draining", "open"}
    BY <2>1, <2>4 DEF GetInv, GetTypes, UnderWayInTable
  <2>6. QED
    BY <1>2, <2>1, <2>4, <2>5 DEF GetInv, UnderWayLocks
<1>4. gets = <<>>
  <2>1. gets \in Seq(Download)
    BY DEF GetInv, GetTypes
  <2>2. gets # <<>> => 1 \in DOMAIN gets
    BY <2>1, LenProperties, EmptySeq
  <2>3. QED
    BY <1>3, <2>2
<1>5. ASSUME NEW a \in Peer, ~Empty(a) PROVE FALSE
  <2>1. PICK q \in Download : q.agent = a /\ getAt[q] # "new"
    BY <1>5 DEF GetInv, UnderWayAsked
  <2>2. getAt[q] = "ended"
    BY <1>3, <2>1 DEF GetInv, GetTypes, UnderWayInTable, InTable
  <2>3. getDown[a] \o getUp[a] \o getOld[a] # <<>>
    <3> DEFINE S == Download \cup Packets
    <3>1. getDown[a] \in Seq(Download) /\ getUp[a] \in Seq(Packets) /\ getOld[a] \in Seq(Packets)
      BY DEF GetInv, GetTypes
    <3>2. getDown[a] \in Seq(S) /\ getUp[a] \in Seq(S) /\ getOld[a] \in Seq(S)
      BY <3>1, SeqMonotonic
    <3> HIDE DEF S
    <3>3. getDown[a] \o getUp[a] \in Seq(S)
      BY <3>2, ConcatProperties
    <3>4. QED
      BY <1>5, <3>2, <3>3, ConcatEqualIffEmpty DEF Empty
  <2>4. QED
    BY <1>1, <1>2, <2>1, <2>2, <2>3 DEF G!Meets
<1>6. QED
  BY <1>4, <1>5

\* A packet of agent a, of which the only request in the table that has met no other asks.
LEMMA PacketStep ==
  ASSUME GetTypes, SavedIsWhole, NEW a \in Peer, NEW k \in Packets, G!HandlePacket(a, k),
         UNCHANGED getCrossed,
         \A i \in DOMAIN gets : gets[i] \notin getCrossed =>
           /\ k.type = "accepted" => k.digest \in ContentsOf(gets[i])
           /\ k.type = "piece" => ReceiverOf(receiver, a, gets[i])
  PROVE  /\ gets' = gets
         /\ DOMAIN getResult' = Download /\ DOMAIN saved' = Download
         /\ \A b \in DOMAIN receiver' :
              DOMAIN receiver'[b] = {"digest", "pieces"} /\ receiver'[b].digest \in Contents
         /\ SavedIsWhole'
         /\ \A i \in DOMAIN gets : gets[i] \notin getCrossed =>
              (k.type = "accepted" \/ ReceiverOf(receiver, a, gets[i])
                 => ReceiverOf(receiver', a, gets[i]))
<1>1. /\ gets \in Seq(Download) /\ DOMAIN getResult = Download /\ DOMAIN saved = Download
      /\ \A b \in DOMAIN receiver :
           DOMAIN receiver[b] = {"digest", "pieces"} /\ receiver[b].digest \in Contents
  BY DEF GetTypes
<1>2. CASE k.type = "refusal"
  <2>1. /\ receiver' = receiver /\ gets' = gets /\ saved' = saved
        /\ getResult' = getResult \/ getResult' = [getResult EXCEPT ![k.request] = "error"]
    BY <1>2 DEF G!HandlePacket, G!Acknowledged
  <2>2. \A q \in Download : getResult'[q] = "ok" => getResult[q] = "ok"
    BY <1>1, <2>1
  <2>3. SavedIsWhole'
    BY <2>1, <2>2, SavedKept
  <2>4. QED
    BY <1>1, <1>2, <2>1, <2>3
<1>3. CASE k.type = "accepted"
  <2> DEFINE new == [digest |-> k.digest, pieces |-> <<>>]
  <2>1. receiver' = G!WithReceiver(a, new) /\ gets' = gets /\ saved' = saved /\ getResult' = getResult
    BY <1>3 DEF G!HandlePacket, G!Acknowledged
  <2>2. k.digest \in Contents
    BY <1>3 DEF Packets
  <2>3. DOMAIN new = {"digest", "pieces"} /\ new.digest = k.digest
    OBVIOUS
  <2> HIDE DEF new
  <2>4. /\ DOMAIN receiver' = DOMAIN receiver \cup {a} /\ receiver'[a] = new
        /\ \A b \in DOMAIN receiver : b # a => receiver'[b] = receiver[b]
    BY <2>1 DEF G!WithReceiver
  <2>5. SavedIsWhole'
    BY <2>1, SavedKept
  <2>6. QED
    BY <1>1, <1>3, <2>1, <2>2, <2>3, <2>4, <2>5 DEF ReceiverOf
<1>4. CASE k.type = "piece"
  <2>1. G!Received(a, k)
    BY <1>4 DEF G!HandlePacket
  <2>2. CASE a \notin DOMAIN receiver
    <3>1. UNCHANGED <<receiver, getResult, saved, gets>>
      BY <2>1, <2>2 DEF G!Received
    <3>2. SavedIsWhole'
      BY <3>1, SavedKept
    <3>3. QED
      BY <1>1, <1>4, <3>1, <3>2
  <2>3. CASE a \in DOMAIN receiver
    <3> DEFINE rcv == [receiver[a] EXCEPT !.pieces = G!With(@, k.piece)]
               outcome == IF G!DigestMatches(rcv) THEN "ok" ELSE "error"
    <3>1. DOMAIN rcv = {"digest", "pieces"} /\ rcv.digest = receiver[a].digest
      BY <1>1, <2>3
    <3>2. \/ receiver' = G!WithReceiver(a, rcv) /\ UNCHANGED <<getResult, saved, gets>>
          \/ /\ receiver' = G!WithoutReceiver(a) /\ gets' = gets
             /\ \/ UNCHANGED <<getResult, saved>>
                \/ /\ gets # <<>>
                   /\ getResult' = IF getResult[gets[1]] = "pending"
                                   THEN [getResult EXCEPT ![gets[1]] = outcome] ELSE getResult
                   /\ saved' = IF outcome = "ok"
                               THEN [saved EXCEPT ![gets[1]] = G!Assembled(rcv)] ELSE saved
      BY <2>1, <2>3 DEF G!Received
    <3>3. outcome = "ok" => G!Assembled(rcv) = receiver[a].digest
      BY <3>1 DEF G!DigestMatches
    <3> HIDE DEF rcv, outcome
    <3>4. CASE receiver' = G!WithReceiver(a, rcv) /\ UNCHANGED <<getResult, saved, gets>>
      <4>1. /\ DOMAIN receiver' = DOMAIN receiver \cup {a} /\ receiver'[a] = rcv
            /\ \A b \in DOMAIN receiver : b # a => receiver'[b] = receiver[b]
        BY <3>4 DEF G!WithReceiver
      <4>2. SavedIsWhole'
        BY <3>4, SavedKept
      <4>3. QED
        BY <1>1, <1>4, <2>3, <3>1, <3>4, <4>1, <4>2 DEF ReceiverOf
    <3>5. ASSUME receiver' = G!WithoutReceiver(a)
          PROVE  /\ DOMAIN receiver' = DOMAIN receiver \ {a}
                 /\ \A b \in DOMAIN receiver : b # a => receiver'[b] = receiver[b]
      BY <3>5 DEF G!WithoutReceiver
    <3>6. CASE receiver' = G!WithoutReceiver(a) /\ gets' = gets /\ UNCHANGED <<getResult, saved>>
      <4>1. SavedIsWhole'
        BY <3>6, SavedKept
      <4>2. QED
        BY <1>1, <1>4, <3>5, <3>6, <4>1 DEF ReceiverOf
    <3>7. CASE /\ receiver' = G!WithoutReceiver(a) /\ gets' = gets /\ gets # <<>>
               /\ getResult' = IF getResult[gets[1]] = "pending"
                               THEN [getResult EXCEPT ![gets[1]] = outcome] ELSE getResult
               /\ saved' = IF outcome = "ok"
                           THEN [saved EXCEPT ![gets[1]] = G!Assembled(rcv)] ELSE saved
      <4> DEFINE first == gets[1]
      <4>1. 1 \in DOMAIN gets /\ first \in Download
        BY <1>1, <3>7, LenProperties, ElementOfSeq, EmptySeq
      <4>2. receiver[a].digest \in Contents
        BY <1>1, <2>3
      <4>3. /\ DOMAIN saved' = Download /\ DOMAIN getResult' = Download
            /\ \A q \in Download : q # first => saved'[q] = saved[q] /\ getResult'[q] = getResult[q]
            /\ \/ saved'[first] = receiver[a].digest
               \/ /\ saved'[first] = saved[first]
                  /\ getResult'[first] = "ok" => getResult[first] = "ok"
        <5>1. outcome = "ok" \/ outcome = "error"
          BY DEF outcome
        <5>2. CASE outcome = "ok"
          BY <1>1, <3>3, <3>7, <4>1, <5>2
        <5>3. CASE outcome = "error"
          BY <1>1, <3>7, <4>1, <5>3
        <5>4. QED
          BY <5>1, <5>2, <5>3
      <4>4. G!SavedIsWhole'
        <5>1. \A q \in Download : saved'[q] = saved[q] \/ saved'[q] \in Contents
          BY <4>2, <4>3
        <5>2. QED
          BY <5>1 DEF SavedIsWhole, G!SavedIsWhole, Contents
      <4>5. first \notin getCrossed /\ saved'[first] = receiver[a].digest =>
              saved'[first] # <<>> /\ saved'[first][1][1] = first.file
        BY <1>4, <2>3, <4>1, ContentStarts DEF ReceiverOf
      <4> HIDE DEF first
      <4>6. G!OwnFile'
        BY <4>1, <4>3, <4>5 DEF SavedIsWhole, G!OwnFile
      <4>7. SavedIsWhole'
        BY <4>4, <4>6 DEF SavedIsWhole
      <4>8. QED
        BY <1>1, <1>4, <3>5, <3>7, <4>3, <4>7 DEF ReceiverOf
    <3>8. QED
      BY <3>2, <3>4, <3>6, <3>7
  <2>4. QED
    BY <2>2, <2>3
<1>5. QED
  BY <1>2, <1>3, <1>4 DEF Packets

\* Nothing changes but where coroutines are, the locks, and what met another.
LEMMA OnlyPlaces ==
  ASSUME GetInv,
         UNCHANGED <<gets, receiver, saved, getDown, getUp, getOld>>,
         getCrossed \subseteq getCrossed',
         getAt' \in [Download -> {"new", "draining", "open", "ended"}],
         \A q \in Download : (getAt'[q] = "new" <=> getAt[q] = "new"),
         \A q \in Download : getAt'[q] \in {"draining", "open"} => getAt[q] \in {"draining", "open"},
         lock' \in [Peer -> SUBSET Download],
         \A q \in Download \ getCrossed' :
           getAt'[q] \in {"draining", "open"} /\ q \in lock[q.agent] => q \in lock'[q.agent],
         getResult' = getResult
  PROVE  GetInv'
<1>1. GetTypes'
  BY DEF GetInv, GetTypes
<1>2. \A a \in Peer : Empty(a)' <=> Empty(a)
  BY DEF Empty
<1>3. UnderWayAsked'
  BY <1>2 DEF GetInv, UnderWayAsked
<1>4. UnderWayInTable'
  <2>1. \A i \in DOMAIN gets : gets[i] \in Download
    BY LenProperties, ElementOfSeq DEF GetInv, GetTypes
  <2>2. QED
    BY <2>1 DEF GetInv, UnderWayInTable, InTable
<1>5. UnderWayLocks'
  BY DEF GetInv, UnderWayLocks
<1>6. AloneUnlessCrossed'
  BY <1>2 DEF GetInv, AloneUnlessCrossed, Alone, ReceiverOf
<1>7. SavedIsWhole'
  BY SavedKept DEF GetInv
<1>8. QED
  BY <1>1, <1>3, <1>4, <1>5, <1>6, <1>7 DEF GetInv

LEMMA DrainStep ==
  ASSUME GetInv, NEW r \in Download, G!Drained(r) \/ G!DrainRaises(r)
  PROVE  GetInv'
<1>1. /\ UNCHANGED <<gets, receiver, saved, getDown, getUp, getOld, getCrossed, getResult>>
      /\ getAt[r] = "draining" /\ \E w \in {"open", "ended"} : getAt' = [getAt EXCEPT ![r] = w]
      /\ lock' = lock \/ (lock' = [lock EXCEPT ![r.agent] = @ \ {r}] /\ getAt'[r] = "ended")
  BY DEF G!Drained, G!DrainRaises, GetInv, GetTypes
<1>2. PICK w \in {"open", "ended"} : getAt' = [getAt EXCEPT ![r] = w]
  BY <1>1
<1>3. getAt \in [Download -> {"new", "draining", "open", "ended"}] /\ lock \in [Peer -> SUBSET Download]
  BY DEF GetInv, GetTypes
<1>4. /\ getAt' \in [Download -> {"new", "draining", "open", "ended"}]
      /\ \A q \in Download : (getAt'[q] = "new" <=> getAt[q] = "new")
      /\ \A q \in Download : getAt'[q] \in {"draining", "open"} => getAt[q] \in {"draining", "open"}
  BY <1>1, <1>2, <1>3
<1>5. lock' \in [Peer -> SUBSET Download]
  BY <1>1, <1>3
<1>6. \A q \in Download :
        getAt'[q] \in {"draining", "open"} /\ q \in lock[q.agent] => q \in lock'[q.agent]
  BY <1>1, <1>3, DownloadAssumption
<1>7. QED
  BY <1>1, <1>4, <1>5, <1>6, OnlyPlaces

LEMMA HandlerEndsStep ==
  ASSUME GetInv, NEW a \in Peer, G!HandlerEnds(a)
  PROVE  GetInv'
<1>1. /\ UNCHANGED <<getAt, getResult, gets, saved, getDown, getUp, getOld>>
      /\ receiver' = G!WithoutReceiver(a)
      /\ lock' = [lock EXCEPT ![a] = {}]
      /\ getCrossed' = getCrossed \cup {r \in lock[a] : getAt[r] # "ended"}
  BY DEF G!HandlerEnds
<1>2. DOMAIN receiver' = DOMAIN receiver \ {a} /\ \A b \in DOMAIN receiver' : receiver'[b] = receiver[b]
  BY <1>1 DEF G!WithoutReceiver
<1>3. GetTypes'
  BY <1>1, <1>2 DEF GetInv, GetTypes
<1>4. \A b \in Peer : Empty(b)' <=> Empty(b)
  BY <1>1 DEF Empty
<1>5. UnderWayAsked' /\ UnderWayInTable'
  BY <1>1, <1>4 DEF GetInv, UnderWayAsked, UnderWayInTable, InTable
<1>6. UnderWayLocks'
  <2>1. \A q \in Download \ getCrossed' :
          getAt[q] \in {"draining", "open"} => q.agent # a /\ q \in lock[q.agent]
    BY <1>1 DEF GetInv, UnderWayLocks
  <2>2. QED
    BY <1>1, <2>1, DownloadAssumption DEF GetInv, GetTypes, UnderWayLocks
<1>7. AloneUnlessCrossed'
  <2>1. \A b, r : ReceiverOf(receiver, b, r) => ReceiverOf(receiver', b, r)
    BY <1>2 DEF ReceiverOf
  <2>2. \A c, r, m, n : (m => n) /\ ReadsOf(c, r, m) => ReadsOf(c, r, n)
    BY DEF ReadsOf
  <2>3. \A r : Alone(r) => Alone(r)'
    <3> SUFFICES ASSUME NEW r, Alone(r) PROVE Alone(r)'
      OBVIOUS
    <3>1. \A b \in Peer : Empty(b) => Empty(b)'
      BY <1>4
    <3>2. Len(gets') = 1 /\ AsksFor(getDown'[r.agent], r)
      BY <1>1 DEF Alone
    <3>3. /\ ReadsOf(getUp'[r.agent], r, ReceiverOf(receiver', r.agent, r))
          /\ ReadsOf(getOld'[r.agent], r, ReceiverOf(receiver', r.agent, r))
      BY <1>1, <2>1, <2>2 DEF Alone
    <3>4. QED
      BY <3>1, <3>2, <3>3 DEF Alone
  <2>4. QED
    BY <1>1, <2>3 DEF GetInv, AloneUnlessCrossed
<1>8. SavedIsWhole'
  BY <1>1, SavedKept DEF GetInv
<1>9. QED
  BY <1>3, <1>5, <1>6, <1>7, <1>8 DEF GetInv

LEMMA ReturnStep == ASSUME GetInv, NEW a \in Peer, G!Return(a) PROVE GetInv'
<1>1. UNCHANGED <<getAt, getResult, lock, gets, receiver, saved, getDown, getUp, getOld, getCrossed>>
  BY DEF G!Return
<1>2. QED
  BY <1>1, OnlyPlaces DEF GetInv, GetTypes

LEMMA AskGetStep == ASSUME GetInv, NEW r \in Download, G!Ask(r) PROVE GetInv'
<1> DEFINE a == r.agent
           n == Len(gets) + 1
<1>0. a \in Peer
  BY DownloadAssumption
<1>1. /\ getAt[r] = "new" /\ getAt' = [getAt EXCEPT ![r] = "draining"] /\ lock[a] = {}
      /\ getResult' = [getResult EXCEPT ![r] = "pending"]
      /\ lock' = [lock EXCEPT ![a] = @ \cup {r}]
      /\ gets' = Append(gets, r)
      /\ getDown' \in {getDown, [getDown EXCEPT ![a] = Append(@, r)]}
      /\ getCrossed \subseteq getCrossed'
      /\ \A q \in Download : G!Meets(q, r) => q \in getCrossed'
      /\ UNCHANGED <<receiver, saved, getUp, getOld>>
  BY DEF G!Ask, G!LockFree
<1>2. /\ gets \in Seq(Download) /\ Len(gets) \in Nat /\ DOMAIN gets = 1 .. Len(gets)
      /\ \A i \in DOMAIN gets : gets[i] \in Download
  BY LenProperties, ElementOfSeq DEF GetInv, GetTypes
<1>3. /\ gets' \in Seq(Download) /\ Len(gets') = n /\ DOMAIN gets' = 1 .. n
      /\ gets'[n] = r /\ n \in DOMAIN gets'
      /\ \A i \in DOMAIN gets : i \in DOMAIN gets' /\ gets'[i] = gets[i]
      /\ \A i \in DOMAIN gets' : i \in DOMAIN gets \/ i = n
  BY <1>1, <1>2, AppendProperties, LenProperties
<1>4. /\ getDown' \in [Peer -> Seq(Download)]
      /\ \A b \in Peer \ {a} : getDown'[b] = getDown[b]
      /\ getDown'[a] = getDown[a] \/ getDown'[a] = Append(getDown[a], r)
  <2>1. getDown \in [Peer -> Seq(Download)] /\ Append(getDown[a], r) \in Seq(Download)
    BY <1>0, AppendProperties DEF GetInv, GetTypes
  <2>2. QED
    BY <1>0, <1>1, <2>1
<1>5. /\ getAt'[r] = "draining"
      /\ \A q \in Download \ {r} : getAt'[q] = getAt[q]
      /\ getAt' \in [Download -> {"new", "draining", "open", "ended"}]
  BY <1>1 DEF GetInv, GetTypes
<1> HIDE DEF n
<1>6. GetTypes'
  BY <1>0, <1>1, <1>3, <1>4, <1>5 DEF GetInv, GetTypes
<1>7. UnderWayAsked'
  <2>1. \A b \in Peer \ {a} : Empty(b) => Empty(b)'
    BY <1>1, <1>4 DEF Empty
  <2>2. \A q \in Download : getAt[q] # "new" => getAt'[q] # "new"
    BY <1>5
  <2>3. QED
    BY <1>5, <2>1, <2>2 DEF GetInv, UnderWayAsked
<1>8. UnderWayInTable'
  BY <1>2, <1>3, <1>5 DEF GetInv, UnderWayInTable, InTable
<1>9. UnderWayLocks'
  <2>1. \A q \in Download : q \in lock[q.agent] => q \in lock'[q.agent]
    BY <1>0, <1>1, DownloadAssumption DEF GetInv, GetTypes
  <2>2. r \in lock'[a]
    BY <1>0, <1>1 DEF GetInv, GetTypes
  <2>3. QED
    BY <1>1, <1>5, <2>1, <2>2 DEF GetInv, UnderWayLocks
<1>10. AloneUnlessCrossed'
  <2> SUFFICES ASSUME NEW i \in DOMAIN gets', gets'[i] \notin getCrossed'
               PROVE  Alone(gets[i])'
    BY DEF AloneUnlessCrossed
  <2>1. CASE i \in DOMAIN gets
    <3> DEFINE q == gets[i]
    <3>1. q \in Download /\ q = gets'[i] /\ q \notin getCrossed /\ ~G!Meets(q, r)
      BY <1>1, <1>2, <1>3, <2>1
    <3>2. q # r /\ q \in G!ToSet(gets)
      BY <1>1, <2>1 DEF GetInv, UnderWayInTable, G!ToSet
    <3>3. q.agent = r.agent /\ getAt[q] # "ended"
      BY <3>1, <3>2 DEF G!Meets
    <3>4. getAt[q] \in {"draining", "open"}
      BY <2>1, <3>1, <3>3 DEF GetInv, GetTypes, UnderWayInTable
    <3>5. QED
      BY <1>1, <3>1, <3>3, <3>4 DEF GetInv, UnderWayLocks
  <2>2. CASE i = n
    <3>1. r \notin getCrossed'
      BY <1>3, <2>2
    <3>2. gets = <<>> /\ \A b \in Peer : Empty(b)
      BY <3>1, QuietAtFirst
    <3>3. Len(gets') = 1
      BY <1>3, <3>2 DEF n
    <3>4. \A b \in Peer \ {a} : Empty(b)'
      BY <1>1, <1>4, <3>2 DEF Empty
    <3>5. AsksFor(getDown'[a], r)
      <4>1. getDown[a] = <<>>
        BY <1>0, <3>2 DEF Empty
      <4>2. Append(<<>>, r) = <<r>>
        OBVIOUS
      <4>3. QED
        BY <1>4, <4>1, <4>2 DEF AsksFor
    <3>6. getUp'[a] = <<>> /\ getOld'[a] = <<>>
      BY <1>0, <1>1, <3>2 DEF Empty
    <3>7. QED
      BY <1>3, <2>2, <3>3, <3>4, <3>5, <3>6, ReadsNone DEF Alone
  <2>3. QED
    BY <1>3, <2>1, <2>2
<1>11. SavedIsWhole'
  <2>1. \A q \in Download : getResult'[q] = "ok" => getResult[q] = "ok"
    BY <1>1 DEF GetInv, GetTypes
  <2>2. QED
    BY <1>1, <2>1, SavedKept DEF GetInv
<1>12. QED
  BY <1>6, <1>7, <1>8, <1>9, <1>10, <1>11 DEF GetInv

LEMMA EndGetStep ==
  ASSUME GetInv, NEW r \in Download, G!Finish(r) \/ G!TimeOut(r)
  PROVE  GetInv'
<1> DEFINE a == r.agent
<1>0. a \in Peer
  BY DownloadAssumption
<1>1. /\ getAt[r] = "open" /\ getAt' = [getAt EXCEPT ![r] = "ended"]
      /\ \E i \in DOMAIN gets : gets[i] = r /\ gets' = G!RemoveAt(gets, i)
      /\ lock' = [lock EXCEPT ![a] = @ \ {r}]
      /\ getResult' = getResult \/ getResult' = [getResult EXCEPT ![r] = "error"]
      /\ receiver' = receiver \/ receiver' = G!WithoutReceiver(a)
      /\ UNCHANGED <<saved, getDown, getUp, getOld, getCrossed>>
  BY DEF G!Finish, G!TimeOut, G!Ends
<1>2. /\ gets \in Seq(Download) /\ Len(gets) \in Nat /\ DOMAIN gets = 1 .. Len(gets)
      /\ \A i \in DOMAIN gets : gets[i] \in Download
  BY LenProperties, ElementOfSeq DEF GetInv, GetTypes
<1>3. PICK i \in DOMAIN gets : gets[i] = r /\ gets' = G!RemoveAt(gets, i)
  BY <1>1
<1>4. /\ gets' \in Seq(Download) /\ Len(gets') = Len(gets) - 1 /\ DOMAIN gets' = 1 .. Len(gets) - 1
      /\ \A j \in 1 .. Len(gets) - 1 : gets'[j] = IF j < i THEN gets[j] ELSE gets[j + 1]
  <2>1. G!RemoveAt(gets, i) = A!RemoveAt(gets, i)
    BY DEF G!RemoveAt, A!RemoveAt
  <2>2. /\ A!RemoveAt(gets, i) \in Seq(Download) /\ Len(A!RemoveAt(gets, i)) = Len(gets) - 1
        /\ \A j \in 1 .. Len(gets) - 1 :
             A!RemoveAt(gets, i)[j] = IF j < i THEN gets[j] ELSE gets[j + 1]
    BY <1>2, RemovedPlaces
  <2>3. gets' \in Seq(Download) /\ Len(gets') = Len(gets) - 1
    BY <1>3, <2>1, <2>2
  <2>4. DOMAIN gets' = 1 .. Len(gets) - 1
    BY <2>3, LenProperties
  <2>5. QED
    BY <1>3, <2>1, <2>2, <2>3, <2>4
<1>5. \A j \in DOMAIN gets' : \E k \in DOMAIN gets : gets'[j] = gets[k]
  BY <1>2, <1>4
<1>6. \A k \in DOMAIN gets : gets[k] # r => \E j \in DOMAIN gets' : gets'[j] = gets[k]
  <2> SUFFICES ASSUME NEW k \in DOMAIN gets, gets[k] # r
               PROVE  \E j \in DOMAIN gets' : gets'[j] = gets[k]
    OBVIOUS
  <2> DEFINE j == IF k < i THEN k ELSE k - 1
  <2>1. k # i
    BY <1>3
  <2>2. j \in 1 .. Len(gets) - 1 /\ (IF j < i THEN j ELSE j + 1) = k
    BY <1>2, <2>1
  <2> HIDE DEF j
  <2>3. QED
    BY <1>4, <2>2
<1>7. /\ getAt' \in [Download -> {"new", "draining", "open", "ended"}] /\ getAt'[r] = "ended"
      /\ \A q \in Download \ {r} : getAt'[q] = getAt[q]
  BY <1>1 DEF GetInv, GetTypes
<1>8. GetTypes'
  <2>1. /\ \A b \in DOMAIN receiver' : b \in DOMAIN receiver /\ receiver'[b] = receiver[b]
    BY <1>1 DEF G!WithoutReceiver
  <2>2. QED
    BY <1>0, <1>1, <1>4, <1>7, <2>1 DEF GetInv, GetTypes
<1>9. UnderWayAsked'
  <2>1. \A b \in Peer : Empty(b) => Empty(b)'
    BY <1>1 DEF Empty
  <2>2. QED
    BY <1>7, <2>1 DEF GetInv, UnderWayAsked
<1>10. UnderWayInTable'
  <2>1. \A q \in Download : getAt'[q] \in {"draining", "open"} => q # r /\ InTable(q)
    BY <1>7 DEF GetInv, UnderWayInTable
  <2>2. \A q \in Download : q # r /\ InTable(q) => InTable(q)'
    BY <1>6 DEF InTable
  <2>3. \A j \in DOMAIN gets' : getAt'[gets'[j]] # "new"
    BY <1>2, <1>5, <1>7 DEF GetInv, UnderWayInTable
  <2>4. QED
    BY <2>1, <2>2, <2>3 DEF UnderWayInTable
<1>11. UnderWayLocks'
  <2>1. \A q \in Download \ {r} : q \in lock[q.agent] => q \in lock'[q.agent]
    BY <1>0, <1>1, DownloadAssumption DEF GetInv, GetTypes
  <2>2. QED
    BY <1>1, <1>7, <2>1 DEF GetInv, UnderWayLocks
<1>12. AloneUnlessCrossed'
  <2> SUFFICES ASSUME NEW j \in DOMAIN gets', gets'[j] \notin getCrossed PROVE FALSE
    BY <1>1 DEF AloneUnlessCrossed
  <2>1. Len(gets) = 1
    BY <1>5 DEF GetInv, AloneUnlessCrossed, Alone
  <2>2. QED
    BY <1>4, <2>1
<1>13. SavedIsWhole'
  <2>1. \A q \in Download : getResult'[q] = "ok" => getResult[q] = "ok"
    BY <1>1 DEF GetInv, GetTypes
  <2>2. QED
    BY <1>1, <2>1, SavedKept DEF GetInv
<1>14. QED
  BY <1>8, <1>9, <1>10, <1>11, <1>12, <1>13 DEF GetInv

\* The agent answers what is first on its connection.
LEMMA AgentAnswers ==
  ASSUME GetInv, NEW a \in Peer, getDown[a] # <<>>,
         NEW k \in Packets, NEW s \in Seq(Packets),
         k.type = "accepted" => k.digest \in ContentsOf(Head(getDown[a])), k.type # "piece",
         \A i \in DOMAIN s : s[i].type = "piece" /\ k.type = "accepted",
         getDown' = [getDown EXCEPT ![a] = Tail(@)],
         getUp' = [getUp EXCEPT ![a] = @ \o <<k>> \o s],
         UNCHANGED <<getAt, getResult, lock, gets, receiver, saved, getOld, getCrossed>>
  PROVE  GetInv'
<1>1. /\ getDown[a] \in Seq(Download) /\ getUp[a] \in Seq(Packets) /\ getUp \in [Peer -> Seq(Packets)]
      /\ getDown \in [Peer -> Seq(Download)]
  BY DEF GetInv, GetTypes
<1>2. /\ Head(getDown[a]) = getDown[a][1] /\ 1 \in DOMAIN getDown[a]
      /\ Tail(getDown[a]) \in Seq(Download)
      /\ \A i \in DOMAIN Tail(getDown[a]) : i + 1 \in DOMAIN getDown[a] /\ Tail(getDown[a])[i] = getDown[a][i + 1]
  BY <1>1, HeadTailProperties, LenProperties, EmptySeq
<1>3. getUp[a] \o <<k>> \o s \in Seq(Packets)
  <2>1. \A r, m : ReadsOf(<<>>, r, m)
    BY ReadsNone
  <2>2. getUp[a] \o <<k>> \in Seq(Packets)
    BY <1>1, AppendIsConcat, AppendProperties
  <2>3. QED
    BY <2>2, ConcatProperties
<1>4. /\ getDown'[a] = Tail(getDown[a]) /\ getUp'[a] = getUp[a] \o <<k>> \o s
      /\ \A b \in Peer \ {a} : getDown'[b] = getDown[b] /\ getUp'[b] = getUp[b]
      /\ getDown' \in [Peer -> Seq(Download)] /\ getUp' \in [Peer -> Seq(Packets)]
  <2> DEFINE u == getUp[a] \o <<k>> \o s
             d == Tail(getDown[a])
  <2>1. getUp' = [getUp EXCEPT ![a] = u] /\ getDown' = [getDown EXCEPT ![a] = d]
    OBVIOUS
  <2>2. u \in Seq(Packets) /\ d \in Seq(Download)
    BY <1>2, <1>3
  <2> HIDE DEF u, d
  <2>3. /\ getDown'[a] = d /\ getUp'[a] = u
        /\ \A b \in Peer \ {a} : getDown'[b] = getDown[b] /\ getUp'[b] = getUp[b]
        /\ getDown' \in [Peer -> Seq(Download)] /\ getUp' \in [Peer -> Seq(Packets)]
    BY <1>1, <2>1, <2>2
  <2>4. QED
    BY <2>3 DEF u, d
<1>5. ~Empty(a)
  BY DEF Empty
<1>6. GetTypes'
  BY <1>4 DEF GetInv, GetTypes
<1>7. UnderWayAsked'
  <2>1. \A b \in Peer \ {a} : Empty(b) => Empty(b)'
    BY <1>4 DEF Empty
  <2>2. QED
    BY <1>5, <2>1 DEF GetInv, UnderWayAsked
<1>8. UnderWayInTable' /\ UnderWayLocks'
  BY DEF GetInv, UnderWayInTable, UnderWayLocks, InTable
<1>9. AloneUnlessCrossed'
  <2> SUFFICES ASSUME NEW i \in DOMAIN gets, gets[i] \notin getCrossed
               PROVE  Alone(gets[i])'
    BY DEF AloneUnlessCrossed
  <2> DEFINE q == gets[i]
             m == ReceiverOf(receiver, a, q)
  <2>1. Alone(q)
    BY DEF GetInv, AloneUnlessCrossed
  <2>2. a = q.agent
    BY <1>5, <2>1 DEF Alone
  <2>3. Head(getDown[a]) = q /\ AsksFor(getDown'[a], q)
    BY <1>2, <1>4, <2>1, <2>2 DEF Alone, AsksFor
  <2>4. ReadsOf(getUp[a], q, m) /\ ReadsOf(getOld[a], q, m)
    BY <2>1, <2>2 DEF Alone
  <2> HIDE DEF m
  <2>5. ReadsOf(getUp'[a], q, m)
    <3>1. k.type = "accepted" => k.digest \in ContentsOf(q)
      BY <2>3
    <3> HIDE DEF q
    <3>2. ReadsOf(getUp[a] \o <<k>> \o s, q, m)
      BY <1>1, <2>4, <3>1, ReadsAnswer
    <3>3. QED
      BY <1>4, <3>2
  <2>6. \A b \in Peer \ {a} : Empty(b)'
    BY <1>4, <2>1, <2>2 DEF Alone, Empty
  <2>7. QED
    BY <2>1, <2>2, <2>3, <2>4, <2>5, <2>6 DEF Alone, m
<1>10. SavedIsWhole'
  BY SavedKept DEF GetInv
<1>11. QED
  BY <1>6, <1>7, <1>8, <1>9, <1>10 DEF GetInv

LEMMA AnswerGetStep ==
  ASSUME GetInv, NEW a \in Peer,
         G!Refuse(a) \/ \E version, read \in DOMAIN Pieces : G!Serve(a, version, read)
  PROVE  GetInv'
<1>1. getDown[a] # <<>> /\ getDown[a] \in Seq(Download) /\ getUp[a] \in Seq(Packets)
  BY DEF G!Refuse, G!Serve, GetInv, GetTypes
<1> DEFINE r == Head(getDown[a])
<1>2. r \in Download
  BY <1>1, HeadTailProperties
<1>3. CASE G!Refuse(a)
  <2> DEFINE k == [type |-> "refusal", request |-> r]
             s == <<>>
  <2>1. k \in Packets /\ k.type = "refusal"
    BY <1>2 DEF Packets
  <2>2. s \in Seq(Packets) /\ \A i \in DOMAIN s : FALSE
    BY EmptySeq
  <2>3. /\ getDown' = [getDown EXCEPT ![a] = Tail(@)]
        /\ getUp' = [getUp EXCEPT ![a] = Append(getUp[a], k)]
        /\ UNCHANGED <<getAt, getResult, lock, gets, receiver, saved, getOld, getCrossed>>
    BY <1>3 DEF G!Refuse
  <2> HIDE DEF k, s
  <2>4. Append(getUp[a], k) = getUp[a] \o <<k>> \o s
    <3>1. Append(getUp[a], k) = getUp[a] \o <<k>> /\ getUp[a] \o <<k>> \in Seq(Packets)
      BY <1>1, <2>1, AppendIsConcat, AppendProperties
    <3>2. QED
      BY <3>1, ConcatEmptySeq DEF s
  <2>5. getUp' = [getUp EXCEPT ![a] = getUp[a] \o <<k>> \o s]
    BY <2>3, <2>4
  <2>6. QED
    BY <1>1, <2>1, <2>2, <2>3, <2>5, AgentAnswers
<1>4. ASSUME NEW version \in DOMAIN Pieces, NEW read \in DOMAIN Pieces, G!Serve(a, version, read)
      PROVE  GetInv'
  <2> DEFINE k == [type |-> "accepted", request |-> r, digest |-> G!Content(r.file, version)]
             pieces == G!Content(r.file, read)
             s == [i \in DOMAIN pieces |-> [type |-> "piece", piece |-> pieces[i]]]
  <2>1. k \in Packets /\ k.type = "accepted" /\ k.digest \in ContentsOf(r)
    BY <1>2, <1>4 DEF Packets, Contents, ContentsOf
  <2>2. s \in Seq(Packets) /\ \A i \in DOMAIN s : s[i].type = "piece"
    <3>1. Pieces[read] \in Nat
      BY DownloadAssumption, LenProperties, ElementOfSeq
    <3>2. /\ DOMAIN pieces = 1 .. Pieces[read]
          /\ \A i \in 1 .. Pieces[read] : pieces[i] = <<r.file, read, i>>
      BY DEF G!Content
    <3>3. \A i \in 1 .. Pieces[read] : pieces[i] \in PieceOf
      <4>1. \A x, y, z : x \in {q.file : q \in Download} /\ y \in DOMAIN Pieces /\ z \in Nat =>
              <<x, y, z>> \in PieceOf
        BY DEF PieceOf
      <4>2. r.file \in {q.file : q \in Download} /\ \A i \in 1 .. Pieces[read] : i \in Nat
        BY <1>2, <3>1
      <4>3. QED
        BY ONLY <3>2, <4>1, <4>2, read \in DOMAIN Pieces
    <3> HIDE DEF pieces
    <3>4. \A i \in 1 .. Pieces[read] : s[i] \in Packets /\ s[i].type = "piece"
      BY <3>2, <3>3 DEF Packets
    <3>5. s \in [1 .. Pieces[read] -> Packets]
      BY <3>2, <3>4
    <3> HIDE DEF s
    <3>6. QED
      BY <3>1, <3>4, <3>5, SeqDef
  <2>3. /\ getDown' = [getDown EXCEPT ![a] = Tail(@)]
        /\ getUp' = [getUp EXCEPT ![a] = @ \o <<k>> \o s]
        /\ UNCHANGED <<getAt, getResult, lock, gets, receiver, saved, getOld, getCrossed>>
    BY <1>4 DEF G!Serve
  <2> HIDE DEF k, s
  <2>4. QED
    BY <1>1, <2>1, <2>2, <2>3, AgentAnswers
<1>5. QED
  BY <1>3, <1>4

\* The server reads the first packet of one of the two connections of an agent.
LEMMA HandleGetStep ==
  ASSUME GetInv, NEW a \in Peer, G!Handle(a) \/ G!HandleOld(a)
  PROVE  GetInv'
<1>1. PICK c \in {getUp[a], getOld[a]} :
        /\ c # <<>> /\ G!HandlePacket(a, Head(c))
        /\ \/ c = getUp[a] /\ getUp' = [getUp EXCEPT ![a] = Tail(@)] /\ getOld' = getOld
           \/ c = getOld[a] /\ getOld' = [getOld EXCEPT ![a] = Tail(@)] /\ getUp' = getUp
        /\ UNCHANGED <<getAt, lock, getDown, getCrossed>>
  BY DEF G!Handle, G!HandleOld
<1> DEFINE k == Head(c)
<1>2. /\ c \in Seq(Packets) /\ getUp \in [Peer -> Seq(Packets)] /\ getOld \in [Peer -> Seq(Packets)]
  BY DEF GetInv, GetTypes
<1>3. /\ k \in Packets /\ k = c[1] /\ 1 \in DOMAIN c /\ \A j \in DOMAIN c : ~(j < 1)
      /\ Tail(c) \in Seq(Packets)
  BY <1>1, <1>2, HeadTailProperties, LenProperties, EmptySeq
<1>4. ~Empty(a)
  BY <1>1 DEF Empty
<1>5. ASSUME NEW i \in DOMAIN gets, gets[i] \notin getCrossed
      PROVE  /\ gets[i].agent = a
             /\ k.type = "accepted" => k.digest \in ContentsOf(gets[i])
             /\ k.type = "piece" => ReceiverOf(receiver, a, gets[i])
  <2>1. Alone(gets[i])
    BY <1>5 DEF GetInv, AloneUnlessCrossed
  <2>2. gets[i].agent = a
    BY <1>4, <2>1 DEF Alone
  <2>3. ReadsOf(c, gets[i], ReceiverOf(receiver, a, gets[i]))
    BY <2>1, <2>2 DEF Alone
  <2>4. QED
    BY <1>3, <2>2, <2>3 DEF ReadsOf
<1> HIDE DEF k
<1>6. /\ gets' = gets
      /\ DOMAIN getResult' = Download /\ DOMAIN saved' = Download
      /\ \A b \in DOMAIN receiver' :
           DOMAIN receiver'[b] = {"digest", "pieces"} /\ receiver'[b].digest \in Contents
      /\ SavedIsWhole'
      /\ \A i \in DOMAIN gets : gets[i] \notin getCrossed =>
           (k.type = "accepted" \/ ReceiverOf(receiver, a, gets[i])
              => ReceiverOf(receiver', a, gets[i]))
  <2>1. G!HandlePacket(a, k) /\ UNCHANGED getCrossed /\ GetTypes /\ SavedIsWhole
    BY <1>1 DEF k, GetInv
  <2>2. QED
    BY <1>3, <1>5, <2>1, PacketStep
<1>7. /\ getUp' \in [Peer -> Seq(Packets)] /\ getOld' \in [Peer -> Seq(Packets)]
      /\ \A b \in Peer \ {a} : getUp'[b] = getUp[b] /\ getOld'[b] = getOld[b]
      /\ getUp'[a] = getUp[a] \/ (getUp[a] = c /\ getUp'[a] = Tail(c))
      /\ getOld'[a] = getOld[a] \/ (getOld[a] = c /\ getOld'[a] = Tail(c))
  BY <1>1, <1>2, <1>3
<1>8. GetTypes'
  BY <1>1, <1>6, <1>7 DEF GetInv, GetTypes
<1>9. UnderWayAsked'
  <2>1. \A b \in Peer \ {a} : Empty(b) => Empty(b)'
    BY <1>1, <1>7 DEF Empty
  <2>2. QED
    BY <1>1, <1>4, <2>1 DEF GetInv, UnderWayAsked
<1>10. UnderWayInTable' /\ UnderWayLocks'
  BY <1>1, <1>6 DEF GetInv, UnderWayInTable, UnderWayLocks, InTable
<1>11. AloneUnlessCrossed'
  <2> SUFFICES ASSUME NEW i \in DOMAIN gets, gets[i] \notin getCrossed
               PROVE  Alone(gets[i])'
    BY <1>1, <1>6 DEF AloneUnlessCrossed
  <2> DEFINE q == gets[i]
             m == ReceiverOf(receiver, a, q)
             n == ReceiverOf(receiver', a, q)
  <2>1. Alone(q) /\ q.agent = a
    BY <1>5 DEF GetInv, AloneUnlessCrossed
  <2>2. /\ ReadsOf(getUp[a], q, m) /\ ReadsOf(getOld[a], q, m) /\ AsksFor(getDown[a], q)
        /\ Len(gets) = 1 /\ \A b \in Peer \ {a} : Empty(b)
    BY <2>1 DEF Alone
  <2>3. (m => n) /\ (k.type = "accepted" => n)
    BY <1>6
  <2>4. q' = q /\ q' = gets'[i]
    BY <1>6
  <2> HIDE DEF m, n, q
  <2>5. \A d : ReadsOf(d, q, m) => ReadsOf(d, q, n)
    BY <2>3 DEF ReadsOf
  <2>6. ReadsOf(c, q, m) => ReadsOf(Tail(c), q, n)
    BY <1>1, <1>2, <2>3, ReadsTail DEF k
  <2>7. ReadsOf(getUp'[a], q, n) /\ ReadsOf(getOld'[a], q, n)
    BY <1>7, <2>2, <2>5, <2>6
  <2>8. \A b \in Peer \ {a} : Empty(b)'
    BY <1>1, <1>7, <2>2 DEF Empty
  <2>9. QED
    BY <1>1, <1>6, <2>1, <2>2, <2>4, <2>7, <2>8 DEF Alone, n, q
<1>12. QED
  BY <1>6, <1>8, <1>9, <1>10, <1>11 DEF GetInv

LEMMA LoseStep == ASSUME GetInv, NEW a \in Peer, G!Lose(a) PROVE GetInv'
<1>1. PICK n \in 0 .. Len(getUp[a]) : getOld' = [getOld EXCEPT ![a] = SubSeq(getUp[a], 1, n)]
  BY DEF G!Lose
<1> DEFINE t == SubSeq(getUp[a], 1, n)
<1>2. /\ getUp' = [getUp EXCEPT ![a] = <<>>] /\ getDown' = [getDown EXCEPT ![a] = <<>>]
      /\ UNCHANGED <<getAt, getResult, lock, gets, receiver, saved, getCrossed>>
  BY DEF G!Lose
<1>3. /\ getUp \in [Peer -> Seq(Packets)] /\ getOld \in [Peer -> Seq(Packets)]
      /\ getDown \in [Peer -> Seq(Download)] /\ getUp[a] \in Seq(Packets)
  BY DEF GetInv, GetTypes
<1>4. t \in Seq(Packets) /\ \A r, m : ReadsOf(getUp[a], r, m) => ReadsOf(t, r, m)
  <2>1. t \in Seq(Packets)
    <3>1. Len(getUp[a]) \in Nat /\ \A i \in 1 .. Len(getUp[a]) : getUp[a][i] \in Packets
      BY <1>3, LenProperties, ElementOfSeq
    <3>2. 1 \in Int /\ n \in Int /\ \A i \in 1 .. n : getUp[a][i] \in Packets
      BY <3>1
    <3>3. QED
      BY <3>2, SubSeqProperties
  <2>2. QED
    BY <1>3, <2>1, ReadsPrefix
<1>5. getUp[a] = <<>> => t = <<>>
  <2>1. SUFFICES ASSUME getUp[a] = <<>> PROVE t = <<>>
    OBVIOUS
  <2>2. n = 0
    BY <2>1, EmptySeq
  <2>3. QED
    BY <2>2, SubSeqEmpty
<1> HIDE DEF t
<1>6. /\ getOld'[a] = t /\ getUp'[a] = <<>> /\ getDown'[a] = <<>>
      /\ \A b \in Peer \ {a} :
           getUp'[b] = getUp[b] /\ getOld'[b] = getOld[b] /\ getDown'[b] = getDown[b]
      /\ getUp' \in [Peer -> Seq(Packets)] /\ getOld' \in [Peer -> Seq(Packets)]
      /\ getDown' \in [Peer -> Seq(Download)]
  BY <1>1, <1>2, <1>3, <1>4, EmptySeq DEF t
<1>7. \A b \in Peer : Empty(b) => Empty(b)'
  BY <1>5, <1>6 DEF Empty
<1>8. GetTypes'
  BY <1>2, <1>6 DEF GetInv, GetTypes
<1>9. UnderWayAsked' /\ UnderWayInTable' /\ UnderWayLocks'
  BY <1>2, <1>7 DEF GetInv, UnderWayAsked, UnderWayInTable, UnderWayLocks, InTable
<1>10. AloneUnlessCrossed'
  <2> SUFFICES ASSUME NEW i \in DOMAIN gets, gets[i] \notin getCrossed
               PROVE  Alone(gets[i])'
    BY <1>2 DEF AloneUnlessCrossed
  <2> DEFINE q == gets[i]
             m == ReceiverOf(receiver, q.agent, q)
  <2>1. Alone(q) /\ q' = q /\ m' = m
    BY <1>2 DEF GetInv, AloneUnlessCrossed, ReceiverOf
  <2>2. q.agent \in Peer
    BY DownloadAssumption, LenProperties, ElementOfSeq DEF GetInv, GetTypes
  <2>3. /\ ReadsOf(getUp[q.agent], q, m) /\ ReadsOf(getOld[q.agent], q, m)
        /\ AsksFor(getDown[q.agent], q) /\ Len(gets) = 1 /\ \A b \in Peer \ {q.agent} : Empty(b)
    BY <2>1 DEF Alone
  <2> HIDE DEF q, m
  <2>4. ReadsOf(<<>>, q, m) /\ AsksFor(<<>>, q)
    BY ReadsNone DEF AsksFor
  <2>5. /\ ReadsOf(getUp'[q.agent], q, m) /\ ReadsOf(getOld'[q.agent], q, m)
        /\ AsksFor(getDown'[q.agent], q)
    BY <1>4, <1>6, <2>2, <2>3, <2>4
  <2>6. QED
    BY <1>2, <1>7, <2>1, <2>3, <2>5 DEF Alone, q, m
<1>11. SavedIsWhole'
  BY <1>2, SavedKept DEF GetInv
<1>12. QED
  BY <1>8, <1>9, <1>10, <1>11 DEF GetInv

LEMMA GetStarts == G!Init => GetInv
<1> SUFFICES ASSUME G!Init PROVE GetInv
  OBVIOUS
<1>1. /\ getAt = [r \in Download |-> "new"] /\ getResult = [r \in Download |-> "none"]
      /\ lock = [a \in Peer |-> {}] /\ gets = <<>> /\ receiver = <<>>
      /\ saved = [r \in Download |-> <<>>]
      /\ getDown = [a \in Peer |-> <<>>] /\ getUp = [a \in Peer |-> <<>>]
      /\ getOld = [a \in Peer |-> <<>>]
  BY DEF G!Init
<1>2. /\ <<>> \in Seq(Download) /\ <<>> \in Seq(Packets) /\ DOMAIN <<>> = {}
  BY EmptySeq
<1>3. GetTypes
  BY <1>1, <1>2 DEF GetTypes
<1>4. UnderWayAsked /\ UnderWayInTable /\ UnderWayLocks /\ AloneUnlessCrossed
  BY <1>1, <1>2 DEF UnderWayAsked, UnderWayInTable, UnderWayLocks, AloneUnlessCrossed, Empty
<1>5. SavedIsWhole
  BY <1>1 DEF SavedIsWhole, G!SavedIsWhole, G!OwnFile
<1>6. QED
  BY <1>3, <1>4, <1>5 DEF GetInv

(* Whatever a download saves is one whole version of one file, and the     *)
(* file it asked for if it met no other download and nothing left under    *)
(* way: for any agents, files and versions, and connections that break.    *)
THEOREM DownloadsAreWhole == AllSpec => []SavedIsWhole
<1>1. AllInit => GetInv
  BY GetStarts DEF AllInit
<1>2. GetInv /\ [AllNext]_allVars => GetInv'
  <2> SUFFICES ASSUME GetInv, [AllNext]_allVars PROVE GetInv'
    OBVIOUS
  <2>1. CASE UNCHANGED downloadVars
    <3>1. UNCHANGED <<getAt, getResult, lock, gets, receiver, saved, getDown, getUp, getOld, getCrossed>>
      BY <2>1 DEF downloadVars
    <3>2. QED
      BY <3>1, OnlyPlaces DEF GetInv, GetTypes
  <2>2. CASE G!Next
    BY <2>2, AskGetStep, DrainStep, EndGetStep, AnswerGetStep, HandleGetStep, LoseStep,
       HandlerEndsStep, ReturnStep DEF G!Next
  <2>3. QED
    BY <2>1, <2>2 DEF AllNext, allVars
<1>3. GetInv => SavedIsWhole
  BY DEF GetInv
<1>4. QED
  BY <1>1, <1>2, <1>3, PTL DEF AllSpec
=============================================================================
