-------------------------------- MODULE Cases --------------------------------
(***************************************************************************)
(* What is sent and what is read of it: a case is chosen, and the          *)
(* properties compare what the code of Wire makes of it with what it is to *)
(* mean to the other side.                                                 *)
(***************************************************************************)
EXTENDS Wire

CONSTANT Exchanged      \* the cases: what is sent, of which kind

\* The fields of layouts, and the values that are given to be packed in them: texts,
\* bytes, numbers.
Field ==
  [kind : {"text", "raw", "num"}, size : Nat] \cup [kind : {"signed"}, size : {1}]
  \cup [kind : {"enum"}, size : {1}, of : SUBSET Byte]
GivenTo(f, v) ==
  CASE f.kind = "text" -> v \in Seq(Char) [] f.kind = "raw" -> v \in Seq(Byte)
    [] OTHER -> v \in Int
Given(layout, v) ==
  /\ layout \in Seq(Field)
  /\ DOMAIN v = DOMAIN layout /\ \A i \in DOMAIN layout : GivenTo(layout[i], v[i])

\* The values of a payload of variable length.
ValueOf(name) ==
  CASE name = "log_hist" -> Seq(Char) \X Seq(Byte)
    [] name = "file_chunk" -> Int \X Seq(Byte)
    [] name = "log_real" -> Int \X Seq(Char) \X Seq(Char)
    [] name = "cmd_deploy" -> Int \X Seq(Byte) \X Seq(Char) \X Int \X Seq(Char)
    [] name = "cmd_ctrl" -> Int \X Int \X Seq(Char)
    [] name = "heartbeat" -> Int \X Int \X Int \X Seq(Seq(Char) \X Int) \X Int

\* What is sent are values of their types, and packets that are not too long.
ASSUME ExchangedAssumption ==
  \A c \in Exchanged :
    /\ c.kind = "fixed" => Given(c.of, c.value)
    /\ c.kind = "variable" =>
         /\ c.of \in {"log_hist", "file_chunk", "log_real", "cmd_deploy", "cmd_ctrl", "heartbeat"}
         /\ c.value \in ValueOf(c.of)
    /\ c.kind = "list" => /\ c.of \in Seq(Field)
                          /\ Len(c.value) \in Nat /\ DOMAIN c.value = 1 .. Len(c.value)
                          /\ \A i \in DOMAIN c.value : Given(c.of, c.value[i])
    /\ c.kind = "stream" => /\ c.value \in Seq(PacketType \X Seq(Byte))
                            /\ \A i \in DOMAIN c.value : Len(c.value[i][2]) <= MaxPayload
    /\ c.kind = "old_line" => c.value \in Seq(Char) \X Seq(Char)
    /\ c.kind = "old_log" => c.value \in Int \X Seq(Char)
    /\ c.kind = "old_beat" => c.value \in Int \X Int \X Int \X Int
    /\ c.kind = "old_ctrl" => c.value \in 0 .. 4

VARIABLE case

NoCase == [kind |-> "none", of |-> "", value |-> <<>>]

CaseInit == case = NoCase

Choose ==
  /\ case = NoCase
  /\ case' \in Exchanged

PutAway ==
  /\ case # NoCase
  /\ case' = NoCase

CaseNext == Choose \/ PutAway

CaseSpec == CaseInit /\ [][CaseNext]_case

-----------------------------------------------------------------------------
(* The payloads of variable length by name, and what is meant by a value.  *)

\* pack and unpack.
PackOf(name, v) ==
  CASE name = "log_hist" -> PackLogHist(v) [] name = "file_chunk" -> PackFileChunk(v)
    [] name = "log_real" -> PackLogReal(v) [] name = "cmd_deploy" -> PackCmdDeploy(v)
    [] name = "cmd_ctrl" -> PackCmdCtrl(v) [] name = "heartbeat" -> PackHeartbeat(v)
UnpackOf(name, bytes) ==
  CASE name = "log_hist" -> UnpackLogHist(bytes)
    [] name = "file_chunk" -> UnpackFileChunk(bytes)
    [] name = "log_real" -> UnpackLogReal(bytes)
    [] name = "cmd_deploy" -> UnpackCmdDeploy(bytes)
    [] name = "cmd_ctrl" -> UnpackCmdCtrl(bytes)
    [] name = "heartbeat" -> UnpackHeartbeat(bytes)

\* A text comes back without the NULs it ends in.
Trimmed(text) == Stripped(text, "nul")
TrimmedLayout(layout, v) ==
  [i \in DOMAIN layout |-> IF layout[i].kind = "text" THEN Trimmed(v[i]) ELSE v[i]]

\* What the receiver is to see of a value.
Meant(name, v) ==
  CASE name \in {"log_hist"} -> <<Trimmed(v[1]), v[2]>>
    [] name = "log_real" -> <<v[1], Trimmed(v[2]), v[3]>>
    [] name = "cmd_deploy" -> <<v[1], v[2], Trimmed(v[3]), v[4], v[5]>>
    [] name = "heartbeat" ->
         <<v[1], v[2], v[3],
           IF \E i \in DOMAIN v[4] : v[4][i][2] = 2 THEN 2
           ELSE IF \E i \in DOMAIN v[4] : v[4][i][2] = 1 THEN 1 ELSE 0,
           v[4], IF v[5] < 0 THEN 0 ELSE IF v[5] > Base - 2 THEN Base - 2 ELSE v[5]>>
    [] OTHER -> v

-----------------------------------------------------------------------------
FixedReturns(layout, v) ==
  LET packed == PackAll(layout, v)
  IN packed.ok =>
       /\ UnpackAll(layout, packed.value) = Returns(TrimmedLayout(layout, v))
       /\ Len(packed.value) = SizeOf(layout)
VariableReturns(name, v) ==
  LET packed == PackOf(name, v)
  IN packed.ok => UnpackOf(name, packed.value) = Returns(Meant(name, v))
ListReturns(layout, vs) ==
  LET packed == PackList(layout, vs)
  IN packed.ok => UnpackList(layout, packed.value)
                    = Returns([i \in DOMAIN vs |-> TrimmedLayout(layout, vs[i])])
ObjectReturns(class, gone) ==
  LET v == [k \in Keys(class) |-> "sent"]
      object == [k \in Keys(class) \ gone |-> PackObject(class, v)[k]]
  IN IF gone \cap class.needs = {}
     THEN UnpackObject(class, object)
            = Returns([k \in Keys(class) |->
                           IF k \in gone THEN class.defaults[k] ELSE "sent"])
     ELSE UnpackObject(class, object) = Raises

\* The payloads that a shorter payload is a legal form of: an old heartbeat, a
\* path or a name that is cut off.
ShortForm == {"heartbeat", "cmd_deploy", "cmd_ctrl", "log_real"}

Sent(packets) == FlattenSeq([i \in DOMAIN packets |-> Build(packets[i][1], packets[i][2]).value])

\* What is sent is what is read: a payload that can be packed is unpacked to
\* the same values, but for NULs that a text ends in, a percentage out of range
\* and the state that sums up the programs; an object without an optional key
\* gets its default and one without a needed key raises; and the receive loops
\* cut a stream into the packets it is made of (protocol.py).
SentIsRead ==
  /\ case.kind = "fixed" => FixedReturns(case.of, case.value)
  /\ case.kind = "variable" => VariableReturns(case.of, case.value)
  /\ case.kind = "list" => ListReturns(case.of, case.value)
  /\ case.kind = "object" => ObjectReturns(case.of, case.value)
  /\ case.kind = "stream" => Read(Sent(case.value)) = case.value

\* What is cut off is not read: no front part of a payload unpacks, but for the
\* forms that are legal by themselves, and no front part of a stream gives a
\* packet that was not sent.
CutIsNotRead ==
  /\ case.kind = "fixed" =>
       LET packed == PackAll(case.of, case.value)
       IN packed.ok => \A n \in 0 .. Len(packed.value) - 1 :
                         ~UnpackAll(case.of, UpTo(packed.value, n)).ok
  /\ case.kind = "variable" /\ case.of \notin ShortForm =>
       LET packed == PackOf(case.of, case.value)
       IN packed.ok => \A n \in 0 .. Len(packed.value) - 1 :
                         ~UnpackOf(case.of, UpTo(packed.value, n)).ok
  /\ case.kind = "stream" =>
       \A n \in 0 .. Len(Sent(case.value)) :
         IsPrefix(Read(UpTo(Sent(case.value), n)), case.value)

\* An agent of an older version is understood: its heartbeat of two lengths,
\* its command of one byte or nine, and its log line without a folder, but for
\* one of Base + 1 bytes (257 at true width) whose first byte is 0, of twice as many
\* whose first is 1, and so on: its length field makes it a line of the new form
\* (protocol.py:263-299, 545-562, 622-635, 860-888).
OldPeerIsRead ==
  /\ case.kind = "old_line" =>
       LET packed == PackLegacyReal(case.value)
           line == Encode(case.value[2])
       IN packed.ok /\ ~(line # <<>> /\ Len(line) = (Base + 1) * (line[1] + 1)) =>
            UnpackLogReal(packed.value)
              = Returns(<<0, Trimmed(case.value[1]), case.value[2]>>)
  /\ case.kind = "old_log" =>
       LET packed == PackAll(CmdLogLegacy, case.value)
       IN packed.ok => UnpackCmdLog(packed.value)
                         = Returns(<<case.value[1], Trimmed(case.value[2]), -1>>)
  /\ case.kind = "old_beat" =>
       LET v == case.value
           v1 == PackAll(HeartbeatV1, SubSeq(v, 1, 3))
           v2 == PackAll(HeartbeatV2, v)
       IN /\ v1.ok => UnpackHeartbeat(v1.value) = Returns(SubSeq(v, 1, 3) \o <<0, <<>>, 0>>)
          /\ v2.ok => UnpackHeartbeat(v2.value) = Returns(v \o <<<<>>, 0>>)
  /\ case.kind = "old_ctrl" =>
       UnpackCmdCtrl(<<case.value>>) = Returns(<<case.value, 1, <<>>>>)

\* The two sides of a connection agree on what was sent, with a peer of the same
\* version or an older one, and with a connection that breaks in the middle,
\* before any case is put away.
PeersAgree == [][SentIsRead /\ CutIsNotRead /\ OldPeerIsRead]_case
=============================================================================
