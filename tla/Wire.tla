-------------------------------- MODULE Wire --------------------------------
(***************************************************************************)
(* The wire format of shared/protocol.py: framing, the binary payloads with *)
(* their fixed fields, length prefixes and legacy forms, and the JSON      *)
(* payloads.                                                               *)
(*                                                                         *)
(* Widths are scaled: a byte has Base values, a fixed field of n bytes has *)
(* Width(n), a payload at most MaxPayload.  Everything the formats tell    *)
(* apart by length or by the value of a byte keeps doing so.  A text is a  *)
(* sequence of characters, one of which takes two bytes of UTF-8.          *)
(***************************************************************************)
EXTENDS Integers, Sequences, FiniteSets, SequencesExt

CONSTANTS
  Base,         \* values of a byte
  MaxPayload    \* MAX_PAYLOAD_SIZE

\* A byte has a value for all that is written in one; a length fits its field of the header.
ASSUME WidthAssumption ==
  /\ Base \in Nat /\ Base >= 6
  /\ MaxPayload \in Nat /\ MaxPayload < Base * Base * Base * Base

Byte == 0 .. Base - 1

\* A conversion raises (ValueError, struct.error, KeyError) or returns.
Raises == [ok |-> FALSE]
Returns(v) == [ok |-> TRUE, value |-> v]

-----------------------------------------------------------------------------
(* Fields.                                                                 *)

Width(n) == IF n > 100 THEN 3 ELSE IF n > 8 THEN 2 ELSE 1

Char == {"nul", "a", "wide"}

Utf8(c) == CASE c = "nul" -> <<0>> [] c = "a" -> <<1>> [] c = "wide" -> <<2, 2>>
Encode(text) == FlattenSeq([i \in DOMAIN text |-> Utf8(text[i])])

\* The bytes are collected until they are a character's: a text when nothing is left over.
Decode(bytes) ==
  LET upTo[i \in 0 .. Len(bytes)] ==
        IF i = 0 THEN [text |-> <<>>, open |-> <<>>]
        ELSE LET open == Append(upTo[i - 1].open, bytes[i])
                 read == {c \in Char : Utf8(c) = open}
             IN IF read = {} THEN [text |-> upTo[i - 1].text, open |-> open]
                ELSE [text |-> Append(upTo[i - 1].text, CHOOSE c \in read : TRUE), open |-> <<>>]
      end == upTo[Len(bytes)]
  IN IF end.open = <<>> THEN Returns(end.text) ELSE Raises

\* Without the pads it ends in.
Stripped(seq, pad) ==
  SubSeq(seq, 1, Max({0} \cup {i \in DOMAIN seq : seq[i] # pad}))

\* Variant: the size counts characters.
EncodeByChars(text, n) ==
  IF Len(text) > n THEN Raises
  ELSE Returns(Encode(text) \o [i \in 1 .. n - Len(text) |-> 0])

\* _encode_fixed and _decode_fixed: the size counts bytes, not characters.
EncodeFixed(text, n) ==
  LET bytes == Encode(text)
  IN IF Len(bytes) > n THEN Raises
     ELSE Returns(bytes \o [i \in 1 .. n - Len(bytes) |-> 0])
DecodeFixed(bytes) == Decode(Stripped(bytes, 0))

\* struct: unsigned numbers of w bytes, most significant byte first; "b" is
\* signed.
Pack(v, w) ==
  LET left[i \in 0 .. w] == IF i = 0 THEN v ELSE left[i - 1] \div Base     \* after i digits
  IN IF v < 0 \/ left[w] # 0 THEN Raises
     ELSE Returns([i \in 1 .. w |-> left[w - i] % Base])
Unpack(bytes) ==
  LET upTo[i \in 0 .. Len(bytes)] == IF i = 0 THEN 0 ELSE upTo[i - 1] * Base + bytes[i]
  IN upTo[Len(bytes)]
Signed(v) ==
  IF v \notin -(Base \div 2) .. Base \div 2 - 1 THEN Base ELSE IF v < 0 THEN v + Base ELSE v
FromSigned(b) == IF b >= Base \div 2 THEN b - Base ELSE b

\* The kinds of field: a text of n bytes, n raw bytes, a number of n bytes, a
\* signed byte, a member of an IntEnum.
Text(n)  == [kind |-> "text", size |-> n]
Raw(n)   == [kind |-> "raw", size |-> n]
Num(n)   == [kind |-> "num", size |-> n]
Int1     == [kind |-> "signed", size |-> 1]
Enum(S)  == [kind |-> "enum", size |-> 1, of |-> S]

PackField(f, v) ==
  CASE f.kind = "text" -> EncodeFixed(v, f.size)
    [] f.kind = "raw" -> IF Len(v) = f.size THEN Returns(v) ELSE Raises
    [] f.kind = "num" -> Pack(v, f.size)
    [] f.kind = "signed" -> Pack(Signed(v), 1)
    [] f.kind = "enum" -> IF v \in f.of THEN Pack(v, 1) ELSE Raises

UnpackField(f, bytes) ==
  CASE f.kind = "text" -> DecodeFixed(bytes)
    [] f.kind = "raw" -> Returns(bytes)
    [] f.kind = "num" -> Returns(Unpack(bytes))
    [] f.kind = "signed" -> Returns(FromSigned(bytes[1]))
    [] f.kind = "enum" -> IF bytes[1] \in f.of THEN Returns(bytes[1]) ELSE Raises

AllOk(results) == \A i \in DOMAIN results : results[i].ok
Values(results) == [i \in DOMAIN results |-> results[i].value]

\* struct.Struct.pack and .unpack of a layout, its size, where its fields end.
Ends(layout) ==
  LET upTo[i \in 0 .. Len(layout)] == IF i = 0 THEN 0 ELSE upTo[i - 1] + layout[i].size
  IN upTo
SizeOf(layout) == Ends(layout)[Len(layout)]
PackAll(layout, v) ==
  LET parts == [i \in DOMAIN layout |-> PackField(layout[i], v[i])]
  IN IF AllOk(parts) THEN Returns(FlattenSeq(Values(parts))) ELSE Raises
UnpackAll(layout, bytes) ==
  LET ends == Ends(layout)
      parts == [i \in DOMAIN layout |->
                  UnpackField(layout[i], SubSeq(bytes, ends[i - 1] + 1, ends[i]))]
  IN IF Len(bytes) = SizeOf(layout) /\ AllOk(parts) THEN Returns(Values(parts)) ELSE Raises

\* The bytes from the n-th on; at most the first n.
From(bytes, n) == SubSeq(bytes, n, Len(bytes))
UpTo(bytes, n) == SubSeq(bytes, 1, IF n < Len(bytes) THEN n ELSE Len(bytes))

-----------------------------------------------------------------------------
(* Payloads of fixed length: pack and unpack are their layout's.           *)

AuthPayload       == <<Text(Width(32)), Text(Width(8)), Text(Width(64))>>
AuthAckPayload    == <<Enum({0, 1, 2}), Text(Width(16))>>
FileAckPayload    == <<Num(4), Num(1)>>
CmdCtrlAckPayload == <<Enum(0 .. 4), Num(4), Enum({0, 1, 2, 3})>>
CmdLogAckPayload  == <<Enum({1, 2, 3}), Enum({0, 1}), Num(2)>>
CmdRecPayload     == <<Enum({1, 2, 3}), Text(Width(8))>>
CmdRecAckPayload  == <<Enum({1, 2, 3}), Enum({0, 1})>>
LogFileEntry      == <<Text(Width(256)), Num(4), Raw(Width(16))>>
DisconnectPayload == <<Enum(0 .. 3)>>

-----------------------------------------------------------------------------
(* Payloads of variable length.                                            *)

\* A header whose last field counts the bytes that follow it.
PackCounted(header, v, body) ==
  LET head == PackAll(header, Append(v, Len(body)))
  IN IF head.ok THEN Returns(head.value \o body) ELSE Raises

UnpackCounted(header, bytes) ==
  LET head == UnpackAll(header, UpTo(bytes, SizeOf(header)))
      body == From(bytes, SizeOf(header) + 1)
  IN IF head.ok /\ Last(head.value) = Len(body)
     THEN Returns(Append(Front(head.value), body)) ELSE Raises

LogHistHeader == <<Text(Width(256)), Num(4)>>
PackLogHist(v) == PackCounted(LogHistHeader, <<v[1]>>, v[2])
UnpackLogHist(bytes) == UnpackCounted(LogHistHeader, bytes)

FileChunkHeader == <<Num(4), Num(2)>>
PackFileChunk(v) == PackCounted(FileChunkHeader, <<v[1]>>, v[2])
UnpackFileChunk(bytes) == UnpackCounted(FileChunkHeader, bytes)

\* <<folder, name, line>>.  The form without a folder is read when the length
\* does not fit the new form; a field that does not decode raises for good.
LogRealHeader == <<Num(1), Text(Width(256)), Num(2)>>
LogRealLegacy == <<Text(Width(256)), Num(2)>>
PackLogReal(v) == PackCounted(LogRealHeader, <<v[1], v[2]>>, Encode(v[3]))
PackLegacyReal(v) == PackCounted(LogRealLegacy, <<v[1]>>, Encode(v[2]))

Matches(header, bytes) ==
  /\ Len(bytes) >= SizeOf(header)
  /\ Len(bytes) = SizeOf(header) + Unpack(SubSeq(bytes, SizeOf(header) - 1, SizeOf(header)))

WithLine(header, bytes) ==
  LET r == UnpackCounted(header, bytes)
      line == Decode(Last(r.value))
  IN IF r.ok /\ line.ok THEN Returns(Append(Front(r.value), line.value)) ELSE Raises

UnpackLogReal(bytes) ==
  IF Matches(LogRealHeader, bytes) THEN WithLine(LogRealHeader, bytes)
  ELSE IF Matches(LogRealLegacy, bytes)
       THEN LET r == WithLine(LogRealLegacy, bytes)
            IN IF r.ok THEN Returns(<<0>> \o r.value) ELSE Raises
       ELSE Raises

\* <<size, hash, name, target, path>>: an empty path is not sent, and the
\* slice of a path that is cut off is taken as it is.
CmdDeployHeader == <<Num(4), Raw(Width(32)), Text(Width(256)), Enum({0, 1, 2})>>
PackCmdDeploy(v) ==
  LET head == PackAll(CmdDeployHeader, Front(v))
      path == PackCounted(<<Num(2)>>, <<>>, Encode(Last(v)))
  IN IF ~head.ok \/ ~path.ok THEN Raises
     ELSE IF Last(v) = <<>> THEN head ELSE Returns(head.value \o path.value)
UnpackCmdDeploy(bytes) ==
  LET n == SizeOf(CmdDeployHeader)
      head == UnpackAll(CmdDeployHeader, UpTo(bytes, n))
      path == Decode(UpTo(From(bytes, n + 3), Unpack(SubSeq(bytes, n + 1, n + 2))))
  IN IF ~head.ok \/ Len(bytes) = n + 1 THEN Raises
     ELSE IF Len(bytes) = n THEN Returns(Append(head.value, <<>>))
     ELSE IF path.ok THEN Returns(Append(head.value, path.value)) ELSE Raises

\* <<action, target, name>>, of one byte, two or more.
PackCmdCtrl(v) ==
  LET head == PackAll(<<Enum(0 .. 4), Num(1)>>, Front(v))
      name == PackCounted(<<Num(1)>>, <<>>, Encode(Last(v)))
  IN IF ~head.ok \/ ~name.ok THEN Raises
     ELSE IF Last(v) = <<>> THEN head ELSE Returns(head.value \o name.value)
UnpackCmdCtrl(bytes) ==
  LET head == UnpackAll(<<Enum(0 .. 4), Num(1)>>, UpTo(bytes, 2))
      name == Decode(UpTo(From(bytes, 4), bytes[3]))
  IN CASE Len(bytes) = 0 -> Raises
       [] Len(bytes) = 1 -> IF bytes[1] \in 0 .. 4 THEN Returns(<<bytes[1], 1, <<>>>>) ELSE Raises
       [] Len(bytes) = 2 -> IF head.ok THEN Returns(Append(head.value, <<>>)) ELSE Raises
       [] OTHER -> IF head.ok /\ name.ok THEN Returns(Append(head.value, name.value)) ELSE Raises

\* <<action, date, folder>>, the folder -1 in the form without one.
CmdLogPayload == <<Enum({1, 2, 3}), Text(Width(8)), Int1>>
CmdLogLegacy  == <<Enum({1, 2, 3}), Text(Width(8))>>
UnpackCmdLog(bytes) ==
  LET old == UnpackAll(CmdLogLegacy, bytes)
  IN IF Len(bytes) = SizeOf(CmdLogPayload) THEN UnpackAll(CmdLogPayload, bytes)
     ELSE IF old.ok THEN Returns(Append(old.value, -1)) ELSE Raises

\* A count and as many entries of a fixed size.
PackList(layout, entries) ==
  LET count == Pack(Len(entries), 2)
      parts == [i \in DOMAIN entries |-> PackAll(layout, entries[i])]
  IN IF count.ok /\ AllOk(parts) THEN Returns(count.value \o FlattenSeq(Values(parts))) ELSE Raises
UnpackList(layout, bytes) ==
  LET n == SizeOf(layout)
      count == Unpack(UpTo(bytes, 2))
      parts == [i \in 1 .. count |-> UnpackAll(layout, SubSeq(bytes, 3 + (i - 1) * n, 2 + i * n))]
  IN IF Len(bytes) < 2 \/ Len(bytes) # 2 + count * n \/ ~AllOk(parts) THEN Raises
     ELSE Returns(Values(parts))

LogFileListPayload   == LogFileEntry
LogFileSelectPayload == <<Text(Width(256))>>

-----------------------------------------------------------------------------
(* Heartbeats: <<time, cpu, memory, statuses, disk>>, the statuses a       *)
(* sequence of <<name, status>>.  Percentages are scaled to 0 .. Full.     *)

Full == Base - 2
NotMonitored == 0
Running == 1
Down == 2

HeartbeatV1 == <<Num(8), Num(1), Num(1)>>
HeartbeatV2 == <<Num(8), Num(1), Num(1), Num(1)>>

Clamped(x) == IF x < 0 THEN 0 ELSE IF x > Full THEN Full ELSE x

PackStatus(entry) ==
  LET name == PackCounted(<<Num(1)>>, <<>>, Encode(entry[1]))
      status == Pack(entry[2], 1)
  IN IF name.ok /\ status.ok THEN Returns(name.value \o status.value) ELSE Raises

PackHeartbeat(v) ==
  LET head == PackAll(HeartbeatV2, <<v[1], v[2], v[3], Len(v[4])>>)
      parts == [i \in DOMAIN v[4] |-> PackStatus(v[4][i])]
  IN IF v[2] \notin 0 .. Full \/ v[3] \notin 0 .. Full \/ ~head.ok \/ ~AllOk(parts) THEN Raises
     ELSE Returns(head.value \o FlattenSeq(Values(parts)) \o <<Clamped(v[5])>>)

\* One entry more from what is left of a list of bytes.
ReadStatus(read) ==
  LET entries == read.value[1]
      bytes == read.value[2]
      name == Decode(SubSeq(bytes, 2, bytes[1] + 1))
  IN IF ~read.ok \/ bytes = <<>> \/ Len(bytes) < bytes[1] + 2 \/ ~name.ok THEN Raises
     ELSE Returns(<<Append(entries, <<name.value, bytes[bytes[1] + 2]>>), From(bytes, bytes[1] + 3)>>)

\* The entries from a list of bytes, and what is left of it.
ReadStatuses(count, bytes) ==
  LET after[k \in 0 .. count] ==
        IF k = 0 THEN Returns(<<<<>>, bytes>>) ELSE ReadStatus(after[k - 1])
  IN after[count]

\* One program that is down makes the agent's state down.
Aggregate(statuses) ==
  LET seen == {statuses[i][2] : i \in DOMAIN statuses}
  IN IF Down \in seen THEN Down ELSE IF Running \in seen THEN Running ELSE NotMonitored

\* <<time, cpu, memory, aggregate, statuses, disk>>
UnpackHeartbeat(bytes) ==
  LET v1 == UnpackAll(HeartbeatV1, bytes)
      v2 == UnpackAll(HeartbeatV2, UpTo(bytes, SizeOf(HeartbeatV2)))
      read == ReadStatuses(Last(v2.value), From(bytes, SizeOf(HeartbeatV2) + 1))
  IN CASE Len(bytes) < SizeOf(HeartbeatV1) -> Raises
       [] Len(bytes) = SizeOf(HeartbeatV1) -> Returns(v1.value \o <<NotMonitored, <<>>, 0>>)
       [] Len(bytes) = SizeOf(HeartbeatV2) -> Returns(v2.value \o <<<<>>, 0>>)
       [] OTHER -> IF ~read.ok THEN Raises
                   ELSE Returns(Front(v2.value) \o
                          <<Aggregate(read.value[1]), read.value[1],
                            IF read.value[2] = <<>> THEN 0 ELSE read.value[2][1]>>)

-----------------------------------------------------------------------------
(* Frames: a type, a length, the payload.                                  *)

PacketType == {1, 2, 3}                 \* the types, others are unknown

PackHeader(type, length) ==
  IF length > MaxPayload THEN Raises ELSE PackAll(<<Enum(PacketType), Num(4)>>, <<type, length>>)

Build(type, payload) ==
  LET head == PackHeader(type, Len(payload))
  IN IF head.ok THEN Returns(head.value \o payload) ELSE Raises

UnpackHeader(bytes) ==
  LET r == UnpackAll(<<Enum(PacketType), Num(4)>>, bytes)
  IN IF r.ok /\ r.value[2] <= MaxPayload THEN r ELSE Raises

\* One turn of a receive loop: nothing more at an invalid header, or a header or payload
\* that the stream ends in.
Receive(stream, read) ==
  LET rest == From(stream, read.from)
      head == UnpackHeader(UpTo(rest, 5))
  IN IF Len(rest) < 5 \/ ~head.ok \/ Len(rest) < 5 + head.value[2] THEN read
     ELSE [from |-> read.from + 5 + head.value[2],
           packets |-> Append(read.packets, <<head.value[1], SubSeq(rest, 6, 5 + head.value[2])>>)]

\* What it reads of a stream; a packet takes a byte at least.
Read(stream) ==
  LET after[k \in 0 .. Len(stream)] ==
        IF k = 0 THEN [from |-> 1, packets |-> <<>>] ELSE Receive(stream, after[k - 1])
  IN after[Len(stream)].packets

-----------------------------------------------------------------------------
(* JSON payloads: an object of keys and values.  pack writes every key of  *)
(* the class; unpack needs some of them and has a default for the others.  *)

Needs(keys) == [needs |-> keys, defaults |-> <<>>]
WithDefaults(keys, defaults) == [needs |-> keys, defaults |-> defaults]
Keys(class) == class.needs \cup DOMAIN class.defaults

PackObject(class, v) == [k \in Keys(class) |-> v[k]]
UnpackObject(class, object) ==
  IF class.needs \subseteq DOMAIN object
  THEN Returns([k \in Keys(class) |->
                  IF k \in DOMAIN object THEN object[k] ELSE class.defaults[k]])
  ELSE Raises

AllAre(keys, default) == [k \in keys |-> default]

RecAnalysis  == WithDefaults({"filename", "status", "left_rms_db", "right_rms_db",
                              "left_silence_ratio", "right_silence_ratio", "dropout_count",
                              "duration_wav", "duration_smdr", "is_stereo"},
                             [in_out |-> 0])
RecUploadReq == Needs({"filename", "upload_url"})
RecUploadAck == Needs({"filename", "status", "file_size"})
RecDataReq   == WithDefaults({}, [query_type |-> "list", date_str |-> "", filename |-> "",
                                  search |-> ""])
RecDataResp  == WithDefaults({}, [query_type |-> "list", records |-> <<>>])
SttResult    ==
  WithDefaults({"filename", "agent_id"},
    AllAre({"full_text", "agent_text", "customer_text", "required_phrase_list",
            "forbidden_word_list", "aq_status"}, "")
    @@ AllAre({"duration_sec", "word_count", "score_total", "score_response", "score_phrase",
               "score_silence", "first_response_sec", "agent_talk_ratio",
               "customer_talk_ratio", "silence_ratio", "aq_left_rms_db", "aq_right_rms_db",
               "aq_left_silence", "aq_right_silence", "aq_dropout_count",
               "aq_duration_wav"}, 0)
    @@ AllAre({"required_phrase_hit", "forbidden_word_hit", "aq_is_stereo"}, FALSE)
    @@ [segments_json |-> "[]", stt_model |-> "faster-whisper-medium"])
CmdConfig      == WithDefaults({"action"}, [config_data |-> ""])
CmdExec        == Needs({"command_name"})
CmdExecAck     == WithDefaults({"command_name", "success"},
                               [exit_code |-> 0, output |-> "", error |-> ""])
CmdFileList    == Needs({"path", "request_id"})
CmdFileListAck == WithDefaults({"request_id", "success"},
                               [error |-> "", current_path |-> "", entries |-> <<>>,
                                truncated |-> FALSE])
CmdFileGet     == Needs({"remote_path", "request_id"})
CmdFileGetAck  == WithDefaults({"request_id", "success"},
                               [error |-> "", file_size |-> 0, sha256 |-> "", filename |-> ""])
CmdFilePut     == Needs({"remote_path", "file_size", "sha256", "filename", "request_id"})
CmdFilePutAck  == WithDefaults({"request_id", "success"}, [error |-> ""])
CmdFileRun     == Needs({"file_path", "request_id"})
CmdFileRunAck  == WithDefaults({"request_id", "success"}, [error |-> ""])

JsonClass == {RecAnalysis, RecUploadReq, RecUploadAck, RecDataReq, RecDataResp, SttResult,
              CmdConfig, CmdExec, CmdExecAck, CmdFileList, CmdFileListAck, CmdFileGet,
              CmdFileGetAck, CmdFilePut, CmdFilePutAck, CmdFileRun, CmdFileRunAck}
=============================================================================
