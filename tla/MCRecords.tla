------------------------------ MODULE MCRecords ------------------------------
(***************************************************************************)
(* What is kept of the logs and how it is counted (LogRecords), and what   *)
(* is sent and read (Cases), as one more part, with its cases.             *)
(***************************************************************************)
EXTENDS Cases, LogRecords

recordVars == <<case, keptVars>>

RecordsInit == KeptInit /\ CaseInit

RecordsNext ==
  \/ KeptNext /\ UNCHANGED case
  \/ record = "neither" /\ CaseNext /\ UNCHANGED keptVars

RecordsSpec == RecordsInit /\ [][RecordsNext]_recordVars

-----------------------------------------------------------------------------
\* Two files of one name in two folders, and one too large to send on day 2.
A == [day |-> 1, folder |-> 0, name |-> "a"]
B == [day |-> 1, folder |-> 1, name |-> "a"]
D == [day |-> 2, folder |-> 0, name |-> "d"]
Files == {A, B, D}
LargeFiles == {D}

Windows == [k \in EventKind |-> IF k = "mismatch" THEN 3 ELSE 2]

-----------------------------------------------------------------------------
\* What is sent: texts with characters of every kind, numbers at their limits.
SeqsUpTo(S, n) == UNION {[1 .. k -> S] : k \in 0 .. n}

Texts == SeqsUpTo(Char, 3)
Names == {<<>>, <<"a">>, <<"wide">>, <<"nul", "a">>}

\* The values of a field, and of a layout one field at a time: the others are
\* at their first value.
FieldValues(f) ==
  CASE f.kind = "text" -> Texts
    [] f.kind = "raw" -> {[i \in 1 .. f.size |-> b] : b \in {0, 5}}
    [] f.kind = "num" -> {0, 1, 5, Base ^ f.size - 1, Base ^ f.size}
    [] f.kind = "signed" -> -4 .. 3
    [] f.kind = "enum" -> 0 .. 5
Plain(f) ==
  CASE f.kind = "text" -> <<"a">> [] f.kind = "raw" -> [i \in 1 .. f.size |-> 1]
    [] f.kind = "enum" -> CHOOSE v \in f.of : TRUE [] OTHER -> 0
LayoutValues(layout) ==
  UNION {{[[i \in DOMAIN layout |-> Plain(layout[i])] EXCEPT ![j] = v] :
            v \in FieldValues(layout[j])} : j \in DOMAIN layout}

Fixed == {AuthPayload, AuthAckPayload, FileAckPayload, CmdCtrlAckPayload,
          CmdLogAckPayload, CmdRecPayload, CmdRecAckPayload, LogFileEntry,
          DisconnectPayload, CmdLogPayload}
Listed == {LogFileListPayload, LogFileSelectPayload}
Bytes == SeqsUpTo({0, 1, 5}, 2)
Statuses == {<<>>} \cup {<<<<<<"a">>, s>>>> : s \in 0 .. 2}
            \cup {<<<<<<"a">>, s>>, <<<<"wide", "a">>, t>>>> : s, t \in 0 .. 2}

\* The values of a variable payload.
Variable == {"log_hist", "file_chunk", "log_real", "cmd_deploy", "cmd_ctrl", "heartbeat"}
ValuesOf(name) ==
  CASE name = "log_hist" -> Texts \X Bytes
    [] name = "file_chunk" -> {0, 1, 1295} \X Bytes
    [] name = "log_real" -> {0, 1, 5} \X Names \X SeqsUpTo({"a", "wide"}, 4)
    [] name = "cmd_deploy" -> {7} \X {<<0, 5>>} \X Names \X {0, 2, 3} \X Texts
    [] name = "cmd_ctrl" -> {0, 4, 5} \X {0, 1, 2} \X Texts
    [] name = "heartbeat" -> {0, 7} \X {0, 4, 5} \X {1} \X Statuses \X {-1, 0, 3, 5}

Streams == SeqsUpTo({<<1, <<>>>>, <<2, <<1, 5, 1>>>>, <<3, <<0, 3, 0, 0, 0, 0>>>>}, 2)

LegacyLines == {v \in Names \X SeqsUpTo({"nul", "a", "wide"}, 7) : Len(v[2]) < 5 \/ v[2][2] = "nul"}

WireCases ==
  UNION {{[kind |-> "fixed", of |-> l, value |-> v] : v \in LayoutValues(l)} : l \in Fixed}
  \cup UNION {{[kind |-> "variable", of |-> n, value |-> v] : v \in ValuesOf(n)} : n \in Variable}
  \cup UNION {{[kind |-> "list", of |-> l, value |-> <<v, w>>] :
                 v, w \in LayoutValues(l)} : l \in Listed}
  \cup UNION {{[kind |-> "object", of |-> c, value |-> {k, l}] :
                 k, l \in Keys(c)} : c \in JsonClass}
  \cup {[kind |-> "stream", of |-> "", value |-> v] : v \in Streams}
  \cup {[kind |-> "old_line", of |-> "", value |-> v] : v \in LegacyLines}
  \cup {[kind |-> "old_log", of |-> "", value |-> v] : v \in {1, 2, 3} \X Texts}
  \cup {[kind |-> "old_beat", of |-> "", value |-> v] : v \in {0, 9} \X {4} \X {3} \X {0, 1, 2}}
  \cup {[kind |-> "old_ctrl", of |-> "", value |-> v] : v \in 0 .. 4}
=============================================================================
