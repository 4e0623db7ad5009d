-------------------------------- MODULE CallLog --------------------------------
(***************************************************************************)
(* server/analysis/log_analyzer.py, the first half: the lines of a         *)
(* recording system's log are read in order, and become the calls, closed  *)
(* recordings and failures that CallMatching relates.                      *)
(*                                                                         *)
(* A line is its kind and what its pattern captures; a line without a time *)
(* has that of the line before.                                            *)
(***************************************************************************)
EXTENDS Integers, Sequences, FiniteSets, SequencesExt

CONSTANTS
  Chan, Version,
  RestartGap,            \* RESTART_GAP_SECONDS
  Window,                \* CONTEXT_WINDOW_LINES
  LineBound, TimeBound   \* lines and their clock at most

VARIABLES
  now,        \* _current_ts
  lines,      \* the lines read; their number is _total_lines
  version,    \* _current_version, "" before the first
  began,      \* the segment that is open: <<>> or <<its start>>
  segments,   \* _version_segments
  lastInit,   \* _last_init_ts: <<>> or <<time>>
  recent,     \* _recent_events: <<line, type>>
  counts,     \* the counters
  calls,      \* _smdr_calls, by their lines
  skipped,    \* _queue_skip_callers, by their lines
  closes,     \* _file_closes: the lines its name and its size come from
  graces,     \* _grace_closes
  halves,     \* _pending_closes: channel -> line, a partial function
  fails,      \* _db_fail_causes
  result      \* <<>>, or the number of crashes

vars == <<now, lines, version, began, segments, lastInit, recent, counts, calls, skipped,
          closes, graces, halves, fails, result>>

Counter == {"inbound", "outbound", "trunk", "db_fail", "reset", "mismatch", "session", "sspp",
            "norm"}

Init ==
  /\ now = 0
  /\ lines = <<>>
  /\ version = ""
  /\ began = <<>>
  /\ segments = <<>>
  /\ lastInit = <<>>
  /\ recent = <<>>
  /\ counts = [c \in Counter |-> 0]
  /\ calls = {} /\ skipped = {}
  /\ closes = {} /\ graces = {}
  /\ halves = <<>>
  /\ fails = {}
  /\ result = <<>>

\* A line is read.
Read(line) ==
  /\ result = <<>>
  /\ Len(lines) < LineBound
  /\ lines' = Append(lines, line)

Number == Len(lines) + 1

Counted(c) == counts' = [counts EXCEPT ![c] = @ + 1]

\* _push_event: the last events, twice as many as the window has lines.
Pushed(type) ==
  LET all == Append(recent, <<Number, type>>)
  IN recent' = SubSeq(all, IF Len(all) > 2 * Window THEN Len(all) - 2 * Window + 1 ELSE 1,
                      Len(all))

\* _has_recent_event: backwards until an event is too old.
HasRecent(type) ==
  \E i \in DOMAIN recent :
    /\ recent[i][2] = type
    /\ \A j \in i .. Len(recent) : Number - recent[j][1] <= Window

-----------------------------------------------------------------------------

\* The lines after this one have a later time.
Tick ==
  /\ result = <<>>
  /\ now < TimeBound
  /\ now' = now + 1
  /\ UNCHANGED <<lines, version, began, segments, lastInit, recent, counts, calls, skipped,
                 closes, graces, halves, fails, result>>

\* _finalize_segment.
Finalized ==
  IF began = <<>> THEN segments
  ELSE Append(segments, [version |-> version, start |-> began[1], end |-> now])

ReadInit ==
  /\ Read([kind |-> "init"])
  /\ segments' = Finalized
  /\ lastInit' = <<now>>
  /\ began' = <<now>>
  /\ Pushed("init_instance")
  /\ UNCHANGED <<now, version, counts, calls, skipped, closes, graces, halves, fails, result>>

ReadVersion(v) ==
  /\ Read([kind |-> "version"])
  /\ version' = v
  /\ UNCHANGED <<now, began, segments, lastInit, recent, counts, calls, skipped, closes, graces,
                 halves, fails, result>>

\* A call that ended; one of no duration is only counted.
ReadCall(direction, lasted) ==
  /\ Read([kind |-> "call"])
  /\ counts' = [counts EXCEPT !["inbound"] = IF direction = "inbound" THEN @ + 1 ELSE @,
                              !["outbound"] = IF direction # "inbound" THEN @ + 1 ELSE @,
                              !["trunk"] = IF direction = "trunk" THEN @ + 1 ELSE @]
  /\ calls' = IF lasted THEN calls \cup {Number} ELSE calls
  /\ UNCHANGED <<now, version, began, segments, lastInit, recent, skipped, closes, graces,
                 halves, fails, result>>

\* A call in the queue that was recorded before.
ReadSkip ==
  /\ Read([kind |-> "skip"])
  /\ skipped' = skipped \cup {Number}
  /\ UNCHANGED <<now, version, began, segments, lastInit, recent, counts, calls, closes, graces,
                 halves, fails, result>>

\* _classify_db_fail.
Cause(did, noMatch) ==
  IF did THEN "did_3301"
  ELSE IF lastInit # <<>> /\ now - lastInit[1] <= RestartGap THEN "restart_gap"
  ELSE IF HasRecent("sspp_loss") THEN "sspp_loss"
  ELSE IF noMatch THEN "norm_failure"
  ELSE IF HasRecent("outbound_reset") THEN "direction_mismatch"
  ELSE "unknown"

ReadFail(did, noMatch) ==
  /\ Read([kind |-> "fail"])
  /\ Counted("db_fail")
  /\ fails' = fails \cup {[line |-> Number, cause |-> Cause(did, noMatch), time |-> now]}
  /\ Pushed("db_fail")
  /\ UNCHANGED <<now, version, began, segments, lastInit, calls, skipped, closes, graces,
                 halves, result>>

\* Lines that are counted and noted for the failures after them.
ReadNoted(counter, type) ==
  /\ Read([kind |-> type])
  /\ Counted(counter)
  /\ Pushed(type)
  /\ UNCHANGED <<now, version, began, segments, lastInit, calls, skipped, closes, graces,
                 halves, fails, result>>

\* Lines that are only counted.
ReadCounted(counter) ==
  /\ Read([kind |-> "counted"])
  /\ Counted(counter)
  /\ UNCHANGED <<now, version, began, segments, lastInit, recent, calls, skipped, closes,
                 graces, halves, fails, result>>

-----------------------------------------------------------------------------
(* Recordings that are closed, in one line or in two.                      *)

\* Variant: one half at most, whatever its channel.
AnyHalf(c) == DOMAIN halves

Half(c) == DOMAIN halves \cap {c}

Kept(c) == [d \in DOMAIN halves \ Half(c) |-> halves[d]]

\* All in one line, of the new form or of the old; it drops the half of its channel.
ReadClose(c, empty) ==
  /\ Read([kind |-> "close", chan |-> c, empty |-> empty])
  /\ closes' = IF empty THEN closes
               ELSE closes \cup {[name |-> Number, size |-> Number, time |-> now]}
  /\ halves' = IF empty THEN halves ELSE Kept(c)
  /\ UNCHANGED <<now, version, began, segments, lastInit, recent, counts, calls, skipped,
                 graces, fails, result>>

\* The first half of two: the name.
ReadPath(c) ==
  /\ Read([kind |-> "path", chan |-> c, empty |-> FALSE])
  /\ halves' = [d \in DOMAIN halves \cup {c} |->
                  IF d = c THEN [line |-> Number, time |-> now] ELSE halves[d]]
  /\ UNCHANGED <<now, version, began, segments, lastInit, recent, counts, calls, skipped, closes,
                 graces, fails, result>>

\* The second half: the size, with the name of the first half if there is one.
ReadSize(c, empty) ==
  /\ Read([kind |-> "size", chan |-> c, empty |-> empty])
  /\ IF empty THEN UNCHANGED <<closes, graces, halves>>
     ELSE IF Half(c) # {} THEN
       /\ \E d \in Half(c) :
            closes' = closes \cup {[name |-> halves[d].line, size |-> Number,
                                    time |-> halves[d].time]}
       /\ halves' = Kept(c)
       /\ UNCHANGED graces
     ELSE
       /\ graces' = graces \cup {Number}
       /\ UNCHANGED <<closes, halves>>
  /\ UNCHANGED <<now, version, began, segments, lastInit, recent, counts, calls, skipped, fails,
                 result>>

\* A close without any name, corrupted by a grace period.
ReadGrace(empty) ==
  /\ Read([kind |-> "grace"])
  /\ graces' = IF empty THEN graces ELSE graces \cup {Number}
  /\ UNCHANGED <<now, version, began, segments, lastInit, recent, counts, calls, skipped, closes,
                 halves, fails, result>>

-----------------------------------------------------------------------------

\* _detect_crashes: restarts of the same version.
Crashes(segs) ==
  Cardinality({i \in 2 .. Len(segs) : segs[i].version = segs[i - 1].version})

\* The end of the last file: the segment ends, and the halves that are left
\* become recordings without a size, if there was any call.
Finish ==
  /\ result = <<>>
  /\ segments' = Finalized
  /\ result' = <<Crashes(Finalized)>>
  /\ IF calls = {} THEN UNCHANGED <<closes, halves>>
     ELSE /\ closes' = closes \cup {[name |-> halves[c].line, size |-> 0, time |-> halves[c].time] :
                                      c \in DOMAIN halves}
          /\ halves' = <<>>
  /\ UNCHANGED <<now, lines, version, began, lastInit, recent, counts, calls, skipped, graces,
                 fails>>

Next ==
  \/ Tick
  \/ ReadInit
  \/ \E v \in Version : ReadVersion(v)
  \/ \E d \in {"inbound", "outbound", "trunk"}, lasted \in BOOLEAN : ReadCall(d, lasted)
  \/ ReadSkip
  \/ \E did, noMatch \in BOOLEAN : ReadFail(did, noMatch)
  \/ ReadNoted("reset", "outbound_reset")
  \/ ReadNoted("sspp", "sspp_loss")
  \/ ReadNoted("norm", "norm_failure")
  \/ \E c \in {"mismatch", "session"} : ReadCounted(c)
  \/ \E c \in Chan :
       \/ \E empty \in BOOLEAN : ReadClose(c, empty) \/ ReadSize(c, empty)
       \/ ReadPath(c)
  \/ \E empty \in BOOLEAN : ReadGrace(empty)
  \/ Finish

Spec == Init /\ [][Next]_vars

-----------------------------------------------------------------------------

OfChannel(c, first, last) ==
  {i \in first .. last : "chan" \in DOMAIN lines[i] /\ lines[i].chan = c /\ ~lines[i].empty}

\* A recording that is put together from two lines has both from one channel,
\* with no other close of that channel between them, however the lines of
\* several channels mix; and no name is used twice (log_analyzer.py:590-633).
HalvesMeet ==
  /\ \A c \in closes :
       c.size > c.name =>
         /\ lines[c.name].kind = "path" /\ lines[c.size].kind = "size"
         /\ OfChannel(lines[c.name].chan, c.name, c.size) = {c.name, c.size}
  /\ \A c, d \in closes : c.name = d.name => c = d

InWindow(line, kind) ==
  \E i \in 1 .. line - 1 : line - i <= Window /\ lines[i].kind = kind

\* A failure is put down to a loss, or to a reset of the direction, exactly when
\* a line within the window before it says so and nothing of more weight
\* explains it, although only the last events are kept
\* (log_analyzer.py:1371-1468).
CauseIsRecent ==
  \A f \in fails :
    /\ f.cause = "sspp_loss" => InWindow(f.line, "sspp_loss")
    /\ f.cause = "direction_mismatch" =>
         InWindow(f.line, "outbound_reset") /\ ~InWindow(f.line, "sspp_loss")
    /\ f.cause = "unknown" =>
         ~InWindow(f.line, "outbound_reset") /\ ~InWindow(f.line, "sspp_loss")
=============================================================================
