------------------------------- MODULE LogTail -------------------------------
(***************************************************************************)
(* agent/core/log_watcher.py: the agent follows the files of its log       *)
(* folders and hands every new line to a callback.  The programs that      *)
(* write the files rotate them; the server may change the folders.         *)
(*                                                                         *)
(* A file's text is a row of halves of lines: an even half ends its line.  *)
(* A half is named <<generation, place>>, the generation counting the      *)
(* rotations of the file.  There is one file in a folder.                  *)
(***************************************************************************)
EXTENDS Integers, Sequences, FiniteSets, SequencesExt

CONSTANTS
  File,         \* the files, each in a folder of its own
  WriteBound,   \* halves in a file at most
  QueueBound,   \* events in the queue at most
  RotateBound,  \* rotations of a file at most
  ReloadBound,  \* changes of the folders at most
  ReadFaults    \* reads that fail at most

VARIABLES
  size, gen,    \* a file's length in halves, its generation
  watched,      \* _watch_dirs, by their file
  positions,    \* _positions: file -> place of the last half read; a partial function
  queue,        \* _event_queue
  observing,    \* the watchdog observer runs
  consumer,     \* _consume_events: "idle", "dead", a read or the text to deliver
  orphans,      \* reads of a thread whose consumer was cancelled
  reloads, faults,
  seen,         \* file -> what the callback was given, history
  start         \* file -> where its text begins to be followed, history

vars == <<size, gen, watched, positions, queue, observing, consumer, orphans, reloads,
          faults, seen, start>>

Idle == [at |-> "idle"]
Dead == [at |-> "dead"]

Position(f) == IF f \in DOMAIN positions THEN positions[f] ELSE 0

\* _seed_file_positions
Seeded(files) ==
  [f \in DOMAIN positions \cup files |-> IF f \in files THEN size[f] ELSE positions[f]]

Init ==
  /\ size \in [File -> 0 .. 1]
  /\ gen = [f \in File |-> 0]
  /\ watched = File
  /\ positions = [f \in File |-> size[f]]
  /\ queue = <<>>
  /\ observing = TRUE
  /\ consumer = Idle
  /\ orphans = {}
  /\ reloads = 0
  /\ faults = 0
  /\ seen = [f \in File |-> <<>>]
  /\ start = size

-----------------------------------------------------------------------------
(* The writing programs.                                                   *)

\* The watchdog may tell of a change, through call_soon_threadsafe, or miss it.
Event(f) ==
  \/ queue' = queue
  \/ /\ observing
     /\ f \in watched
     /\ Len(queue) < QueueBound
     /\ queue' = Append(queue, f)

\* A program appends half a line or a line.
Write(f) ==
  /\ \E n \in {1, 2} :
       /\ size[f] + n <= WriteBound
       /\ size' = [size EXCEPT ![f] = @ + n]
  /\ Event(f)
  /\ UNCHANGED <<gen, watched, positions, observing, consumer, orphans, reloads, faults,
                 seen, start>>

\* The file is emptied, or a new one takes its name.
Rotate(f) ==
  /\ gen[f] < RotateBound
  /\ gen' = [gen EXCEPT ![f] = @ + 1]
  /\ size' = [size EXCEPT ![f] = 0]
  /\ Event(f)
  /\ UNCHANGED <<watched, positions, observing, consumer, orphans, reloads, faults, seen,
                 start>>

-----------------------------------------------------------------------------
(* The watcher's tasks.                                                    *)

\* Variant: half a line does not wake the poll.
PollWholeLines ==
  LET longer == {f \in watched : size[f] > Position(f) + 1}
  IN /\ longer # {}
     /\ Len(queue) + Cardinality(longer) <= QueueBound
     /\ queue' \in {queue \o s : s \in SetToSeqs(longer)}
     /\ UNCHANGED <<size, gen, watched, positions, observing, consumer, orphans, reloads,
                    faults, seen, start>>

\* _poll_files, every three seconds: a file longer than what was read is queued.
Poll ==
  LET longer == {f \in watched : size[f] > Position(f)}
  IN /\ longer # {}
     /\ Len(queue) + Cardinality(longer) <= QueueBound
     /\ queue' \in {queue \o s : s \in SetToSeqs(longer)}
     /\ UNCHANGED <<size, gen, watched, positions, observing, consumer, orphans, reloads,
                    faults, seen, start>>

\* The first half of _read_new_lines, in a thread: the file's size against the
\* position.  The folder of the file is not asked for, only its suffix.
Take ==
  LET f == Head(queue)
  IN /\ consumer = Idle
     /\ queue # <<>>
     /\ queue' = Tail(queue)
     /\ consumer' = [at |-> "reading", file |-> f,
                     from |-> IF size[f] < Position(f) THEN 0 ELSE Position(f)]
     /\ UNCHANGED <<size, gen, watched, positions, observing, orphans, reloads, faults,
                    seen, start>>

\* A file that is moved away and has no successor yet loses its position.
TakeMissing ==
  LET f == Head(queue)
  IN /\ consumer = Idle
     /\ queue # <<>>
     /\ gen[f] > 0 /\ size[f] = 0
     /\ queue' = Tail(queue)
     /\ positions' = [g \in DOMAIN positions \ {f} |-> positions[g]]
     /\ UNCHANGED <<size, gen, watched, observing, consumer, orphans, reloads, faults, seen,
                    start>>

\* Variant: the position is the end of the last whole line.
LineEnd(f, from) == IF size[f] < from THEN from ELSE size[f] - (size[f] % 2)

\* handle.read() and handle.tell(): to the end, or nothing past it.
Halves(f, from) == [i \in 1 .. size[f] - from |-> <<gen[f], from + i>>]
EndOf(f, from) == IF size[f] < from THEN from ELSE size[f]

\* splitlines: a piece ends at the end of a line, which is its second half, or of the text.
FirstLine(halves) ==
  SubSeq(halves, 1, IF halves[1][2] % 2 = 0 \/ Len(halves) = 1 THEN 1 ELSE 2)

Noted(f, from) ==
  [g \in DOMAIN positions \cup {f} |-> IF g = f THEN EndOf(f, from) ELSE positions[g]]

Read ==
  /\ consumer.at = "reading"
  /\ positions' = Noted(consumer.file, consumer.from)
  /\ consumer' = [at |-> "delivering", file |-> consumer.file,
                  halves |-> Halves(consumer.file, consumer.from)]
  /\ UNCHANGED <<size, gen, watched, queue, observing, orphans, reloads, faults, seen, start>>

\* The open or the read raises OSError, which _consume_events does not catch.
ReadRaises ==
  /\ consumer.at = "reading"
  /\ faults < ReadFaults
  /\ faults' = faults + 1
  /\ consumer' = Dead
  /\ UNCHANGED <<size, gen, watched, positions, queue, observing, orphans, reloads, seen,
                 start>>

\* _on_new_line is awaited for each line in turn.
Deliver ==
  /\ consumer.at = "delivering"
  /\ IF consumer.halves = <<>>
     THEN consumer' = Idle /\ seen' = seen
     ELSE LET line == FirstLine(consumer.halves)
          IN /\ consumer' = [consumer EXCEPT !.halves = SubSeq(@, Len(line) + 1, Len(@))]
             /\ seen' = [seen EXCEPT ![consumer.file] = @ \o line]
  /\ UNCHANGED <<size, gen, watched, positions, queue, observing, orphans, reloads, faults,
                 start>>

-----------------------------------------------------------------------------
(* update_config: stop and start with other folders.                       *)

\* The observer is stopped; its thread is joined while the tasks go on.
Stop ==
  /\ observing
  /\ reloads < ReloadBound
  /\ observing' = FALSE
  /\ UNCHANGED <<size, gen, watched, positions, queue, consumer, orphans, reloads, faults,
                 seen, start>>

\* The tasks are cancelled, the lines of the batch go with the consumer, its
\* thread reads on; the positions of the new folders are seeded.  The queue stays.
Restart(files) ==
  /\ ~observing
  /\ reloads' = reloads + 1
  /\ observing' = TRUE
  /\ watched' = files
  /\ positions' = Seeded(files)
  /\ consumer' = Idle
  /\ orphans' = IF consumer.at = "reading" THEN orphans \cup {consumer} ELSE orphans
  /\ start' = [f \in File |-> IF f \in files THEN size[f] ELSE start[f]]
  /\ UNCHANGED <<size, gen, queue, faults, seen>>

\* The read of a thread nobody waits for moves the position all the same.
OrphanRead(r) ==
  /\ r \in orphans
  /\ orphans' = orphans \ {r}
  /\ positions' = Noted(r.file, r.from)
  /\ UNCHANGED <<size, gen, watched, queue, observing, consumer, reloads, faults, seen, start>>

-----------------------------------------------------------------------------

Next ==
  \/ \E f \in File : Write(f) \/ Rotate(f)
  \/ Poll
  \/ Take
  \/ TakeMissing
  \/ Read
  \/ ReadRaises
  \/ Deliver
  \/ Stop
  \/ \E files \in SUBSET File \ {{}} : Restart(files)
  \/ \E r \in orphans : OrphanRead(r)

Fairness == WF_vars(Poll) /\ WF_vars(Take \/ TakeMissing) /\ WF_vars(Read) /\ WF_vars(Deliver)

Spec == Init /\ [][Next]_vars /\ Fairness

-----------------------------------------------------------------------------
(* Properties.                                                             *)

Undelivered(f) ==
  IF consumer.at = "delivering" /\ consumer.file = f THEN consumer.halves ELSE <<>>

Before(a, b) == a[1] < b[1] \/ (a[1] = b[1] /\ a[2] < b[2])

\* No text is given to the callback twice or out of order, whatever is written
\* while a file is read or rotated, and whatever threads read on after a change
\* of the folders (log_watcher.py:305-324).  Both together repeat it: a thread
\* that began to read before the rotation puts the old position back, which is
\* past the end of the new file, and the next event reads it from its start.
NeverTwice ==
  \A f \in File :
    LET all == seen[f] \o Undelivered(f)
    IN gen[f] = 0 \/ reloads = 0 =>
         \A i \in 1 .. Len(all) - 1 : Before(all[i], all[i + 1])

\* Until a file is rotated, the folders change or a read fails, what the
\* callback was given and is still to be given is the text from where the
\* file was first followed to its position, none of it left out.
NothingSkipped ==
  \A f \in File :
    (gen[f] = 0 /\ reloads = 0 /\ faults = 0) =>
      seen[f] \o Undelivered(f)
        = [i \in 1 .. Position(f) - start[f] |-> <<0, start[f] + i>>]

\* Every half written to a followed file reaches the callback in the end, also
\* when the watchdog misses the change, unless the file is rotated, a read
\* fails or the folders change (the poll of log_watcher.py:250-266).
FollowedToTheEnd ==
  \A f \in File : \A n \in 1 .. WriteBound :
    (size[f] >= n /\ start[f] < n)
      ~> (<<0, n>> \in ToSet(seen[f]) \/ gen[f] > 0 \/ reloads > 0 \/ ~observing \/ faults > 0)
=============================================================================
