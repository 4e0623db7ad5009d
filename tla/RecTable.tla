------------------------------- MODULE RecTable -------------------------------
(***************************************************************************)
(* The server's table of analysed recordings (airec/rec_handler.py) and    *)
(* the pipeline an uploaded one goes through: audio quality, then speech   *)
(* to text and its scores (airec/analyzer/pipeline.py).                    *)
(*                                                                         *)
(* The table is a sequence in the order of received_at.  It is pruned to   *)
(* its newer half when it has more than MaxRecords records.            *)
(***************************************************************************)
EXTENDS Integers, Sequences, FiniteSets, SequencesExt

CONSTANTS
  Agent, File,
  InOut,        \* 1 a call received, 2 a call made
  MaxRecords    \* _MAX_RECORDS

VARIABLES
  records,  \* _records: sequence of [agent, file, inOut, uploaded]
  pending,  \* agent -> files it was asked to upload
  job,      \* one of the recordings in the pipeline, or sent last
  results   \* [agent, file] in the order of their last result, history

vars == <<records, pending, job, results>>

NoJob == [at |-> "none"]

Init ==
  /\ records = <<>>
  /\ pending = [a \in Agent |-> {}]
  /\ job = NoJob
  /\ results = <<>>

\* Of a recording there is one at most.
Others(s, a, f) ==
  LET places == {i \in DOMAIN s : s[i].agent = a /\ s[i].file = f}
  IN IF places = {} THEN s ELSE RemoveAt(s, CHOOSE i \in places : TRUE)
Record(a, f) == {r \in ToSet(records) : r.agent = a /\ r.file = f}

\* Variant: the place a record has in the dictionary, which a new result of the same
\* recording does not change.
InPlace(record) ==
  IF \E i \in DOMAIN records : records[i].agent = record.agent /\ records[i].file = record.file
  THEN [i \in DOMAIN records |->
          IF records[i].agent = record.agent /\ records[i].file = record.file
          THEN record ELSE records[i]]
  ELSE Append(records, record)

\* A new record of a recording takes the place of the one before.
Stored(record) == Append(Others(records, record.agent, record.file), record)

Pruned(table) ==
  IF Len(table) > MaxRecords THEN SubSeq(table, Len(table) \div 2 + 1, Len(table)) ELSE table

-----------------------------------------------------------------------------

\* handle_analysis_result: the record is new, so that the recording is asked for
\* however often it was uploaded before.
AnalysisResult(a, f) ==
  /\ \E i \in InOut :
       records' = Pruned(Stored([agent |-> a, file |-> f, inOut |-> i, uploaded |-> FALSE]))
  /\ pending' = [pending EXCEPT ![a] = @ \cup {f}]
  /\ results' = Append(Others(results, a, f), [agent |-> a, file |-> f])
  /\ UNCHANGED job

\* handle_upload_ack: a failed upload is not asked for again.  What was uploaded
\* goes to the pipeline with the direction its record has, if it still has one and
\* the file is found.
UploadAck(a, f, ok) ==
  /\ pending' = [pending EXCEPT ![a] = @ \ {f}]
  /\ records' = IF ok
                THEN [i \in DOMAIN records |->
                        [records[i] EXCEPT !.uploaded = @ \/ records[i] \in Record(a, f)]]
                ELSE records
  /\ \/ /\ ok
        /\ job.at \in {"none", "sent"}
        /\ job' = [at |-> "quality", agent |-> a, file |-> f, quality |-> FALSE,
                   inOut |-> IF Record(a, f) = {} THEN 0
                             ELSE (CHOOSE r \in Record(a, f) : TRUE).inOut,
                   recent |-> \E i \in DOMAIN results :
                                /\ results[i].agent = a /\ results[i].file = f
                                /\ Len(results) - i <= MaxRecords \div 2]
     \/ UNCHANGED job
  /\ UNCHANGED results

\* run_audio_quality, in a thread; a failure leaves its fields empty.
AudioQuality(ok) ==
  /\ job.at = "quality"
  /\ job' = [job EXCEPT !.at = "text", !.quality = ok]
  /\ UNCHANGED <<records, pending, results>>

\* run_pipeline, in a thread: the transcript, then the scores of it; when one of them
\* raises, nothing is sent.
RunPipeline(ok) ==
  /\ job.at = "text"
  /\ job' = IF ok THEN [job EXCEPT !.at = "scored"] ELSE NoJob
  /\ UNCHANGED <<records, pending, results>>

\* run_stt_pipeline: the payload of both, with the quality as far as it is known.
SendResult ==
  /\ job.at = "scored"
  /\ job' = [job EXCEPT !.at = "sent"]
  /\ UNCHANGED <<records, pending, results>>

Next ==
  \/ \E a \in Agent, f \in File : AnalysisResult(a, f) \/ \E ok \in BOOLEAN : UploadAck(a, f, ok)
  \/ \E ok \in BOOLEAN : AudioQuality(ok) \/ RunPipeline(ok)
  \/ SendResult

Spec == Init /\ [][Next]_vars

-----------------------------------------------------------------------------

\* The direction of a call, which says whose channel is which, reaches speech to text
\* for every recording whose result is among the last half of the table's length,
\* whatever was pruned before its upload was acknowledged (rec_handler.py:83-90,
\* tcp_server.py:1456-1459).
DirectionKnown ==
  job # NoJob => (job.recent => job.inOut \in InOut)
=============================================================================
