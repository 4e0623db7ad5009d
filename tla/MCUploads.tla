----------------------------- MODULE MCUploads ------------------------------
(***************************************************************************)
(* Uploads on small instances: files of two pieces, of one, and an empty   *)
(* one.                                                                    *)
(***************************************************************************)
EXTENDS Uploads

CONSTANTS
  Empty,    \* the requests for an empty file
  Small     \* and those for a file of one piece

MCSize ==
  [r \in Req |-> IF r \in Empty THEN 0 ELSE IF r \in Small THEN 1 ELSE 2]
=============================================================================
