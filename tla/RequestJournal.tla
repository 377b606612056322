--------------------------- MODULE RequestJournal ---------------------------
(* The answers a table of requests gives (src/src/shadow/request-journal.ts).  *)
(* Reviews and work decisions each keep such a table: a row holds what was     *)
(* asked under an id and the result the id keeps answering.                    *)

Absent == "absent"
Recorded == "recorded"
Conflict == "request_conflict"

(* What a stored row says to a request for `payload`; `none` is no row. *)
RequestOutcome(row, payload, none) ==
  IF row = none THEN Absent
  ELSE IF row.payload # payload THEN Conflict ELSE row.result

Remembered(payload, result) == [payload |-> payload, result |-> result]

=============================================================================
