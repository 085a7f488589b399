---------------------------- MODULE MetadataLog -----------------------------
(***************************************************************************)
(* The bytes of the metadata log: the loop of parse_cluster_metadata that  *)
(* finds the topic and partition records.                                  *)
(*                                                                         *)
(* Unlike the other parsers it does not give up when a record fails: it    *)
(* goes on with the next from wherever the reader is by then.              *)
(***************************************************************************)
EXTENDS Wire

LogHeader ==
  <<Raw("", 8), Num("batch_len", 4), Raw("", 4), Num("magic", 1), Raw("", 4), Raw("", 2),
    Num("last_offset_delta", 4), Raw("", 8), Raw("", 8), Raw("", 8), Raw("", 2), Raw("", 4)>>

\* A record up to the length of its value: attributes, two deltas, the key.
RecordStart == <<Num("", 1), Unsigned(""), Unsigned(""), SignedBlob(""), Signed("value_len")>>

\* "continue": the reader stays where the read failed.
Resumed(rd) == [rd EXCEPT !.ok = TRUE]

\* What the value of a record says, and whether it could be read: a topic, a
\* partition, or something else.
Said(type, rd) ==
  [ok |-> rd.ok, recs |-> IF rd.ok THEN <<("type" :> type) @@ rd.val>> ELSE <<>>]

PayloadBehind(frame) ==
  LET rest == [frame EXCEPT !.val = <<>>]
  IN  IF ~frame.ok THEN [ok |-> FALSE, recs |-> <<>>]
      ELSE CASE frame.val["api_key"] = 2 ->
                  Said("topic", ReadAll(rest, <<Str("name"), Raw("uuid", 16)>>))
             [] frame.val["api_key"] = 3 ->
                  Said("partition", ReadAll(rest, <<Num("partition", 4), Raw("uuid", 16)>>))
             [] OTHER -> [ok |-> TRUE, recs |-> <<>>]

Payload(value) ==
  PayloadBehind(ReadAll(Reader(value), <<Unsigned(""), Unsigned("api_key"), Unsigned("")>>))

\* The loop over the headers.  A turn that cannot read on changes nothing,
\* nor do the turns after it.
RECURSIVE SkipHeaders(_, _)
HeaderSkipped(rd, turn, n) == IF turn.pos = rd.pos THEN rd ELSE SkipHeaders(turn, n - 1)

SkipHeaders(rd, n) ==
  IF n <= 0 THEN rd
  ELSE HeaderSkipped(rd, Resumed(ReadAll(rd, <<SignedBlob(""), SignedBlob("")>>)), n)

SkipRest(rd, end) == IF rd.pos < end THEN Resumed(Take(rd, "", end - rd.pos)) ELSE rd

-----------------------------------------------------------------------------
(***************************************************************************)
(* A turn of the loop over the records of a batch: the reader behind it,   *)
(* and the record if it was one of the two kinds.  Part by part; end is    *)
(* where the record should end.                                            *)
(***************************************************************************)
NoRecord(at) == [rd |-> Resumed(at), recs |-> <<>>]

AfterCount(count, recs, end) ==
  [rd |-> IF count.ok THEN SkipRest(SkipHeaders(count, count.val["header_count"]), end)
          ELSE Resumed(count),
   recs |-> recs]

AfterPayload(value, payload, end) ==
  IF ~payload.ok THEN NoRecord(value)
  ELSE AfterCount(ReadField(value, Signed("header_count")), payload.recs, end)

AfterValue(value, end) ==
  IF ~value.ok THEN NoRecord(value) ELSE AfterPayload(value, Payload(value.val["value"]), end)

AfterStart(start, end) ==
  IF ~start.ok THEN NoRecord(start)
  ELSE IF start.val["value_len"] < 3 THEN NoRecord(ReadField(start, Signed("")))
  ELSE AfterValue(Take(start, "value", start.val["value_len"]), end)

AfterLength(length) ==
  IF ~length.ok \/ length.val["rec_len"] < 0 THEN NoRecord(length)
  ELSE AfterStart(ReadAll(length, RecordStart), length.pos + length.val["rec_len"])

Turn(rd) == AfterLength(ReadField(rd, Signed("rec_len")))

-----------------------------------------------------------------------------
\* at: the reader, and the records found so far.
Added(at, turn) == [turn EXCEPT !.recs = at.recs \o @]

\* Mutant: last_offset_delta is taken for the number of records.
RECURSIVE ReadRecordsButOne(_, _, _)
ReadRecordsButOne(at, end, n) ==
  IF n <= 1 \/ at.rd.pos >= end THEN at
  ELSE ReadRecordsButOne(Added(at, Turn(at.rd)), end, n - 1)

RECURSIVE ReadRecords(_, _, _)
ReadRecords(at, end, n) ==
  IF n <= 0 \/ at.rd.pos >= end THEN at ELSE ReadRecords(Added(at, Turn(at.rd)), end, n - 1)

\* The loop over the batches, which a header that cannot be used ends.
RECURSIVE ReadLog(_)
AfterHeader(at, head) ==
  IF ~head.ok \/ head.val["batch_len"] < 0 \/ head.val["magic"] # 2 THEN at.recs
  ELSE ReadLog(ReadRecords([at EXCEPT !.rd = head], at.rd.pos + 12 + head.val["batch_len"],
                           head.val["last_offset_delta"] + 1))

ReadLog(at) ==
  IF Remaining(at.rd) < 57 THEN at.recs ELSE AfterHeader(at, ReadAll(at.rd, LogHeader))

\* The records of the log, in its order.
MetadataRecords(data) == ReadLog([rd |-> Reader(data), recs |-> <<>>])
=============================================================================
