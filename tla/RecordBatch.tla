---------------------------- MODULE RecordBatch -----------------------------
(***************************************************************************)
(* Record batches: parse_record_batch, by which a fetch finds out which of *)
(* the bytes it has read are whole batches, and record_batch_count, by     *)
(* which a produce learns how many offsets it hands out.                   *)
(***************************************************************************)
EXTENDS Wire

BatchHeader ==
  <<Num("", 8), Num("", 4), Num("", 4), Num("magic", 1), Num("", 4), Num("", 2),
    Num("last_offset_delta", 4), Num("", 8), Num("", 8), Num("", 8), Num("", 2), Num("", 4)>>

\* What follows the size of a record: attributes, the two deltas, key, value
\* and headers, of which only the value is kept.
Record ==
  <<Num("", 1), Signed(""), Signed(""), SignedBlob(""), SignedBlob("value"),
    Arr("", <<SignedBlob(""), SignedBlob("")>>)>>

\* A record after its size.  One whose size is not positive has no more.
RestOf(size) ==
  IF ~size.ok \/ size.val["size"] <= 0 THEN [size EXCEPT !.val = <<>>]
  ELSE ReadAll([size EXCEPT !.val = <<>>], Record)

\* The value a record left behind with the reader.
ValueIn(rd) == IF "value" \in DOMAIN rd.val THEN <<rd.val["value"]>> ELSE <<>>

\* The loop over the records, n of which are still to be read.
RECURSIVE ParseRecords(_, _, _)
ParseRecords(rd, n, values) ==
  IF ~rd.ok THEN [ok |-> FALSE, values |-> <<>>]
  ELSE IF n <= 0 THEN [ok |-> TRUE, values |-> values \o ValueIn(rd)]
  ELSE ParseRecords(RestOf(ReadField(rd, Signed("size"))), n - 1, values \o ValueIn(rd))

RecordsBehind(head) ==
  IF ~head.ok \/ head.val["magic"] # 2 THEN [ok |-> FALSE, values |-> <<>>]
  ELSE ParseRecords(head, head.val["last_offset_delta"] + 1, <<>>)

\* parse_single_record_batch
ParseSingle(data) == RecordsBehind(ReadAll(Reader(data), BatchHeader))

Values(values) == [ok |-> values # <<>>, values |-> values]

\* Where the batch at offset ends, by the length in its header.
BatchEnd(data, offset) == offset + 12 + Decoded(SubSeq(data, offset + 9, offset + 12))

RECURSIVE ParseBatches(_, _, _)

\* The batch at offset has been parsed, to one.
ParsedNext(data, offset, values, one) ==
  IF ~one.ok THEN Values(values)
  ELSE ParseBatches(data, BatchEnd(data, offset), values \o one.values)

\* Mutant: a batch that is cut off spoils the ones before it.
ParseBatchesAllOrNone(data, offset, values) ==
  IF offset + 12 > Len(data) THEN Values(values)
  ELSE LET end == BatchEnd(data, offset)
       IN  IF end < offset + 12 \/ end > Len(data) THEN Values(<<>>)
           ELSE ParsedNext(data, offset, values, ParseSingle(SubSeq(data, offset + 1, end)))

\* The loop of parse_record_batch.  It stops at the first batch that is cut
\* off or does not parse; what it has by then is the result, and nothing at
\* all is an error.
ParseBatches(data, offset, values) ==
  IF offset + 12 > Len(data) THEN Values(values)
  ELSE LET end == BatchEnd(data, offset)
       IN  IF end < offset + 12 \/ end > Len(data) THEN Values(values)
           ELSE ParsedNext(data, offset, values, ParseSingle(SubSeq(data, offset + 1, end)))

ParseRecordBatch(data) == ParseBatches(data, 0, <<>>)

\* record_batch_count: from the header of the first batch, be there others.
RecordBatchCount(data) ==
  LET head == ReadAll(Reader(data), SubSeq(BatchHeader, 1, 7))
  IN  IF Len(data) < 28 \/ head.val["magic"] # 2 THEN 0 - 1
      ELSE head.val["last_offset_delta"] + 1
=============================================================================
