-------------------------- MODULE PartitionContext --------------------------
(***************************************************************************)
(* One partition on one reactor: PartitionContext with its segment files,  *)
(* and the produce and fetch handlers that drive it.                       *)
(*                                                                         *)
(* A batch is known by the offset it was based at and its record count; a  *)
(* record is known by its offset.  Sizes are in units: a record is one, a  *)
(* batch header Overhead.  A file descriptor is the base offset of the     *)
(* segment it was opened for.                                              *)
(*                                                                         *)
(* produce() submits the write to the reactor's io_uring and answers; the  *)
(* kernel carries it out later (Land), and nobody looks at its result.     *)
(***************************************************************************)
EXTENDS Integers, FiniteSets, SequencesExt, Vectors

CONSTANTS
  Counts,           \* record counts of the batches producers send
  Overhead,         \* size of a batch header
  SegmentBytes,     \* segment_bytes_, 0 for a single segment
  IndexInterval,    \* kSparseIndexInterval
  MaxBytes,         \* the max_bytes values consumers send
  MaxFetchChunk,    \* kMaxFetchChunk
  SpliceThreshold,  \* 65536 in splice_info
  Reordered,        \* whether the kernel may carry writes out in any order
  OpensFail,        \* whether opening a segment may fail
  WritesFail,       \* whether the kernel may drop a write
  MaxOffset,        \* bound: records produced
  MaxInflight       \* bound: writes under way

ASSUME PartitionAssumption ==
  /\ Counts \subseteq Nat \ {0}
  /\ Overhead \in Nat
  /\ SegmentBytes \in Nat
  /\ IndexInterval \in Nat \ {0}
  /\ MaxBytes \subseteq Int
  /\ MaxFetchChunk \in Nat
  /\ SpliceThreshold \in Nat \ {0}
  /\ Reordered \in BOOLEAN /\ OpensFail \in BOOLEAN /\ WritesFail \in BOOLEAN
  /\ MaxOffset \in Nat /\ MaxInflight \in Nat

VARIABLES
  next_offset, current_segment_base_offset, current_segment_bytes,
  current_segment_index,
  write_fd, read_fd,
  files,     \* the segment files on disk: base offset to batches
  inflight,  \* writes submitted and not carried out, oldest first
  intact,    \* so far every write was carried out, in the order of submission
  acked,     \* the batches producers were told about, in order
  fetched    \* the answer of the last step, when it was a fetch

contextVars == <<next_offset, current_segment_base_offset, current_segment_bytes,
                 current_segment_index, write_fd>>
vars == <<contextVars, read_fd, files, inflight, intact, acked, fetched>>

Offsets == 0..MaxOffset
Batches == [base: Offsets, count: Counts]
NoFd == -1
NoFetch == [kind |-> "none"]

Size(count) == count + Overhead
Bytes(batches) == FoldLeft(LAMBDA n, b : n + Size(b.count), 0, batches)
Records(batches) ==
  FlattenSeq([i \in DOMAIN batches |->
                [k \in 1..batches[i].count |-> batches[i].base + k - 1]])

Init ==
  /\ next_offset = 0 /\ current_segment_base_offset = 0 /\ current_segment_bytes = 0
  /\ current_segment_index = <<>>
  /\ write_fd = NoFd /\ read_fd = NoFd
  /\ files = <<>> /\ inflight = <<>> /\ intact = TRUE /\ acked = <<>>
  /\ fetched = NoFetch

-----------------------------------------------------------------------------
(***************************************************************************)
(* Producing.                                                              *)
(***************************************************************************)

Rolls(count) ==
  SegmentBytes > 0 /\ current_segment_bytes + Size(count) > SegmentBytes

\* Mutant: the new segment is named for the offset after the batch.
SegmentBaseAfter(count) ==
  IF Rolls(count) THEN next_offset + count ELSE current_segment_base_offset

\* Mutant: the roll does not clear the index.
SegmentIndexKept(count) == current_segment_index

\* The roll and the opening of the segment, which come before the write.
SegmentBase(count) == IF Rolls(count) THEN next_offset ELSE current_segment_base_offset
SegmentPosition(count) == IF Rolls(count) THEN 0 ELSE current_segment_bytes
SegmentIndex(count) == IF Rolls(count) THEN <<>> ELSE current_segment_index
SegmentFd(count) == IF Rolls(count) THEN NoFd ELSE write_fd

\* Mutant: O_CREAT is missing.
OpenedOnly(base) == files

\* open(O_CREAT | O_APPEND).
Opened(base) ==
  [s \in DOMAIN files \cup {base} |-> IF s \in DOMAIN files THEN files[s] ELSE <<>>]

\* Where the write goes: to the ring, or straight to the file when there is
\* no ring or its submission queue is full.
Submit(fd, batch, onDisk) ==
  \/ /\ Len(inflight) < MaxInflight
     /\ inflight' = Append(inflight, [fd |-> fd, batch |-> batch])
     /\ files' = onDisk
     /\ UNCHANGED intact
  \/ /\ inflight = <<>> \/ Reordered
     /\ files' = [onDisk EXCEPT ![fd] = Append(@, batch)]
     /\ intact' = (intact /\ inflight = <<>>)
     /\ UNCHANGED inflight

Produce(count) ==
  LET base == SegmentBase(count)
      batch == [base |-> next_offset, count |-> count]
  IN  /\ next_offset + count <= MaxOffset
      /\ current_segment_base_offset' = base
      /\ read_fd' = IF Rolls(count) THEN NoFd ELSE read_fd
      /\ write_fd' = base
      /\ Submit(base, batch, Opened(base))
      /\ current_segment_index' =
           IF next_offset % IndexInterval = 0
           THEN Append(SegmentIndex(count),
                       [offset |-> next_offset, position |-> SegmentPosition(count)])
           ELSE SegmentIndex(count)
      /\ current_segment_bytes' = SegmentPosition(count) + Size(count)
      /\ next_offset' = next_offset + count
      /\ acked' = Append(acked, batch)
      /\ fetched' = NoFetch

\* Mutant: the offsets are taken before the segment is opened.
ProduceUnopenedCounted(count) ==
  /\ OpensFail /\ SegmentFd(count) = NoFd /\ next_offset + count <= MaxOffset
  /\ current_segment_base_offset' = SegmentBase(count)
  /\ current_segment_bytes' = SegmentPosition(count)
  /\ current_segment_index' = SegmentIndex(count)
  /\ read_fd' = IF Rolls(count) THEN NoFd ELSE read_fd
  /\ write_fd' = NoFd
  /\ fetched' = NoFetch
  /\ next_offset' = next_offset + count
  /\ UNCHANGED <<files, inflight, intact, acked>>

\* The segment cannot be opened: the producer gets error 56, and the roll
\* stays done.
ProduceUnopened(count) ==
  /\ OpensFail /\ SegmentFd(count) = NoFd
  /\ current_segment_base_offset' = SegmentBase(count)
  /\ current_segment_bytes' = SegmentPosition(count)
  /\ current_segment_index' = SegmentIndex(count)
  /\ read_fd' = IF Rolls(count) THEN NoFd ELSE read_fd
  /\ write_fd' = NoFd
  /\ fetched' = NoFetch
  /\ UNCHANGED <<next_offset, files, inflight, intact, acked>>

\* Mutant: O_APPEND is missing, and the ring's writes all name position 0.
LandAtZero(i) ==
  /\ i = 1 \/ Reordered
  /\ files' = [files EXCEPT ![inflight[i].fd] = <<inflight[i].batch>>]
  /\ intact' = (intact /\ i = 1)
  /\ inflight' = RemoveAt(inflight, i)
  /\ fetched' = NoFetch
  /\ UNCHANGED <<contextVars, read_fd, acked>>

\* The kernel carries out a write, or drops it.
Land(i) ==
  /\ i = 1 \/ Reordered
  /\ \/ /\ files' = [files EXCEPT ![inflight[i].fd] = Append(@, inflight[i].batch)]
        /\ intact' = (intact /\ i = 1)
     \/ WritesFail /\ UNCHANGED files /\ intact' = FALSE
  /\ inflight' = RemoveAt(inflight, i)
  /\ fetched' = NoFetch
  /\ UNCHANGED <<contextVars, read_fd, acked>>

-----------------------------------------------------------------------------
(***************************************************************************)
(* Fetching.                                                               *)
(***************************************************************************)

\* The last index entry that is not beyond the offset: 0 if there is none.
Best(offset) ==
  LET I == {i \in DOMAIN current_segment_index : current_segment_index[i].offset <= offset}
  IN  IF I = {} THEN 0 ELSE Max(I)

Position(offset) ==
  IF Best(offset) = 0 THEN 0 ELSE current_segment_index[Best(offset)].position

\* Mutant: the records to skip are counted from one.
EntryOffsetBefore(offset) ==
  (IF Best(offset) = 0 THEN 0 ELSE current_segment_index[Best(offset)].offset) - 1

EntryOffset(offset) ==
  IF Best(offset) = 0 THEN 0 ELSE current_segment_index[Best(offset)].offset
FetchBase(offset) == IF Best(offset) = 0 THEN 0 ELSE current_segment_base_offset

\* ensure_read_fd: a descriptor that is open stays, whatever its segment.
ReadFd(base) ==
  IF read_fd # NoFd THEN read_fd ELSE IF base \in DOMAIN files THEN base ELSE NoFd

\* parse_record_batch on the bytes from a position on: the batches that are
\* complete, or none at all if the position is inside a batch.
WholeBatches(batches, position, size) ==
  LET starts == {i \in 0..Len(batches) : Bytes(SubSeq(batches, 1, i)) = position}
      ends == {i \in 0..Len(batches) : Bytes(SubSeq(batches, 1, i)) <= position + size}
  IN  IF starts = {} THEN <<>> ELSE SubSeq(batches, Max(starts) + 1, Max(ends))

Values(records) == [kind |-> "values", records |-> records]

\* fetch(offset, max_bytes).
Read(fd, offset, max) ==
  LET size == IF 2 * max > MaxFetchChunk THEN MaxFetchChunk ELSE 2 * max
      batches == IF fd = NoFd THEN <<>> ELSE files[fd]
      records == Records(WholeBatches(batches, Position(offset), size))
      skip == offset - EntryOffset(offset)
  IN  IF Position(offset) >= Bytes(batches) THEN Values(<<>>)
      ELSE IF records = <<>> THEN [kind |-> "raw", fd |-> fd, position |-> Position(offset)]
      ELSE Values(SubSeq(records, skip + 1, Min({skip + max, Len(records)})))

\* read_topic_log: the segments in the order of their names.
Segments == [k \in 1..Cardinality(DOMAIN files) |-> Nth(DOMAIN files, k)]

\* Mutant: the directory is read from its end.
FullLogReversed ==
  LET order == Reverse(Segments)
  IN  FlattenSeq([k \in DOMAIN order |-> files[order[k]]])

FullLog ==
  LET order == Segments
  IN  FlattenSeq([k \in DOMAIN order |-> files[order[k]]])

\* splice_info: enough of the segment lies behind the index entry.
Splices(offset) ==
  write_fd # NoFd /\ current_segment_bytes - Position(offset) >= SpliceThreshold

\* handle_fetch.  Without an offset or a size the whole log is sent.
Answer(fd, offset, max) ==
  IF Splices(offset) THEN [kind |-> "splice", fd |-> write_fd, position |-> Position(offset)]
  ELSE IF offset = 0 /\ max <= 0 THEN [kind |-> "log", batches |-> FullLog]
  ELSE IF max <= 0 THEN Values(<<>>)
  ELSE Read(fd, offset, max)

Fetch(offset, max) ==
  LET fd == IF Splices(offset) \/ max <= 0 THEN read_fd ELSE ReadFd(FetchBase(offset))
  IN  /\ read_fd' = fd
      /\ fetched' = [offset |-> offset, max |-> max] @@ Answer(fd, offset, max)
      /\ UNCHANGED <<contextVars, files, inflight, intact, acked>>

Next ==
  \/ \E n \in Counts : Produce(n) \/ ProduceUnopened(n)
  \/ \E i \in DOMAIN inflight : Land(i)
  \/ \E offset \in Offsets, max \in MaxBytes : Fetch(offset, max)

Spec == Init /\ [][Next]_vars

-----------------------------------------------------------------------------
(***************************************************************************)
(* Properties.                                                             *)
(***************************************************************************)

\* What a segment holds once the writes under way have been carried out.
Settled(base) ==
  (IF base \in DOMAIN files THEN files[base] ELSE <<>>)
    \o LET mine == SelectSeq(inflight, LAMBDA w : w.fd = base)
       IN  [i \in DOMAIN mine |-> mine[i].batch]

\* The type of every variable: an open descriptor and a write under way are
\* always about a segment that exists.
TypeOK ==
  /\ next_offset \in Offsets /\ current_segment_base_offset \in Offsets
  /\ current_segment_bytes \in Nat
  /\ \A i \in DOMAIN current_segment_index :
       current_segment_index[i] \in [offset: Offsets, position: Nat]
  /\ write_fd \in DOMAIN files \cup {NoFd} /\ read_fd \in DOMAIN files \cup {NoFd}
  /\ \A s \in DOMAIN files : s \in Offsets /\ Range(files[s]) \subseteq Batches
  /\ \A i \in DOMAIN inflight :
       inflight[i].fd \in DOMAIN files /\ inflight[i].batch \in Batches
  /\ intact \in BOOLEAN /\ Range(acked) \subseteq Batches

\* All segments in the order read_topic_log takes them.
SettledLog ==
  LET order == Segments
  IN  FlattenSeq([k \in DOMAIN order |-> Settled(order[k])])

\* A log kept in segments, with rolls, failed opens and writes under way, is
\* one append-only log.  As long as the kernel carries every write out, in
\* order, that log is on disk, with the segments in the order read_topic_log
\* takes them: no batch is lost, doubled or moved, and each begins where the
\* one before it ends.  From then on it is what producers were told.
Log == INSTANCE AppendLog WITH log <- IF intact THEN SettledLog ELSE acked
ImplementsLog == Log!Spec

\* Whatever fails and in whatever order writes land: producers are never
\* given overlapping offsets, nor offsets with a gap, and ListOffsets'
\* latest is where the next batch will be based.
OffsetsDense ==
  /\ \A i \in DOMAIN acked :
       acked[i].base = IF i = 1 THEN 0 ELSE acked[i - 1].base + acked[i - 1].count
  /\ next_offset = Log!End(acked)

\* Whatever fails and in whatever order writes land: a batch is in the
\* segment that is named for its offset, the last one based at or before it,
\* and it is nowhere twice.
BatchesInTheirSegment ==
  \A s \in DOMAIN files :
    /\ \A i \in DOMAIN Settled(s) :
         LET b == Settled(s)[i]
         IN  s <= b.base /\ \A t \in DOMAIN files : t <= b.base => t <= s
    /\ \A i, j \in DOMAIN Settled(s) : Settled(s)[i].base = Settled(s)[j].base => i = j

\* An entry of the sparse index is the place in the current segment where
\* the batch based at its offset begins, and the byte count is the size of
\* the segment: through rolls, which clear both, and failed opens, as long as
\* the kernel carries the writes out in order.
IndexAccurate ==
  LET batches == Settled(current_segment_base_offset)
  IN  intact =>
      /\ current_segment_bytes = Bytes(batches)
      /\ \A i \in DOMAIN current_segment_index :
           \E k \in DOMAIN batches :
             /\ batches[k].base = current_segment_index[i].offset
             /\ Bytes(SubSeq(batches, 1, k - 1)) = current_segment_index[i].position

\* What incremental Fetch promises (README.md:44, "offset/max_bytes via index
\* lookup"): the records it returns are the ones from the offset on.  Once a
\* segment was rolled, the cached descriptor may be another segment's.
FetchedFromOffset ==
  fetched.kind = "values" =>
    \A i \in DOMAIN fetched.records : fetched.records[i] = fetched.offset + i - 1

\* In a log of one segment, with some of its batches still being written,
\* incremental Fetch keeps that promise, whichever index entry it starts at
\* and however little of the segment max_bytes lets it read.
FetchedBeforeRoll == intact /\ DOMAIN files \subseteq {0} => FetchedFromOffset

\* A full fetch sees the segments in the order of their offsets, and the
\* batches of a segment too unless the kernel reordered them.
FullFetchOrdered ==
  fetched.kind = "log" =>
    \A i, j \in DOMAIN fetched.batches :
      LET a == fetched.batches[i].base
          b == fetched.batches[j].base
      IN  i < j => \/ a < b
                   \/ ~intact /\ \A s \in DOMAIN files : s <= a <=> s <= b
=============================================================================
