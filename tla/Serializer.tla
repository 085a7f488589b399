----------------------------- MODULE Serializer -----------------------------
(***************************************************************************)
(* serialize: from a response to the bytes a client reads.                 *)
(*                                                                         *)
(* Every response is written in two passes.  The first adds up how long    *)
(* the body will be: so large is the buffer made, and so much is announced *)
(* to the client in the first four bytes.  The second writes the fields    *)
(* into it.  A client finds the next response behind the bytes announced,  *)
(* so the two passes must agree to the byte.                               *)
(*                                                                         *)
(* A response is given by the lengths of its strings and of its arrays.    *)
(* Size...(r) is body_size; Write...(r) is how far the writes of the       *)
(* second pass move the writer, field by field in their order, the four    *)
(* bytes in front included.                                                *)
(***************************************************************************)
EXTENDS Wire

\* By halves: some of the sequences are long.
RECURSIVE Sum(_)
Sum(s) ==
  LET half == Len(s) \div 2
  IN  IF Len(s) <= 1 THEN IF s = <<>> THEN 0 ELSE s[1]
      ELSE Sum(SubSeq(s, 1, half)) + Sum(SubSeq(s, half + 1, Len(s)))

\* A string, and one that is null when it is empty, in the first pass ...
SizeStr(n) == VarintSize(n + 1) + n
SizeOpt(n) == VarintSize(IF n = 0 THEN 0 ELSE n + 1) + n

\* ... and in the second: write_varint, write_compact_string.
PutVarint(v) == Len(Varint(v))
PutStr(n) == PutVarint(n + 1) + n
PutOpt(n) == IF n = 0 THEN PutVarint(0) ELSE PutStr(n)

\* compact_int32_array_size and write_compact_int32_array
SizeInts(n) == VarintSize(n + 1) + n * 4
PutInts(n) == PutVarint(n + 1) + Sum([i \in 1..n |-> 4])

\* partition_entry_size, and the writes of a partition: p holds the lengths
\* of its five arrays of nodes.
SizePartition(p) == 14 + Sum([a \in 1..5 |-> SizeInts(p[a])]) + 1
PutPartition(p) == 2 + 4 + 4 + 4 + Sum([a \in 1..5 |-> PutInts(p[a])]) + 1

-----------------------------------------------------------------------------
SizeApiVersions(r) == 4 + 2 + VarintSize(r.api_keys + 1) + r.api_keys * 7 + 4 + 1

WriteApiVersions(r) ==
  4 + 4 + 2 + PutVarint(r.api_keys + 1) + Sum([i \in 1..r.api_keys |-> 2 + 2 + 2 + 1]) + 4 + 1

\* The length of the array of topics is taken to be one byte.
SizeDescribe(r) ==
  5 + 4 + 1
    + Sum([i \in DOMAIN r.topics |->
             LET t == r.topics[i]
             IN  2 + SizeStr(t.name) + 16 + 1 + 4 + 1
                   + (IF t.partitions = <<>> THEN 1
                      ELSE VarintSize(Len(t.partitions) + 1)
                             + Sum([p \in DOMAIN t.partitions |-> SizePartition(t.partitions[p])]))])
    + 2

WriteDescribe(r) ==
  4 + 4 + 1 + 4 + PutVarint(Len(r.topics) + 1)
    + Sum([i \in DOMAIN r.topics |->
             LET t == r.topics[i]
             IN  2 + PutStr(t.name) + 16 + 1
                   + (IF t.partitions = <<>> THEN 1
                      ELSE PutVarint(Len(t.partitions) + 1)
                             + Sum([p \in DOMAIN t.partitions |-> PutPartition(t.partitions[p])]))
                   + 4 + 1])
    + 1 + 1

\* Of a topic, the lengths of its partitions' records.
SizeFetch(r) ==
  4 + 1 + 4 + 2 + 4 + VarintSize(Len(r.topics) + 1)
    + Sum([i \in DOMAIN r.topics |->
             16 + VarintSize(Len(r.topics[i]) + 1)
               + Sum([p \in DOMAIN r.topics[i] |-> 35 + SizeStr(r.topics[i][p]) + 1]) + 1])
    + 1

WriteFetch(r) ==
  4 + 4 + 1 + 4 + 2 + 4 + PutVarint(Len(r.topics) + 1)
    + Sum([i \in DOMAIN r.topics |->
             16 + PutVarint(Len(r.topics[i]) + 1)
               + Sum([p \in DOMAIN r.topics[i] |->
                        4 + 2 + 8 + 8 + 8 + PutVarint(1) + 4 + PutStr(r.topics[i][p]) + 1])
               + 1])
    + 1

SizeMetadata(r) ==
  4 + 1 + 4 + VarintSize(Len(r.brokers) + 1)
    + Sum([b \in DOMAIN r.brokers |->
             4 + SizeStr(r.brokers[b].host) + 4 + SizeOpt(r.brokers[b].rack) + 1])
    + SizeOpt(r.cluster_id) + 4 + VarintSize(Len(r.topics) + 1)
    + Sum([i \in DOMAIN r.topics |->
             LET t == r.topics[i]
             IN  2 + SizeOpt(t.name) + 16 + 1 + 4 + VarintSize(Len(t.partitions) + 1)
                   + Sum([p \in DOMAIN t.partitions |->
                            2 + 4 + 4 + 4 + Sum([a \in 1..5 |-> SizeInts(t.partitions[p][a])]) + 1])
                   + 1])
    + 4 + 1

WriteMetadata(r) ==
  4 + 4 + 1 + 4 + PutVarint(Len(r.brokers) + 1)
    + Sum([b \in DOMAIN r.brokers |->
             4 + PutStr(r.brokers[b].host) + 4 + PutOpt(r.brokers[b].rack) + 1])
    + PutOpt(r.cluster_id) + 4 + PutVarint(Len(r.topics) + 1)
    + Sum([i \in DOMAIN r.topics |->
             LET t == r.topics[i]
             IN  2 + PutOpt(t.name) + 16 + 1 + PutVarint(Len(t.partitions) + 1)
                   + Sum([p \in DOMAIN t.partitions |-> PutPartition(t.partitions[p])]) + 4 + 1])
    + 4 + 1

SizeFindCoordinator(r) == 4 + 1 + 4 + 2 + SizeOpt(r.message) + 4 + SizeStr(r.host) + 4 + 1

WriteFindCoordinator(r) ==
  4 + 4 + 1 + 4 + 2 + PutOpt(r.message) + 4 + PutStr(r.host) + 4 + 1

\* Topics by name, each with its partitions, of each bytes apart from strings.
SizeTopics(topics, each) ==
  VarintSize(Len(topics) + 1)
    + Sum([i \in DOMAIN topics |->
             LET parts == topics[i].partitions
             IN  SizeStr(topics[i].name) + VarintSize(Len(parts) + 1) + Len(parts) * each + 1])

PutTopics(topics, each) ==
  PutVarint(Len(topics) + 1)
    + Sum([i \in DOMAIN topics |->
             LET parts == topics[i].partitions
             IN  PutStr(topics[i].name) + PutVarint(Len(parts) + 1)
                   + Sum([p \in DOMAIN parts |-> each]) + 1])

\* Of a partition, the length of its committed metadata, here counted as a
\* string and written as null when it is empty: one byte either way.
SizeCommitted(topics) ==
  Sum([i \in DOMAIN topics |->
         Sum([p \in DOMAIN topics[i].partitions |-> SizeStr(topics[i].partitions[p])])])

PutCommitted(topics) ==
  Sum([i \in DOMAIN topics |->
         Sum([p \in DOMAIN topics[i].partitions |-> PutOpt(topics[i].partitions[p])])])

SizeOffsetCommit(r) ==
  4 + 1 + 4 + SizeTopics(r.topics, 4 + 2 + 4 + 1) + SizeCommitted(r.topics) + 1

WriteOffsetCommit(r) ==
  4 + 4 + 1 + 4 + PutTopics(r.topics, 4 + 2 + 4 + 1) + PutCommitted(r.topics) + 1

SizeOffsetFetch(r) ==
  4 + 1 + 4 + SizeTopics(r.topics, 4 + 8 + 4 + 2 + 1) + SizeCommitted(r.topics) + 1

WriteOffsetFetch(r) ==
  4 + 4 + 1 + 4 + PutTopics(r.topics, 4 + 8 + 4 + 2 + 1) + PutCommitted(r.topics) + 1

\* Here, and in the answer to Produce, all partitions are of one size.
SizeListOffsets(r) == 4 + 1 + 4 + SizeTopics(r.topics, 4 + 2 + 8 + 8 + 1) + 1

WriteListOffsets(r) == 4 + 4 + 1 + 4 + PutTopics(r.topics, 4 + 2 + 8 + 8 + 1) + 1

SizeJoinGroup(r) ==
  4 + 1 + 4 + 2 + 4 + SizeOpt(r.protocol) + SizeStr(r.leader) + SizeStr(r.member)
    + VarintSize(Len(r.members) + 1)
    + Sum([m \in DOMAIN r.members |->
             SizeStr(r.members[m].name) + SizeStr(r.members[m].metadata) + 1])
    + 1

WriteJoinGroup(r) ==
  4 + 4 + 1 + 4 + 2 + 4 + PutOpt(r.protocol) + PutStr(r.leader) + PutStr(r.member)
    + PutVarint(Len(r.members) + 1)
    + Sum([m \in DOMAIN r.members |->
             PutStr(r.members[m].name) + PutStr(r.members[m].metadata) + 1])
    + 1

\* Heartbeat and LeaveGroup
SizeAck(r) == 4 + 1 + 4 + 2 + 1
WriteAck(r) == 4 + 4 + 1 + 4 + 2 + 1

SizeSyncGroup(r) ==
  4 + 1 + 4 + 2 + SizeOpt(r.protocol_type) + SizeOpt(r.protocol_name) + SizeStr(r.assignment) + 1

WriteSyncGroup(r) ==
  4 + 4 + 1 + 4 + 2 + PutOpt(r.protocol_type) + PutOpt(r.protocol_name) + PutStr(r.assignment) + 1

\* Mutant: a topic without partitions has no length for them either.
SizeProduceBare(r) ==
  4 + 1 + VarintSize(Len(r.topics) + 1)
    + Sum([i \in DOMAIN r.topics |->
             LET t == r.topics[i]
             IN  SizeStr(t.name) + 1
                   + (IF t.partitions = <<>> THEN 0
                      ELSE VarintSize(Len(t.partitions) + 1)
                             + Len(t.partitions) * (4 + 2 + 8 + 8 + 8 + 1 + 1 + 1))])
    + 4 + 1

SizeProduce(r) ==
  4 + 1 + VarintSize(Len(r.topics) + 1)
    + Sum([i \in DOMAIN r.topics |->
             LET t == r.topics[i]
             IN  SizeStr(t.name) + 1
                   + (IF t.partitions = <<>> THEN 1
                      ELSE VarintSize(Len(t.partitions) + 1)
                             + Len(t.partitions) * (4 + 2 + 8 + 8 + 8 + 1 + 1 + 1))])
    + 4 + 1

WriteProduce(r) ==
  4 + 4 + 1 + PutTopics(r.topics, 4 + 2 + 8 + 8 + 8 + 1 + 1 + 1) + 4 + 1

-----------------------------------------------------------------------------
\* What std::visit chooses.
Announced(r) ==
  CASE r.api = "api_versions"     -> SizeApiVersions(r)
    [] r.api = "describe"         -> SizeDescribe(r)
    [] r.api = "fetch"            -> SizeFetch(r)
    [] r.api = "metadata"         -> SizeMetadata(r)
    [] r.api = "find_coordinator" -> SizeFindCoordinator(r)
    [] r.api = "offset_commit"    -> SizeOffsetCommit(r)
    [] r.api = "offset_fetch"     -> SizeOffsetFetch(r)
    [] r.api = "list_offsets"     -> SizeListOffsets(r)
    [] r.api = "join_group"       -> SizeJoinGroup(r)
    [] r.api = "ack"              -> SizeAck(r)
    [] r.api = "sync_group"       -> SizeSyncGroup(r)
    [] r.api = "produce"          -> SizeProduce(r)

Written(r) ==
  CASE r.api = "api_versions"     -> WriteApiVersions(r)
    [] r.api = "describe"         -> WriteDescribe(r)
    [] r.api = "fetch"            -> WriteFetch(r)
    [] r.api = "metadata"         -> WriteMetadata(r)
    [] r.api = "find_coordinator" -> WriteFindCoordinator(r)
    [] r.api = "offset_commit"    -> WriteOffsetCommit(r)
    [] r.api = "offset_fetch"     -> WriteOffsetFetch(r)
    [] r.api = "list_offsets"     -> WriteListOffsets(r)
    [] r.api = "join_group"       -> WriteJoinGroup(r)
    [] r.api = "ack"              -> WriteAck(r)
    [] r.api = "sync_group"       -> WriteSyncGroup(r)
    [] r.api = "produce"          -> WriteProduce(r)
=============================================================================
