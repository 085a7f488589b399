------------------------------ MODULE Clients -------------------------------
(***************************************************************************)
(* What clients put on the wire (external): the requests and the record    *)
(* batches, as the repository's tests build them byte by byte.             *)
(*                                                                         *)
(* A message is a sequence of fields.  A field has the name of the member  *)
(* of the request in which the broker is to find its value again, or "".   *)
(***************************************************************************)
EXTENDS Wire

Number(name, w, v) == [kind |-> "number", name |-> name, w |-> w, v |-> v]
Bool(name, v)      == [kind |-> "bool", name |-> name, v |-> v]
Bytes(name, v)     == [kind |-> "bytes", name |-> name, v |-> v]
Compact(name, v)   == [kind |-> "compact", name |-> name, v |-> v]
Old(v)             == [kind |-> "old", name |-> "", v |-> v]
List(name, v)      == [kind |-> "list", name |-> name, v |-> v]
OldList(name, v)   == [kind |-> "oldlist", name |-> name, v |-> v]
Null               == Bytes("", <<0>>)
NullOld            == Number("", 2, -1)
NoTags             == Bytes("", <<0>>)

RECURSIVE Encoded(_)

EncodedField(f) ==
  CASE f.kind = "number"  -> BigEndian(f.v, f.w)
    [] f.kind = "bool"    -> IF f.v THEN <<1>> ELSE <<0>>
    [] f.kind = "bytes"   -> f.v
    [] f.kind = "compact" -> Varint(Len(f.v) + 1) \o f.v
    [] f.kind = "old"     -> BigEndian(Len(f.v), 2) \o f.v
    [] f.kind = "list"    -> Varint(Len(f.v) + 1)
                               \o FlattenSeq([i \in DOMAIN f.v |-> Encoded(f.v[i])])
    [] f.kind = "oldlist" -> BigEndian(Len(f.v), 4)
                               \o FlattenSeq([i \in DOMAIN f.v |-> BigEndian(Len(f.v[i]), 2) \o f.v[i]])

Encoded(message) == FlattenSeq([i \in DOMAIN message |-> EncodedField(message[i])])

\* The members a request made from the message has.
RECURSIVE Members(_)
Members(message) ==
  LET named == {i \in DOMAIN message : message[i].name # ""}
  IN  [name \in {message[i].name : i \in named} |->
         LET f == message[CHOOSE i \in named : message[i].name = name]
         IN  IF f.kind = "list" THEN [j \in DOMAIN f.v |-> Members(f.v[j])] ELSE f.v]

-----------------------------------------------------------------------------
(***************************************************************************)
(* The requests.                                                           *)
(***************************************************************************)
Head8(key, id) ==
  <<Number("api_key", 2, key), Number("api_version", 2, 0), Number("correlation_id", 4, id)>>

Request(key, client, body) == Head8(key, 7) \o <<client, NoTags>> \o body

ApiVersionsOf == Head8(18, 7) \o <<Old(<<9>>), NoTags>>

DescribeOf(names, client, cursor) ==
  Request(75, client,
    <<List("topic_names", [i \in DOMAIN names |-> <<Compact("name", names[i]), NoTags>>]),
      Number("", 4, 100)>>
    \o (IF cursor THEN <<Number("", 1, 1), Compact("", <<5, 6>>), Number("", 4, 3), NoTags>>
        ELSE <<Number("", 1, -1)>>)
    \o <<NoTags>>)

MetadataOf(names, client) ==
  Request(3, client, <<OldList("topics", names), Bool("allow_auto_topic_creation", TRUE)>>)

\* topics: for each, its id and the offsets to fetch its partitions from.
FetchOf(topics, forgotten, rack) ==
  Request(1, NullOld,
    <<Number("", 4, 500), Number("", 4, 1), Number("max_bytes", 4, 4096), Number("", 1, 0),
      Number("", 4, 0), Number("", 4, -1),
      List("topics", [i \in DOMAIN topics |->
        <<Bytes("topic_id", topics[i].id),
          List("partitions", [p \in DOMAIN topics[i].offsets |->
            <<Number("partition_index", 4, p), Number("", 4, -1),
              Number("fetch_offset", 8, topics[i].offsets[p]), Number("", 4, -1),
              Number("", 8, -1), Number("max_bytes", 4, 1024), NoTags>>]),
          NoTags>>]),
      List("", [i \in DOMAIN forgotten |->
        <<Bytes("", forgotten[i].id),
          List("", [p \in DOMAIN forgotten[i].offsets |-> <<Number("", 4, p)>>]), NoTags>>]),
      Compact("", rack), NoTags>>)

\* A list of topics, each with a list of partitions; fields[p] is what stands
\* for partition p behind its index.
Topics(names, fields) ==
  List("topics", [i \in DOMAIN names |->
    <<Compact("topic_name", names[i]),
      List("partitions", [p \in DOMAIN fields |->
        <<Number("partition_index", 4, p), fields[p], NoTags>>]),
      NoTags>>])

ListOffsetsOf(names, parts) ==
  Request(2, NullOld, <<Number("replica_id", 4, -1), Number("isolation_level", 1, 1),
                        Topics(names, [p \in 1..parts |-> Number("timestamp", 8, -p)]), NoTags>>)

ProduceOf(names, parts, tx, records) ==
  Request(0, Old(<<4, 4>>), <<tx, Number("", 2, -1), Number("", 4, 5000),
                              Topics(names, [p \in 1..parts |-> Compact("records", records)]),
                              NoTags>>)

OffsetCommitOf(group, names, parts) ==
  Request(8, NullOld, <<Compact("group_id", group), Compact("member_id", <<>>),
                        Number("generation_id", 4, -1),
                        Topics(names, [p \in 1..parts |-> Number("committed_offset", 8, 300)]),
                        NoTags>>)

OffsetFetchOf(group, names, parts) ==
  Request(9, NullOld, <<Compact("group_id", group),
    List("topics", [i \in DOMAIN names |->
      <<Compact("topic_name", names[i]),
        List("partition_indexes", [p \in 1..parts |-> <<Number("index", 4, p)>>]), NoTags>>]),
    NoTags>>)

FindCoordinatorOf(group) ==
  Request(10, NullOld, <<Compact("coordinator_key", group), Number("key_type", 1, 0), NoTags>>)

JoinGroupOf(group, member, blobs) ==
  Request(11, NullOld, <<Compact("group_id", group), Number("session_timeout_ms", 4, 30000),
    Compact("member_id", member), Compact("protocol_type", <<3, 3>>),
    List("protocols", [i \in DOMAIN blobs |->
      <<Compact("name", <<i>>), Compact("metadata", blobs[i]), NoTags>>]),
    NoTags>>)

SyncGroupOf(group, member, blobs) ==
  Request(14, NullOld, <<Compact("group_id", group), Number("generation_id", 4, 2),
    Compact("member_id", member),
    List("assignments", [i \in DOMAIN blobs |->
      <<Compact("member_id", <<i>>), Compact("assignment", blobs[i]), NoTags>>]),
    NoTags>>)

HeartbeatOf(group, member) ==
  Request(12, NullOld, <<Compact("group_id", group), Number("generation_id", 4, 2),
                         Compact("member_id", member), Compact("group_instance_id", <<>>), NoTags>>)

LeaveGroupOf(group, member) ==
  Request(13, NullOld, <<Compact("group_id", group), Compact("member_id", member), NoTags>>)

\* A request with a key the broker does not know.
UnknownOf == Request(99, NullOld, <<NoTags>>)

-----------------------------------------------------------------------------
(***************************************************************************)
(* Record batches, the way make_record_batch_v2 of the tests lays them     *)
(* out: there is no count between the header and the records.              *)
(***************************************************************************)
SignedVarint(v) == Varint(ZigzagEncode(v))
SignedBytes(v) == SignedVarint(Len(v)) \o v

\* A record: a value, with or without a key, with no header or one.
RecordOf(r) ==
  LET body == <<0>> \o SignedVarint(0) \o SignedVarint(0)
                \o (IF r.key = <<>> THEN SignedVarint(-1) ELSE SignedBytes(r.key))
                \o SignedBytes(r.value)
                \o (IF r.header = <<>> THEN SignedVarint(0)
                    ELSE SignedVarint(1) \o SignedBytes(r.header) \o SignedBytes(r.header))
  IN  SignedVarint(Len(body)) \o body

BatchOf(recs) ==
  LET rest == BigEndian(0, 4) \o <<2>> \o BigEndian(0, 4) \o BigEndian(0, 2)
                \o BigEndian(Len(recs) - 1, 4) \o BigEndian(0, 8) \o BigEndian(0, 8)
                \o BigEndian(-1, 8) \o BigEndian(-1, 2) \o BigEndian(-1, 4)
                \o FlattenSeq([i \in DOMAIN recs |-> RecordOf(recs[i])])
  IN  BigEndian(0, 8) \o BigEndian(Len(rest), 4) \o rest

\* The value of a record of the metadata log: a topic, a partition with what
\* the broker does not look at behind it, or a record of another kind.
MetadataValue(rec) ==
  CASE rec.type = "topic" -> <<1, 2, 0>> \o Varint(Len(rec.name) + 1) \o rec.name \o rec.uuid \o <<0>>
    [] rec.type = "partition" -> <<1, 3, 0>> \o BigEndian(rec.partition, 4) \o rec.uuid
                                   \o <<1, 1, 1, 1>> \o BigEndian(0, 4) \o BigEndian(0, 4)
                                   \o BigEndian(0, 4) \o <<1, 0>>
    [] OTHER -> <<1, 12, 0, 5, 5>>

\* A batch of the metadata log, as a controller writes it; every record may
\* have a header.
MetadataBatchOf(recs, header) ==
  BatchOf([i \in DOMAIN recs |->
             [key |-> <<>>, value |-> MetadataValue(recs[i]), header |-> header]])
=============================================================================
