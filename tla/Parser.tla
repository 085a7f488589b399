------------------------------- MODULE Parser -------------------------------
(***************************************************************************)
(* parse_request: from the bytes of a message to a request.                *)
(*                                                                         *)
(* Each case of its switch is given as the sequence of what it reads, in   *)
(* the order it reads it.  Every read that fails ends the parse.           *)
(***************************************************************************)
EXTENDS Wire

Header == <<Num("api_key", 2), Num("api_version", 2), Num("correlation_id", 4)>>

\* case 75.  The cursor is read and dropped.
DescribeTopicPartitions ==
  <<BareArr("topic_names", <<Str("name"), Tag>>), Num("", 4),
    Unless(255, <<Str(""), Num("", 4), Tag>>), Tag>>

\* case 1.  After a partition's own max_bytes it is the request's that is
\* looked at.  Then the forgotten topics and the rack, both dropped.
Fetch ==
  <<Num("", 4), Num("", 4), Num("max_bytes", 4), Num("", 1), Num("", 4), Num("", 4),
    Arr("topics", <<Raw("topic_id", 16),
                    Arr("partitions", <<Num("partition_index", 4), Raw("", 4),
                                        Num("fetch_offset", 8), Raw("", 4), Raw("", 8),
                                        Loose("max_bytes", 4), Tag>>),
                    Tag>>),
    Arr("", <<Raw("", 16), Arr("", <<Raw("", 4)>>), Tag>>),
    Blob(""), Tag>>

\* case 2
ListOffsets ==
  <<Num("replica_id", 4), Num("isolation_level", 1),
    Arr("topics", <<Str("topic_name"),
                    Arr("partitions", <<Num("partition_index", 4), Num("timestamp", 8), Tag>>),
                    Tag>>),
    Tag>>

\* case 3: the old encoding of arrays and strings, and no tag at the end.
Metadata == <<OldNames("topics"), Flag("allow_auto_topic_creation")>>

\* case 0.  The transactional id, acks and the timeout are dropped.
Produce ==
  <<Blob(""), Num("", 2), Num("", 4),
    Arr("topics", <<Str("topic_name"),
                    Arr("partitions", <<Num("partition_index", 4), Blob("records"), Tag>>),
                    Tag>>),
    Tag>>

\* case 8
OffsetCommit ==
  <<Str("group_id"), Str("member_id"), Num("generation_id", 4),
    Arr("topics", <<Str("topic_name"),
                    Arr("partitions",
                        <<Num("partition_index", 4), Num("committed_offset", 8), Tag>>),
                    Tag>>),
    Tag>>

\* case 9: here the partitions are bare numbers.
OffsetFetch ==
  <<Str("group_id"),
    Arr("topics", <<Str("topic_name"), Arr("partition_indexes", <<Num("index", 4)>>), Tag>>),
    Tag>>

\* case 10
FindCoordinator == <<Str("coordinator_key"), Num("key_type", 1), Tag>>

\* case 11
JoinGroup ==
  <<Str("group_id"), Num("session_timeout_ms", 4), Str("member_id"), Str("protocol_type"),
    Arr("protocols", <<Str("name"), Blob("metadata"), Tag>>), Tag>>

\* case 12.  A group_instance_id that is null is an error.
Heartbeat ==
  <<Str("group_id"), Num("generation_id", 4), Str("member_id"), Str("group_instance_id"), Tag>>

\* case 13
LeaveGroup == <<Str("group_id"), Str("member_id"), Tag>>

\* case 14
SyncGroup ==
  <<Str("group_id"), Num("generation_id", 4), Str("member_id"),
    Arr("assignments", <<Str("member_id"), Blob("assignment"), Tag>>), Tag>>

\* The switch.  An ApiVersions request is its header, up to the correlation
\* id; the others go on with the client id and the tags of the header.
Cases ==
  (0 :> Produce) @@ (1 :> Fetch) @@ (2 :> ListOffsets) @@ (3 :> Metadata)
    @@ (8 :> OffsetCommit) @@ (9 :> OffsetFetch) @@ (10 :> FindCoordinator)
    @@ (11 :> JoinGroup) @@ (12 :> Heartbeat) @@ (13 :> LeaveGroup) @@ (14 :> SyncGroup)
    @@ (75 :> DescribeTopicPartitions)

ParseRequest(buf) ==
  LET head == ReadAll(Reader(buf), Header)
      key == head.val["api_key"]
  IN  IF ~head.ok \/ key = 18 THEN head
      ELSE IF key \notin DOMAIN Cases THEN Failed(head)
      ELSE ReadAll(head, <<OldStr, Tag>> \o Cases[key])
=============================================================================
