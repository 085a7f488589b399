--------------------------- MODULE ClusterMetadata --------------------------
(***************************************************************************)
(* The cluster metadata: the metadata log that the broker replays once,    *)
(* when it starts, the two indexes built from it, and the requests that    *)
(* are answered from them.                                                 *)
(*                                                                         *)
(* A record of the log is what the parser keeps of it; its bytes are left  *)
(* out, and a record that does not parse is of type "other".  Topic names  *)
(* are numbers in the order of the names.                                  *)
(***************************************************************************)
EXTENDS Integers, SequencesExt

CONSTANTS
  Names,       \* topic names
  Uuids,       \* topic ids
  Pids,        \* partition ids
  MaxRecords,  \* bound: records in the metadata log
  MaxNames     \* bound: topics named in a request

ASSUME MetadataAssumption ==
  Names \subseteq Nat /\ Pids \subseteq Nat /\ MaxRecords \in Nat /\ MaxNames \in Nat

VARIABLES
  file,      \* the metadata log on disk
  loaded,    \* the log as it was when the broker started
  metadata,  \* metadata_, as the broker has it
  reply      \* the answer of the last step, when it was a request

vars == <<file, loaded, metadata, reply>>

Records ==
  [type: {"topic"}, name: Names, uuid: Uuids]
    \cup [type: {"partition"}, partition: Pids, uuid: Uuids]
    \cup {[type |-> "other"]}

Empty == [topics |-> <<>>, name_to_topic |-> <<>>, uuid_to_topic |-> <<>>]
NoReply == [api |-> "none"]

\* Mutant: the name index keeps the first topic of a name.
AddTopicOnce(meta, tr) ==
  LET n == Len(meta.topics) + 1
  IN  [topics |-> Append(meta.topics, [name |-> tr.name, uuid |-> tr.uuid, partitions |-> <<>>]),
       name_to_topic |-> meta.name_to_topic @@ (tr.name :> n),
       uuid_to_topic |-> (tr.uuid :> n) @@ meta.uuid_to_topic]

\* A topic that was created again, or is in the log twice, is a new entry,
\* and both indexes move on to it.
AddTopic(meta, tr) ==
  LET n == Len(meta.topics) + 1
  IN  [topics |-> Append(meta.topics, [name |-> tr.name, uuid |-> tr.uuid, partitions |-> <<>>]),
       name_to_topic |-> (tr.name :> n) @@ meta.name_to_topic,
       uuid_to_topic |-> (tr.uuid :> n) @@ meta.uuid_to_topic]

AddPartition(meta, pr) ==
  IF pr.uuid \in DOMAIN meta.uuid_to_topic
  THEN [meta EXCEPT !.topics[meta.uuid_to_topic[pr.uuid]].partitions = Append(@, pr.partition)]
  ELSE meta

\* Mutant: topics and partitions in one pass, in the order of the log.
ParseInOnePass(log) ==
  FoldLeft(LAMBDA meta, rec : IF rec.type = "topic" THEN AddTopic(meta, rec)
                              ELSE IF rec.type = "partition" THEN AddPartition(meta, rec)
                              ELSE meta,
           Empty, log)

\* parse_cluster_metadata: first all topics, then all partitions.
Parse(log) ==
  FoldLeft(AddPartition,
           FoldLeft(AddTopic, Empty, SelectSeq(log, LAMBDA rec : rec.type = "topic")),
           SelectSeq(log, LAMBDA rec : rec.type = "partition"))

Init ==
  /\ file = <<>> /\ loaded = <<>>
  /\ metadata = Empty
  /\ reply = NoReply

\* The controller (external) appends a record.  An id belongs to one topic.
Write(rec) ==
  /\ Len(file) < MaxRecords
  /\ rec.type = "topic" =>
       \A i \in DOMAIN file :
         file[i].type = "topic" /\ file[i].uuid = rec.uuid => file[i].name = rec.name
  /\ file' = Append(file, rec)
  /\ reply' = NoReply
  /\ UNCHANGED <<loaded, metadata>>

\* The broker starts, for the first time or again.
Start ==
  /\ loaded' = file
  /\ metadata' = Parse(file)
  /\ reply' = NoReply
  /\ UNCHANGED file

\* build_topic_metadata
BuildTopicMetadata(name) ==
  IF name \in DOMAIN metadata.name_to_topic
  THEN LET info == metadata.topics[metadata.name_to_topic[name]]
       IN  [error_code |-> 0, name |-> name, topic_id |-> {info.uuid},
            partitions |-> info.partitions]
  ELSE [error_code |-> 3, name |-> name, topic_id |-> {}, partitions |-> <<>>]

\* An empty list asks for all topics.
HandleMetadata(names) ==
  LET asked == IF names # <<>> THEN names
               ELSE [i \in DOMAIN metadata.topics |-> metadata.topics[i].name]
  IN  /\ reply' = [api |-> "metadata", names |-> names,
                   topics |-> [i \in DOMAIN asked |-> BuildTopicMetadata(asked[i])]]
      /\ UNCHANGED <<file, loaded, metadata>>

\* Mutant: the topics are answered in the order they were asked for.
SortedUnsorted(topics) == topics

\* std::ranges::sort by name.
Sorted(topics) == SortSeq(topics, LAMBDA s, t : s.name < t.name)

HandleDescribeTopicPartitions(names) ==
  /\ reply' = [api |-> "describe", names |-> names,
               topics |-> Sorted([i \in DOMAIN names |-> BuildTopicMetadata(names[i])])]
  /\ UNCHANGED <<file, loaded, metadata>>

Requests == UNION {[1..n -> Names] : n \in 0..MaxNames}

Next ==
  \/ \E rec \in Records : Write(rec)
  \/ Start
  \/ \E names \in Requests : HandleMetadata(names) \/ HandleDescribeTopicPartitions(names)

Spec == Init /\ [][Next]_vars

-----------------------------------------------------------------------------
(***************************************************************************)
(* Properties.                                                             *)
(***************************************************************************)

\* What the log says of a topic: the records themselves, without indexes.
TopicRecords(name) ==
  SelectSeq(loaded, LAMBDA rec : rec.type = "topic" /\ rec.name = name)
PartitionsOf(uuid) ==
  {rec.partition : rec \in {r \in Range(loaded) : r.type = "partition" /\ r.uuid = uuid}}

\* A topic is answered from the log: it is known exactly if the log has a
\* record of its name, its id is the one of the last such record, and its
\* partitions are the ones recorded for that id, be it before or after the
\* topic itself.
AnsweredFromLog ==
  reply.api # "none" =>
    \A i \in DOMAIN reply.topics :
      LET t == reply.topics[i]
          recs == TopicRecords(t.name)
      IN  /\ (t.error_code = 0) <=> (recs # <<>>)
          /\ t.error_code = 0 =>
               /\ t.topic_id = {Last(recs).uuid}
               /\ Range(t.partitions) = PartitionsOf(Last(recs).uuid)

\* The name index, by which Produce finds a topic, and the id index, by
\* which Fetch does, lead to the same entry and so to the same partitions.
IndexesAgree ==
  \A name \in DOMAIN metadata.name_to_topic :
    LET n == metadata.name_to_topic[name]
    IN  /\ metadata.topics[n].name = name
        /\ metadata.uuid_to_topic[metadata.topics[n].uuid] = n

\* DescribeTopicPartitions answers every topic it was asked for, as often as
\* it was asked, in the order of the names.
DescribedInOrder ==
  reply.api = "describe" =>
    /\ \A i, j \in DOMAIN reply.topics : i < j => reply.topics[i].name <= reply.topics[j].name
    /\ \A name \in Names :
         Len(SelectSeq(reply.topics, LAMBDA t : t.name = name))
           = Len(SelectSeq(reply.names, LAMBDA n : n = name))
=============================================================================
