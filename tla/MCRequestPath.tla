--------------------------- MODULE MCRequestPath ----------------------------
(***************************************************************************)
(* The messages, record batches and responses with which the path of a     *)
(* request is checked.                                                     *)
(***************************************************************************)
EXTENDS RequestPath

\* Ids are interchangeable.
Ids == Permutations(Uuids)

Long == [i \in 1..127 |-> 65]
Uuid(n) == [i \in 1..16 |-> n]
NameLists == {<<>>, <<<<65>>>>, <<<<65, 66>>, Long>>}
Groups == {<<71>>, Long}
BlobLists == {<<>>, <<<<>>>>, <<<<1, 2>>, Long>>}
TopicLists == {<<>>, <<[id |-> Uuid(1), offsets |-> <<>>]>>,
               <<[id |-> Uuid(1), offsets |-> <<300, 0>>], [id |-> Uuid(2), offsets |-> <<-1>>]>>}

MCCatalogue ==
  {ApiVersionsOf}
    \cup {DescribeOf(n, c, cur) : n \in NameLists, c \in {NullOld, Old(<<>>), Old(<<67, 67>>)},
                                  cur \in BOOLEAN}
    \cup {MetadataOf(n, c) : n \in NameLists, c \in {NullOld, Old(<<67, 67>>)}}
    \cup {FetchOf(t, f, r) : t \in TopicLists, f \in TopicLists, r \in {<<>>, <<82>>}}
    \cup {ListOffsetsOf(n, p) : n \in NameLists, p \in 0..2}
    \cup {OffsetCommitOf(<<71>>, n, p) : n \in NameLists, p \in 0..2}
    \cup {OffsetFetchOf(<<71>>, n, p) : n \in NameLists, p \in 0..2}
    \cup {ProduceOf(n, p, tx, r) : n \in NameLists, p \in 0..2, tx \in {Null, Compact("", <<84>>)},
                                   r \in {<<>>, <<1, 2>>}}
    \cup {FindCoordinatorOf(g) : g \in Groups}
    \cup {JoinGroupOf(g, m, b) : g \in Groups, m \in {<<>>, <<77>>}, b \in BlobLists}
    \cup {SyncGroupOf(g, m, b) : g \in Groups, m \in {<<>>, <<77>>}, b \in BlobLists}
    \cup {HeartbeatOf(g, <<77>>) : g \in Groups} \cup {LeaveGroupOf(g, <<77>>) : g \in Groups}

\* A message over the limit, one the broker does not know, and one it knows.
MCOthers == {FindCoordinatorOf(Long), UnknownOf, LeaveGroupOf(<<71>>, <<77>>)}

MCRecordLists ==
  {<<[key |-> <<>>, value |-> <<1>>, header |-> <<>>]>>,
   <<[key |-> <<5>>, value |-> <<>>, header |-> <<>>],
     [key |-> <<>>, value |-> <<2, 3>>, header |-> <<72>>]>>,
   <<[key |-> <<>>, value |-> [i \in 1..64 |-> 4], header |-> <<>>]>>}

MCMetadataLists ==
  {<<[type |-> "topic", name |-> <<65>>, uuid |-> Uuid(1)],
     [type |-> "partition", partition |-> 0, uuid |-> Uuid(1)]>>,
   <<[type |-> "partition", partition |-> 300, uuid |-> Uuid(2)],
     [type |-> "other"],
     [type |-> "topic", name |-> Long, uuid |-> Uuid(2)]>>,
   <<[type |-> "other"]>>}

\* Lengths on both sides of where a varint grows.
Lengths == {0, 1, 126, 127}
Copies(n, x) == [i \in 1..n |-> x]
Nodes == <<0, 1, 127, 126, 2>>
Described == UNION {{Copies(n, [name |-> l, partitions |-> Copies(p, Nodes)]) : l \in Lengths}
                      : n \in {0, 1, 2}, p \in {0, 1, 2}}
Named(xs) == {Copies(n, [name |-> l, partitions |-> Copies(p, x)])
                : n \in {0, 1, 127}, l \in {0, 126, 127}, p \in {0, 1, 127}, x \in xs}

MCResponses ==
  [api: {"api_versions"}, api_keys: {0, 13, 126, 127}]
    \cup [api: {"describe"}, topics: Described \cup {Copies(n, [name |-> 1, partitions |-> <<>>])
                                                     : n \in {126, 127, 128}}]
    \cup [api: {"fetch"}, topics: {Copies(n, Copies(p, l)) : n \in {0, 1, 2, 127},
                                                           p \in {0, 1, 127}, l \in Lengths}]
    \cup [api: {"metadata"}, topics: Described, cluster_id: {0, 127},
          brokers: {<<>>, <<[host |-> 9, rack |-> 0]>>, <<[host |-> 127, rack |-> 127]>>}]
    \cup [api: {"find_coordinator"}, message: Lengths, host: Lengths]
    \cup [api: {"offset_commit", "offset_fetch"}, topics: Named({0, 1, 127})]
    \cup [api: {"list_offsets", "produce"}, topics: Named({0})]
    \cup [api: {"join_group"}, protocol: Lengths, leader: Lengths, member: Lengths,
          members: {Copies(n, [name |-> l, metadata |-> l]) : n \in {0, 1, 127}, l \in Lengths}]
    \cup [api: {"ack"}]
    \cup [api: {"sync_group"}, protocol_type: Lengths, protocol_name: Lengths,
          assignment: Lengths]
=============================================================================
