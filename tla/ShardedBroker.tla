--------------------------- MODULE ShardedBroker ----------------------------
(***************************************************************************)
(* The data path of the whole broker: requests that list several           *)
(* partitions, the shard router that sends a request to one reactor, and   *)
(* the partition contexts, which every reactor creates for itself over     *)
(* the same files.                                                         *)
(*                                                                         *)
(* Of a partition context its next_offset_ is kept (PartitionContext has   *)
(* the rest) and of the way to the target that it takes time and keeps no  *)
(* order between local and forwarded requests (WorkerReactor has the       *)
(* rest).  A write reaches the file at once.                               *)
(***************************************************************************)
EXTENDS Integers, Sequences, FiniteSetsExt

CONSTANTS
  Reactors,
  Hosted,       \* the partitions in the cluster metadata
  Stray,        \* partitions that clients name and a topic does not have
  Unknown,      \* partitions that clients name of topics that do not exist
  Counts,       \* record counts of the batches sent
  MaxEntries,   \* bound: partitions listed in a request
  MaxRequests,  \* bound: requests
  MaxOffset     \* bound: records acknowledged for a partition

ASSUME BrokerAssumption ==
  /\ Reactors # {} /\ Hosted \cap (Stray \cup Unknown) = {} /\ Stray \cap Unknown = {}
  /\ Counts \subseteq Nat \ {0}
  /\ MaxEntries \in Nat \ {0} /\ MaxRequests \in Nat /\ MaxOffset \in Nat

VARIABLES
  route,      \* ShardRouter::route: any fixed function of the partition
  pending,    \* requests on their way to their target
  current,    \* the request each reactor is carrying out
  contexts,   \* partition_contexts_ of each reactor: partition to next_offset_
  file,       \* the records of each partition on disk
  submitted,  \* number of requests sent
  acked,      \* the batches producers were told about
  listed      \* the answer of the last step, when it was ListOffsets or Fetch

vars == <<route, pending, current, contexts, file, submitted, acked, listed>>

Partitions == Hosted \cup Stray \cup Unknown
NoListing == [partition |-> "none"]
Idle == [api |-> "none"]

\* The offset behind the last record of p that a producer was told about.
AckedEnd(p) == Max({0} \cup {b.base + b.count : b \in {a \in acked : a.partition = p}})

Init ==
  /\ route \in [Partitions -> Reactors]
  /\ pending = {} /\ current = [r \in Reactors |-> Idle]
  /\ contexts = [r \in Reactors |-> <<>>]
  /\ file = [p \in Hosted |-> <<>>]
  /\ submitted = 0 /\ acked = {} /\ listed = NoListing

\* Mutant: ListOffsets is not among the requests that have a key.
TargetUnlessList(source, api, entries) ==
  IF api = "list" THEN source ELSE route[entries[1].partition]

\* extract_partition_key and route: the first partition speaks for all, even
\* one that the metadata lacks.  Only Fetch, which names a topic by its id,
\* has to look it up, and stays where it is if it cannot.
Target(source, api, entries) ==
  IF api = "fetch" /\ entries[1].partition \in Unknown THEN source
  ELSE route[entries[1].partition]

Submit(source, api, entries) ==
  /\ submitted < MaxRequests
  /\ submitted' = submitted + 1
  /\ pending' = pending \cup
       {[id |-> submitted, target |-> Target(source, api, entries), api |-> api,
         entries |-> entries, floor |-> [p \in Hosted |-> AckedEnd(p)]]}
  /\ listed' = NoListing
  /\ UNCHANGED <<route, current, contexts, file, acked>>

Begin(r, req) ==
  /\ current[r] = Idle /\ req.target = r
  /\ current' = [current EXCEPT ![r] = req]
  /\ pending' = pending \ {req}
  /\ listed' = NoListing
  /\ UNCHANGED <<route, contexts, file, submitted, acked>>

\* get_or_create_context
Context(r, p) == IF p \in DOMAIN contexts[r] THEN contexts[r][p] ELSE 0

\* On to the next partition that the request lists.
Proceed(r) ==
  current' = [current EXCEPT ![r] = IF Len(@.entries) = 1 THEN Idle
                                    ELSE [@ EXCEPT !.entries = Tail(@)]]

\* Mutant: the batch is counted as one record.
AdvanceByOne(r, p, count) ==
  [contexts EXCEPT ![r] = [q \in DOMAIN contexts[r] \cup {p} |->
                             IF q = p THEN Context(r, p) + Min({count, 1}) ELSE contexts[r][q]]]

\* The context is there from now on, count records further.
AdvanceContext(r, p, count) ==
  [contexts EXCEPT ![r] = [q \in DOMAIN contexts[r] \cup {p} |->
                             IF q = p THEN Context(r, p) + count ELSE contexts[r][q]]]

\* handle_produce, one listed partition: an unknown one is refused.
ProduceEntry(r) ==
  /\ current[r].api = "produce"
  /\ Proceed(r)
  /\ LET p == current[r].entries[1].partition
         count == current[r].entries[1].count
     IN  IF p \in Hosted
         THEN /\ Context(r, p) + count <= MaxOffset
              /\ contexts' = AdvanceContext(r, p, count)
              /\ file' = [file EXCEPT ![p] = Append(@, [base |-> Context(r, p), count |-> count])]
              /\ acked' = acked \cup {[partition |-> p, id |-> current[r].id,
                                         base |-> Context(r, p), count |-> count]}
         ELSE UNCHANGED <<contexts, file, acked>>
  /\ listed' = NoListing
  /\ UNCHANGED <<route, pending, submitted>>

\* Mutant: the metadata is not asked for the partition.
ListEntryUnchecked(r) ==
  /\ current[r].api = "list"
  /\ Proceed(r)
  /\ LET p == current[r].entries[1].partition
     IN  contexts' = AdvanceContext(r, p, 0)
  /\ listed' = NoListing
  /\ UNCHANGED <<route, pending, file, submitted, acked>>

\* handle_list_offsets, one listed partition, for the latest offset.
ListEntry(r) ==
  /\ current[r].api = "list"
  /\ Proceed(r)
  /\ LET p == current[r].entries[1].partition
     IN  IF p \in Hosted
         THEN /\ contexts' = AdvanceContext(r, p, 0)
              /\ listed' = [partition |-> p, offset |-> Context(r, p),
                            floor |-> current[r].floor[p]]
         ELSE listed' = NoListing /\ UNCHANGED contexts
  /\ UNCHANGED <<route, pending, file, submitted, acked>>

\* handle_fetch, one listed partition, from the start of its log.  It asks
\* the metadata for the topic only, so that a context is made for any index.
FetchEntry(r) ==
  /\ current[r].api = "fetch"
  /\ Proceed(r)
  /\ LET p == current[r].entries[1].partition
     IN  /\ contexts' = IF p \in Unknown THEN contexts
                        ELSE AdvanceContext(r, p, 0)
         /\ listed' = IF p \notin Hosted THEN NoListing
                      ELSE [partition |-> p, floor |-> current[r].floor[p],
                            offset |-> Max({0} \cup {b.base + b.count : b \in Range(file[p])})]
  /\ UNCHANGED <<route, pending, file, submitted, acked>>

\* The partitions a request lists are different ones.
Lists(E) ==
  {e \in UNION {[1..n -> E] : n \in 1..MaxEntries} :
     \A i, j \in DOMAIN e : e[i].partition = e[j].partition => i = j}

Next ==
  \/ \E source \in Reactors :
       \/ \E entries \in Lists([partition: Partitions, count: Counts]) :
            Submit(source, "produce", entries)
       \/ \E entries \in Lists([partition: Partitions]), api \in {"list", "fetch"} :
            Submit(source, api, entries)
  \/ \E r \in Reactors :
       ProduceEntry(r) \/ ListEntry(r) \/ FetchEntry(r) \/ \E req \in pending : Begin(r, req)

Spec == Init /\ [][Next]_vars

-----------------------------------------------------------------------------
(***************************************************************************)
(* Properties.                                                             *)
(***************************************************************************)

\* The type of every variable.
TypeOK ==
  /\ route \in [Partitions -> Reactors]
  /\ \A r \in Reactors :
       /\ DOMAIN contexts[r] \subseteq Hosted \cup Stray
       /\ \A p \in DOMAIN contexts[r] : contexts[r][p] \in 0..MaxOffset
  /\ submitted \in 0..MaxRequests
  /\ \A p \in Hosted : Range(file[p]) \subseteq [base: 0..MaxOffset, count: Counts]

\* No two batches of a partition are acknowledged at overlapping offsets:
\* what "PartitionContext: an execution context for each partition, writes
\* of a partition are serialised" (docs/roadmap_v1.md:19) gives producers.
OffsetsUnique ==
  \A a, b \in acked :
    a.partition = b.partition /\ a.base < b.base + b.count /\ b.base < a.base + a.count => a = b

\* ListOffsets and Fetch are not stale: the latest offset reported, and the
\* records returned, cover every batch that was acknowledged before the client
\* asked, whichever reactors the producer and the asking client are connected
\* to.
LatestCoversAcked == listed # NoListing => listed.offset >= listed.floor

\* Requests that list one partition: the file that the reactors share is, for
\* every partition, one append-only log, each batch based where the one before
\* it ends.  Every request for the partition meets the same context.
LogOf(p) == INSTANCE AppendLog WITH log <- file[p]
PartitionsAreLogs == [][\A p \in Hosted : [LogOf(p)!AppendBatch]_(file[p])]_vars
=============================================================================
