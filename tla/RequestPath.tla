---------------------------- MODULE RequestPath -----------------------------
(***************************************************************************)
(* The way of a request through the broker, in bytes: the network brings a *)
(* client's messages in pieces, handle_read puts each together again,      *)
(* parse_request makes a request of it and, if it asks about topics, the   *)
(* cluster metadata answers it.                                            *)
(*                                                                         *)
(* One connection, of which the broker sees nothing but the bytes that     *)
(* have arrived.  What becomes of the answer, and of requests for another  *)
(* reactor, is WorkerReactor's.  A topic name is one byte.                 *)
(***************************************************************************)
EXTENDS Parser, RecordBatch, MetadataLog, Serializer, Clients, ClusterMetadata

CONSTANTS
  Others,          \* messages clients send besides questions about topics
  Catalogue,       \* messages, one and more of each kind, for the parser
  RecordLists,     \* what producers put into record batches
  MetadataLists,   \* what the controller puts into batches of the metadata log
  Responses,       \* responses, by their lengths, for the serializer
  Cuts,            \* bound: how far into a message the network may deliver it
  MaxMessageBytes, \* max_message_bytes_
  MaxEvents        \* bound: records in the log and messages sent, which count for three

ASSUME RequestPathAssumption ==
  Cuts \subseteq Nat /\ MaxMessageBytes \in Nat /\ MaxEvents \in Nat /\ Names \subseteq 0..255

VARIABLES
  sent,     \* the messages the client has sent
  stream,   \* their bytes
  arrived,  \* how many of the bytes have arrived
  taken,    \* how many of those the broker has read
  conn,     \* the connection: have_header, read_buf
  open,     \* it is in connections_
  handled   \* the requests handled, as parsed

connVars == <<sent, stream, arrived, taken, conn, open, handled>>
pathVars == <<vars, connVars>>

NewConnection == [have_header |-> FALSE, read_buf |-> <<>>]

\* A message with its length in front.
Framed(message) == BigEndian(Len(Encoded(message)), 4) \o Encoded(message)

\* Where message i begins in the stream.
Begin(i) == Len(FlattenSeq([j \in 1..i - 1 |-> Framed(sent[j])]))

PathInit ==
  /\ Init
  /\ sent = <<>> /\ stream = <<>> /\ arrived = 0 /\ taken = 0
  /\ conn = NewConnection /\ open = TRUE /\ handled = <<>>

\* A broker that starts has no connections.
PathStart ==
  /\ Start
  /\ sent' = <<>> /\ stream' = <<>> /\ arrived' = 0 /\ taken' = 0
  /\ conn' = NewConnection /\ open' = TRUE /\ handled' = <<>>

PathWrite(rec) ==
  /\ Len(file) + 3 * Len(sent) + 1 <= MaxEvents
  /\ Write(rec)
  /\ UNCHANGED connVars

Questions ==
  LET strings(names) == [i \in DOMAIN names |-> <<names[i]>>]
  IN  {MetadataOf(strings(names), NullOld) : names \in Requests}
        \cup {DescribeOf(strings(names), NullOld, FALSE) : names \in Requests}

\* The client sends a message; it need not wait for answers.
Send(message) ==
  /\ open /\ Len(file) + 3 * Len(sent) + 3 <= MaxEvents
  /\ sent' = Append(sent, message)
  /\ stream' = stream \o Framed(message)
  /\ reply' = NoReply
  /\ UNCHANGED <<file, loaded, metadata, arrived, taken, conn, open, handled>>

\* The network (external) delivers the stream up to some byte.
Deliver(upto) ==
  /\ open /\ arrived < upto /\ upto <= Len(stream)
  /\ arrived' = upto
  /\ reply' = NoReply
  /\ UNCHANGED <<file, loaded, metadata, sent, stream, taken, conn, open, handled>>

-----------------------------------------------------------------------------
(***************************************************************************)
(* handle_read, called when there is something to read: first the length   *)
(* of the message, then the rest, both as far as they have arrived.        *)
(***************************************************************************)

\* recv_all: at most n bytes, as many as there are.
Received(from, n) == SubSeq(stream, from + 1, Min({from + n, arrived}))

\* read_buf after the first part.
LengthRead ==
  IF conn.have_header THEN conn.read_buf
  ELSE conn.read_buf \o Received(taken, 4 - Len(conn.read_buf))

\* expected_len; a negative one is a huge size_t.
ExpectedLen == Decoded(SubSeq(LengthRead, 1, 4))
TooLarge == ExpectedLen < 0 \/ ExpectedLen > MaxMessageBytes

\* read_buf after the second.
BodyRead ==
  Received(taken + Len(LengthRead) - Len(conn.read_buf), 4 + ExpectedLen - Len(LengthRead))
MessageRead == LengthRead \o BodyRead

Parsed == ParseRequest(SubSeq(MessageRead, 5, Len(MessageRead)))

\* Mutant: a length that is not all there is taken for the end of the stream.
StepHasty ==
  IF Len(LengthRead) < 4 THEN "close"
  ELSE IF TooLarge THEN "close"
  ELSE IF Len(LengthRead) < 4 + ExpectedLen /\ BodyRead = <<>> THEN "close"
  ELSE IF Len(MessageRead) < 4 + ExpectedLen THEN "wait"
  ELSE IF ~Parsed.ok THEN "close" ELSE "handle"

\* What is left to do after the reads.
Step ==
  IF Len(LengthRead) < 4 THEN "wait"
  ELSE IF TooLarge THEN "close"
  ELSE IF Len(LengthRead) < 4 + ExpectedLen /\ BodyRead = <<>> THEN "close"
  ELSE IF Len(MessageRead) < 4 + ExpectedLen THEN "wait"
  ELSE IF ~Parsed.ok THEN "close" ELSE "handle"

Readable == open /\ taken < arrived

\* The message is not complete: the connection keeps what there is of it.
ReadPart ==
  /\ Readable /\ Step = "wait"
  /\ LET buf == IF Len(LengthRead) < 4 THEN LengthRead ELSE MessageRead
     IN  /\ conn' = [have_header |-> Len(LengthRead) = 4 \/ conn.have_header, read_buf |-> buf]
         /\ taken' = taken + Len(buf) - Len(conn.read_buf)
  /\ reply' = NoReply
  /\ UNCHANGED <<file, loaded, metadata, sent, stream, arrived, open, handled>>

\* The length is over the limit, or nothing of the rest is there (recv_all
\* says 0, as it does at the end of a stream), or the parser refuses it.
CloseConnection ==
  /\ Readable /\ Step = "close"
  /\ open' = FALSE
  /\ reply' = NoReply
  /\ UNCHANGED <<file, loaded, metadata, sent, stream, arrived, taken, conn, handled>>

\* Broker::handle.  Requests that are not about topics are other modules'.
Answer(req) ==
  LET names(list) == [i \in DOMAIN list |-> list[i][1]]
  IN  CASE req["api_key"] = 3 -> HandleMetadata(names(req["topics"]))
        [] req["api_key"] = 75 ->
             HandleDescribeTopicPartitions(
               names([i \in DOMAIN req["topic_names"] |-> req["topic_names"][i]["name"]]))
        [] OTHER -> reply' = NoReply /\ UNCHANGED <<file, loaded, metadata>>

\* Mutant: the buffer is left as it is for the next message.
HandleRequestUncleared ==
  /\ Readable /\ Step = "handle"
  /\ Answer(Parsed.val)
  /\ handled' = Append(handled, Parsed.val)
  /\ conn' = [have_header |-> FALSE, read_buf |-> MessageRead]
  /\ taken' = taken + Len(MessageRead) - Len(conn.read_buf)
  /\ UNCHANGED <<sent, stream, arrived, open>>

\* The message is complete and a request.
HandleRequest ==
  /\ Readable /\ Step = "handle"
  /\ Answer(Parsed.val)
  /\ handled' = Append(handled, Parsed.val)
  /\ conn' = NewConnection
  /\ taken' = taken + Len(MessageRead) - Len(conn.read_buf)
  /\ UNCHANGED <<sent, stream, arrived, open>>

HandleRead == ReadPart \/ CloseConnection \/ HandleRequest

PathNext ==
  \/ PathStart
  \/ \E rec \in Records : PathWrite(rec)
  \/ \E message \in Questions \cup Others : Send(message)
  \/ \E i \in DOMAIN sent, c \in Cuts : Deliver(Begin(i) + c)
  \/ Deliver(Len(stream))
  \/ HandleRead

PathSpec == PathInit /\ [][PathNext]_pathVars

-----------------------------------------------------------------------------
(***************************************************************************)
(* Properties.                                                             *)
(***************************************************************************)

\* However the network cuts the stream, the requests the broker handles are
\* the messages sent, in order and member for member.
HandledAsSent == IsPrefix(handled, [i \in DOMAIN sent |-> Members(sent[i])])

\* A message the broker may hang up on.
Refusable(message) == message = UnknownOf \/ Len(Encoded(message)) > MaxMessageBytes

\* A connection is closed over a message that is too long or not known, and
\* otherwise only when a read came upon the length of a message and not one
\* byte more.
ClosedForCause ==
  ~open => LET i == Len(handled) + 1
           IN  Refusable(sent[i]) \/ arrived = Begin(i) + 4

(***************************************************************************)
(* What follows is about functions and not about states: it is evaluated   *)
(* where nothing has happened yet.                                         *)
(***************************************************************************)
Fresh == file = <<>> /\ sent = <<>>

\* Every kind of request, with lists empty and not, names short and long
\* enough to need two bytes of length, and with what the broker drops
\* (client id, cursor, forgotten topics, rack, transaction), is parsed to
\* what the client put in, and up to its last byte.
ParsedAsSent ==
  Fresh =>
    \A message \in Catalogue :
      LET buf == Encoded(message)
          rd == ParseRequest(buf)
      IN  /\ rd.ok /\ rd.val = Members(message)
          /\ rd.val["api_key"] # 18 => rd.pos = Len(buf)

\* A request that lacks bytes at its end is refused, wherever it breaks off:
\* also where Fetch looks at the wrong result, for there are never enough
\* bytes left for what must still follow.
TruncatedIsRefused ==
  Fresh =>
    \A message \in Catalogue :
      LET buf == Encoded(message)
      IN  \A n \in 0..Len(buf) - 1 :
            (n >= 8 /\ message = ApiVersionsOf) \/ ~ParseRequest(SubSeq(buf, 1, n)).ok

\* Two batches in a row, cut off after n bytes, as a fetch reads them from a
\* segment: it finds the values of the batches that are there in full, and
\* an error if none is.  A produce counts as many offsets as a batch has
\* records.
BatchesReadBack ==
  LET values(recs) == [i \in DOMAIN recs |-> recs[i].value]
  IN  Fresh =>
        \A one, two \in RecordLists :
          LET b == BatchOf(one)
              log == b \o BatchOf(two)
          IN  /\ RecordBatchCount(b) = Len(one)
              /\ \A n \in 0..Len(log) :
                   ParseRecordBatch(SubSeq(log, 1, n)) =
                     Values(IF n < Len(b) THEN <<>>
                            ELSE IF n < Len(log) THEN values(one)
                            ELSE values(one) \o values(two))

\* The broker finds in the metadata log the topics and partitions that were
\* written to it, in their order and with nothing of the other records.  If
\* the log breaks off, because the controller stopped while it wrote, it
\* finds the first of them: although the parser goes on after a record it
\* cannot read, from somewhere within it, it makes no topic of what is left.
LogReadBack ==
  Fresh =>
    \A one, two \in MetadataLists, header \in {<<>>, <<72>>} :
      LET log == MetadataBatchOf(one, header) \o MetadataBatchOf(two, <<>>)
          all == SelectSeq(one \o two, LAMBDA rec : rec.type # "other")
      IN  /\ MetadataRecords(log) = all
          /\ \A n \in 0..Len(log) : IsPrefix(MetadataRecords(SubSeq(log, 1, n)), all)

\* A response is as long as it says it is, so that the client finds the next
\* one.  Of an answer about 127 topics or more the first pass counts one
\* byte too few, for the number of topics.
SizeAnnounced ==
  Fresh =>
    \A r \in Responses :
      Written(r) = 4 + Announced(r)
                     + (IF r.api = "describe" /\ Len(r.topics) >= 127 THEN 1 ELSE 0)
=============================================================================
