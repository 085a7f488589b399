--------------------------- MODULE WorkerReactor ----------------------------
(***************************************************************************)
(* The event loops and the queues between them.  Every reactor accepts     *)
(* connections, reads one request per readable event, and either answers   *)
(* it or forwards it to the reactor that owns the partition; that reactor  *)
(* answers through the response queue of the first one.                    *)
(*                                                                         *)
(* A request and its response are known by the number of the request, and  *)
(* a request by its session (one TCP connection, whatever fd it has), its  *)
(* target and its kind:                                                    *)
(*   plain   answered from memory                                          *)
(*   splice  a Fetch whose records are spliced behind the response         *)
(*   huge    its response exceeds max_write_buffer_bytes_                  *)
(*   bad     does not parse                                                *)
(* Metrics and logging are left out.                                       *)
(***************************************************************************)
EXTENDS Integers, FiniteSets, SequencesExt

CONSTANTS
  Reactors,     \* reactor ids
  Fds,          \* file descriptors of client sockets, shared by the process
  Kinds,        \* the kinds of request that clients send
  Late,         \* reactors that are not set up when the first client comes
  Splits,       \* whether a length may arrive without the rest of its request
  Abandons,     \* whether a client may close while it waits for an answer
  Window,       \* bound: unanswered requests of a client
  MaxSessions,  \* bound: TCP connections
  MaxRequests   \* bound: requests

ASSUME ReactorAssumption ==
  /\ Reactors # {} /\ Late \subseteq Reactors
  /\ Kinds \subseteq {"plain", "splice", "huge", "bad"}
  /\ Splits \in BOOLEAN /\ Abandons \in BOOLEAN
  /\ Fds \subseteq Nat
  /\ Window \in Nat /\ MaxSessions \in Nat /\ MaxRequests \in Nat

VARIABLES
  pc,           \* where each reactor is in run()
  todo,         \* the events epoll_wait reported and run() has not handled
  wakeup_fd,    \* the reactors whose queues have their eventfd
  signal,       \* the reactors whose eventfd is readable
  waking,       \* whom each reactor pushed to and has yet to wake: a set
  writing,      \* the fd whose EPOLLOUT comes after its EPOLLIN, or NoFd
  requests,     \* requests_ of each reactor's queues
  responses,    \* responses_ of each reactor's queues
  connections,  \* connections_: fd to Connection
  ring,         \* splices each reactor submitted, oldest first
  session,      \* the clients' end of each connection
  request       \* every request sent

queueVars == <<wakeup_fd, signal, waking, requests, responses>>
loopVars == <<pc, todo, writing>>
vars == <<loopVars, queueVars, connections, ring, session, request>>

Sessions == DOMAIN session
NoFd == -1

\* write_buf is a response or 0; written: write_offset has reached its end;
\* armed: registered for EPOLLOUT; splice: the request whose records are to
\* be spliced (splice_fd and splice_len), or 0.
Connection ==
  [write_buf: Nat, written: BOOLEAN, write_queue: Seq(Nat), armed: BOOLEAN,
   splice: Nat, splice_pending: BOOLEAN]
NewConnection ==
  [write_buf |-> 0, written |-> FALSE, write_queue |-> <<>>, armed |-> FALSE,
   splice |-> 0, splice_pending |-> FALSE]

\* A client connects through the listening socket of some reactor.  socket:
\* waiting in its backlog, open, or closed by the broker.  stream: the pieces
\* of requests that have arrived and were not read.
Connected(r) ==
  [reactor |-> r, fd |-> NoFd, socket |-> "backlog", left |-> FALSE,
   stream |-> <<>>, sent |-> <<>>, received |-> <<>>]

Init ==
  /\ pc = [r \in Reactors |-> IF r \in Late THEN "starting" ELSE "wait"]
  /\ todo = [r \in Reactors |-> {}]
  /\ wakeup_fd = Reactors \ Late
  /\ signal = {}
  /\ waking = [r \in Reactors |-> {}]
  /\ writing = [r \in Reactors |-> NoFd]
  /\ requests = [r \in Reactors |-> <<>>]
  /\ responses = [r \in Reactors |-> <<>>]
  /\ connections = [r \in Reactors |-> <<>>]
  /\ ring = [r \in Reactors |-> <<>>]
  /\ session = <<>>
  /\ request = <<>>

-----------------------------------------------------------------------------
(***************************************************************************)
(* Clients (external): they connect, send, and close.                      *)
(***************************************************************************)

Connect(r) ==
  /\ Len(session) < MaxSessions
  /\ session' = Append(session, Connected(r))
  /\ UNCHANGED <<loopVars, queueVars, connections, ring, request>>

Unanswered(s) == Len(session[s].sent) - Len(session[s].received)

\* The length and the rest of a request arrive together or, if Splits, with
\* a pause between them.
Send(s, target, kind) ==
  LET id == Len(request) + 1
      whole == <<[id |-> id, part |-> "length"], [id |-> id, part |-> "body"]>>
  IN  /\ session[s].socket # "closed" /\ ~session[s].left
      /\ Unanswered(s) < Window /\ Len(request) < MaxRequests
      /\ session[s].stream # <<>> => Last(session[s].stream).part = "body"
      /\ request' = Append(request, [session |-> s, target |-> target, kind |-> kind,
                                     pipelined |-> Unanswered(s) > 0])
      /\ \E arrived \in {whole} \cup (IF Splits THEN {SubSeq(whole, 1, 1)} ELSE {}) :
           session' = [session EXCEPT ![s].sent = Append(@, id),
                                      ![s].stream = @ \o arrived]
      /\ UNCHANGED <<loopVars, queueVars, connections, ring>>

SendRest(s) ==
  /\ session[s].stream # <<>> /\ Last(session[s].stream).part = "length"
  /\ ~session[s].left
  /\ session' = [session EXCEPT ![s].stream =
                   Append(@, [id |-> Last(@).id, part |-> "body"])]
  /\ UNCHANGED <<loopVars, queueVars, connections, ring, request>>

Leave(s) ==
  /\ ~session[s].left
  /\ Abandons \/ Unanswered(s) = 0
  /\ session' = [session EXCEPT ![s].left = TRUE]
  /\ UNCHANGED <<loopVars, queueVars, connections, ring, request>>

-----------------------------------------------------------------------------
(***************************************************************************)
(* The queues: push, then wake the reactor outside the lock.               *)
(***************************************************************************)

\* Mutant: pushes to the queues of the pushing reactor.
PushRequestToSelf(from, to, fwd) ==
  /\ requests' = [requests EXCEPT ![from] = Append(@, fwd)]
  /\ waking' = [waking EXCEPT ![from] = {to}]
  /\ UNCHANGED <<wakeup_fd, signal, responses>>

PushRequest(from, to, fwd) ==
  /\ requests' = [requests EXCEPT ![to] = Append(@, fwd)]
  /\ waking' = [waking EXCEPT ![from] = {to}]
  /\ UNCHANGED <<wakeup_fd, signal, responses>>

\* Mutant: the response is pushed and nobody is woken.
PopRequestPushUnwoken(r, to, fwd) ==
  /\ requests' = [requests EXCEPT ![r] = Tail(@)]
  /\ responses' = [responses EXCEPT ![to] = Append(@, fwd)]
  /\ UNCHANGED <<wakeup_fd, signal, waking>>

PopRequestPushResponse(r, to, fwd) ==
  /\ requests' = [requests EXCEPT ![r] = Tail(@)]
  /\ responses' = [responses EXCEPT ![to] = Append(@, fwd)]
  /\ waking' = [waking EXCEPT ![r] = {to}]
  /\ UNCHANGED <<wakeup_fd, signal>>

\* A queue without an eventfd wakes nobody.
Wake(r) ==
  /\ waking[r] # {}
  /\ signal' = signal \cup (waking[r] \cap wakeup_fd)
  /\ waking' = [waking EXCEPT ![r] = {}]
  /\ UNCHANGED <<loopVars, wakeup_fd, requests, responses, connections, ring, session, request>>

\* The constructor has run: the eventfd is in place and run() waits.
Start(r) ==
  /\ pc[r] = "starting"
  /\ pc' = [pc EXCEPT ![r] = "wait"]
  /\ wakeup_fd' = wakeup_fd \cup {r}
  /\ UNCHANGED <<todo, writing, signal, waking, requests, responses, connections, ring,
                 session, request>>

-----------------------------------------------------------------------------
(***************************************************************************)
(* run().                                                                  *)
(***************************************************************************)

Owners(r, fd) == {s \in Sessions : session[s].socket = "open" /\ session[s].reactor = r
                                     /\ session[s].fd = fd}
Backlog(r) == {s \in Sessions : session[s].socket = "backlog" /\ session[s].reactor = r}
Readable(s) == session[s].stream # <<>> \/ session[s].left

Ready(r) ==
  (IF Backlog(r) # {} THEN {<<"accept", NoFd>>} ELSE {})
  \cup (IF r \in signal THEN {<<"wakeup", NoFd>>} ELSE {})
  \cup {<<"in", fd>> : fd \in {f \in Fds : \E s \in Owners(r, f) : Readable(s)}}
  \cup {<<"out", fd>> : fd \in {f \in DOMAIN connections[r] :
                                  Owners(r, f) # {} /\ connections[r][f].armed}}

Poll(r) ==
  /\ pc[r] = "wait" /\ Ready(r) # {}
  /\ pc' = [pc EXCEPT ![r] = "events"]
  /\ todo' = [todo EXCEPT ![r] = Ready(r)]
  /\ UNCHANGED <<writing, queueVars, connections, ring, session, request>>

\* The next event may be taken: no push is unfinished, and a descriptor that
\* was read and is also writable comes first.
Takes(r, event) ==
  /\ pc[r] = "events" /\ waking[r] = {} /\ event \in todo[r]
  /\ writing[r] \in {NoFd, event[2]}

Done(r, event) == todo' = [todo EXCEPT ![r] = @ \ {event}]

HandleWakeup(r) ==
  /\ Takes(r, <<"wakeup", NoFd>>) /\ Done(r, <<"wakeup", NoFd>>)
  /\ signal' = signal \ {r}
  /\ UNCHANGED <<pc, writing, wakeup_fd, waking, requests, responses, connections, ring,
                 session, request>>

\* accept() returns the lowest free descriptor, and fails when there is none.
FreeFds == Fds \ {session[s].fd : s \in {t \in Sessions : session[t].socket = "open"}}

HandleAccept(r) ==
  /\ Takes(r, <<"accept", NoFd>>) /\ Done(r, <<"accept", NoFd>>)
  /\ IF FreeFds = {} THEN UNCHANGED <<session, connections>>
     ELSE LET s == Min(Backlog(r))
              fd == Min(FreeFds)
          IN  /\ session' = [session EXCEPT ![s].socket = "open", ![s].fd = fd]
              /\ connections' = [connections EXCEPT ![r] = (fd :> NewConnection) @@ @]
  /\ UNCHANGED <<pc, writing, queueVars, ring, request>>

\* Mutant: a response replaces the one being written.
EnqueueOverwrites(conn, id, registered) ==
  [conn EXCEPT !.write_buf = id, !.written = FALSE, !.armed = registered]

\* The fields of a connection that a new response goes to.  A descriptor
\* that epoll does not know cannot be armed.
Enqueue(conn, id, registered) ==
  IF conn.write_buf = 0
  THEN [conn EXCEPT !.write_buf = id, !.written = FALSE, !.armed = registered]
  ELSE [conn EXCEPT !.write_queue = Append(@, id)]

Splice(conn, id) == IF request[id].kind = "splice" THEN [conn EXCEPT !.splice = id] ELSE conn

Close(r, fd) ==
  /\ connections' = [connections EXCEPT ![r] = Restrict(@, DOMAIN @ \ {fd})]
  /\ session' = [s \in Sessions |->
       IF s \in Owners(r, fd)
       THEN [session[s] EXCEPT !.socket = "closed", !.stream = <<>>] ELSE session[s]]

-----------------------------------------------------------------------------
(***************************************************************************)
(* A readable connection: one request per event.                           *)
(***************************************************************************)

\* The event's writable half comes next, even if the read closed fd.
ReadDone(r, fd) ==
  /\ Done(r, <<"in", fd>>)
  /\ writing' = [writing EXCEPT ![r] = IF <<"out", fd>> \in todo[r] THEN fd ELSE NoFd]
  /\ UNCHANGED pc

\* No bytes where some were expected, be it the end of the stream or a body
\* that is still to come; a request that does not parse; or a response over
\* the limit, which is found when the request has been carried out.
Refused(r, stream) ==
  Len(stream) >= 2 =>
    LET req == request[stream[1].id]
    IN  req.kind = "bad" \/ (req.kind = "huge" /\ req.target = r)

Consumed(s) == [session EXCEPT ![s].stream = SubSeq(@, 3, Len(@))]

\* Mutant: the forwarded request names the connection accepted last.
ForwardForLast(r, fd, s, id) ==
  /\ PushRequest(r, request[id].target,
                 [client_fd |-> Max(DOMAIN connections[r]), source_reactor_id |-> r, id |-> id])
  /\ session' = Consumed(s)
  /\ UNCHANGED connections

Forward(r, fd, s, id) ==
  /\ PushRequest(r, request[id].target, [client_fd |-> fd, source_reactor_id |-> r, id |-> id])
  /\ session' = Consumed(s)
  /\ UNCHANGED connections

HandleRead(r, fd) ==
  /\ Takes(r, <<"in", fd>>) /\ ReadDone(r, fd)
  /\ \E s \in Owners(r, fd) :
       LET stream == session[s].stream
           id == stream[1].id
       IN  \/ /\ Refused(r, stream)
              /\ Close(r, fd)
              /\ UNCHANGED queueVars
           \/ /\ ~Refused(r, stream) /\ request[id].target # r
              /\ Forward(r, fd, s, id)
           \/ /\ ~Refused(r, stream) /\ request[id].target = r
              /\ connections' = [connections EXCEPT ![r][fd] = Enqueue(Splice(@, id), id, TRUE)]
              /\ session' = Consumed(s)
              /\ UNCHANGED queueVars
  /\ UNCHANGED <<ring, request>>

\* EPOLLERR or EPOLLHUP: the client is gone.
HandleHangup(r, fd) ==
  /\ Takes(r, <<"in", fd>>)
  /\ \E s \in Owners(r, fd) : session[s].left
  /\ todo' = [todo EXCEPT ![r] = @ \ {<<"in", fd>>, <<"out", fd>>}]
  /\ Close(r, fd)
  /\ UNCHANGED <<pc, writing, queueVars, ring, request>>

-----------------------------------------------------------------------------
(***************************************************************************)
(* A writable connection.                                                  *)
(***************************************************************************)

\* Mutant: EPOLLOUT is dropped although a response was taken from the queue.
AdvanceDisarmed(conn) ==
  IF conn.write_queue # <<>>
  THEN [conn EXCEPT !.write_buf = Head(conn.write_queue), !.write_queue = Tail(@),
                    !.written = FALSE, !.armed = FALSE]
  ELSE [conn EXCEPT !.write_buf = 0, !.written = FALSE, !.armed = FALSE]

\* advance_write_queue
Advance(conn) ==
  IF conn.write_queue # <<>>
  THEN [conn EXCEPT !.write_buf = Head(conn.write_queue), !.write_queue = Tail(@),
                    !.written = FALSE]
  ELSE [conn EXCEPT !.write_buf = 0, !.written = FALSE, !.armed = FALSE]

\* connections_[fd]: a connection that was erased comes back empty.
At(r, fd) == IF fd \in DOMAIN connections[r] THEN connections[r][fd] ELSE NewConnection

\* Mutant: write_offset is reset while the splice is pending.
WrittenRewinds(conn) ==
  IF conn.splice # 0 /\ ~conn.splice_pending
  THEN [conn EXCEPT !.written = FALSE, !.splice = 0, !.splice_pending = TRUE]
  ELSE IF ~conn.splice_pending THEN Advance(conn) ELSE [conn EXCEPT !.written = TRUE]

\* Mutant: splice_fd stays when the splice has been submitted.
WrittenSplicesAgain(conn) ==
  IF conn.splice # 0 /\ ~conn.splice_pending
  THEN [conn EXCEPT !.written = TRUE, !.splice_pending = TRUE]
  ELSE IF ~conn.splice_pending THEN Advance(conn) ELSE [conn EXCEPT !.written = TRUE]

\* After the whole of write_buf has been sent.
Written(conn) ==
  IF conn.splice # 0 /\ ~conn.splice_pending
  THEN [conn EXCEPT !.written = TRUE, !.splice = 0, !.splice_pending = TRUE]
  ELSE IF ~conn.splice_pending THEN Advance(conn) ELSE [conn EXCEPT !.written = TRUE]

WriteTurn(r, fd) ==
  /\ Takes(r, <<"out", fd>>) /\ Done(r, <<"out", fd>>)
  /\ <<"in", fd>> \notin todo[r]
  /\ writing' = [writing EXCEPT ![r] = NoFd]
  /\ UNCHANGED <<pc, queueVars, request>>

HandleWrite(r, fd) ==
  LET conn == At(r, fd)
  IN  /\ WriteTurn(r, fd)
      /\ connections' = [connections EXCEPT ![r] = (fd :> Written(conn)) @@ @]
      /\ ring' = IF conn.splice # 0 /\ ~conn.splice_pending
                 THEN [ring EXCEPT ![r] = Append(@, [fd |-> fd, done |-> FALSE, id |-> conn.splice,
                                                     behind |-> conn.write_buf])]
                 ELSE ring
      /\ session' = [s \in Sessions |->
           IF s \in Owners(r, fd) /\ ~session[s].left /\ conn.write_buf # 0 /\ ~conn.written
           THEN [session[s] EXCEPT !.received = Append(@, conn.write_buf)] ELSE session[s]]

\* The client is gone and send() fails.
HandleWriteFails(r, fd) ==
  /\ WriteTurn(r, fd)
  /\ \E s \in Owners(r, fd) : session[s].left
  /\ At(r, fd).write_buf # 0 /\ ~At(r, fd).written
  /\ Close(r, fd)
  /\ UNCHANGED ring

-----------------------------------------------------------------------------
(***************************************************************************)
(* The end of an iteration: both queues, then the completions.             *)
(***************************************************************************)

EventsDone(r) == pc[r] = "events" /\ todo[r] = {} /\ waking[r] = {}

DrainRequest(r) ==
  /\ EventsDone(r) /\ requests[r] # <<>>
  /\ LET fwd == Head(requests[r])
     IN  PopRequestPushResponse(r, fwd.source_reactor_id,
                                [client_fd |-> fwd.client_fd, id |-> fwd.id])
  /\ UNCHANGED <<loopVars, connections, ring, session, request>>

RequestsDone(r) ==
  /\ EventsDone(r) /\ requests[r] = <<>>
  /\ pc' = [pc EXCEPT ![r] = "responses"]
  /\ UNCHANGED <<todo, writing, queueVars, connections, ring, session, request>>

\* A response for a descriptor without a connection is dropped.
DrainResponse(r) ==
  /\ pc[r] = "responses" /\ responses[r] # <<>>
  /\ responses' = [responses EXCEPT ![r] = Tail(@)]
  /\ LET fwd == Head(responses[r])
         fd == fwd.client_fd
     IN  connections' =
           IF fd \in DOMAIN connections[r]
           THEN [connections EXCEPT ![r][fd] =
                   Enqueue(Splice(@, fwd.id), fwd.id, Owners(r, fd) # {})]
           ELSE connections
  /\ UNCHANGED <<loopVars, wakeup_fd, signal, waking, requests, ring, session, request>>

ResponsesDone(r) ==
  /\ pc[r] = "responses" /\ responses[r] = <<>>
  /\ pc' = [pc EXCEPT ![r] = "harvest"]
  /\ UNCHANGED <<todo, writing, queueVars, connections, ring, session, request>>

\* The kernel finishes a splice, with or without success (external).
Complete(r, i) ==
  /\ ~ring[r][i].done
  /\ ring' = [ring EXCEPT ![r][i].done = TRUE]
  /\ UNCHANGED <<loopVars, queueVars, connections, session, request>>

Completed(r) == {i \in DOMAIN ring[r] : ring[r][i].done}

\* A completion is known by its descriptor alone.
Harvest(r) ==
  /\ pc[r] = "harvest" /\ Completed(r) # {}
  /\ LET i == Min(Completed(r))
         fd == ring[r][i].fd
     IN  /\ ring' = [ring EXCEPT ![r] = RemoveAt(@, i)]
         /\ connections' =
              IF fd \in DOMAIN connections[r]
              THEN [connections EXCEPT ![r][fd] = Advance([@ EXCEPT !.splice_pending = FALSE])]
              ELSE connections
  /\ UNCHANGED <<loopVars, queueVars, session, request>>

HarvestDone(r) ==
  /\ pc[r] = "harvest" /\ Completed(r) = {}
  /\ pc' = [pc EXCEPT ![r] = "wait"]
  /\ UNCHANGED <<todo, writing, queueVars, connections, ring, session, request>>

-----------------------------------------------------------------------------
Client ==
  \/ \E r \in Reactors : Connect(r)
  \/ \E s \in Sessions :
       \/ \E target \in Reactors, kind \in Kinds : Send(s, target, kind)
       \/ SendRest(s)
       \/ Leave(s)

Loop(r) ==
  \/ Poll(r) \/ HandleWakeup(r) \/ HandleAccept(r)
  \/ \E fd \in Fds : HandleRead(r, fd) \/ HandleHangup(r, fd)
                       \/ HandleWrite(r, fd) \/ HandleWriteFails(r, fd)
  \/ Wake(r) \/ DrainRequest(r) \/ RequestsDone(r)
  \/ DrainResponse(r) \/ ResponsesDone(r) \/ Harvest(r) \/ HarvestDone(r)

Kernel(r) == \E i \in DOMAIN ring[r] : Complete(r, i)

Next == Client \/ \E r \in Reactors : Start(r) \/ Loop(r) \/ Kernel(r)

Spec == Init /\ [][Next]_vars

\* Every thread is scheduled and every splice ends; clients owe nothing.
FairSpec ==
  Spec /\ \A r \in Reactors : WF_vars(Start(r)) /\ WF_vars(Loop(r)) /\ WF_vars(Kernel(r))

-----------------------------------------------------------------------------
(***************************************************************************)
(* Properties.                                                             *)
(***************************************************************************)

Ids == 1..Len(request)

\* The type of every variable: each forwarded request and response, each
\* splice and each connection is about a known descriptor and request.
TypeOK ==
  /\ pc \in [Reactors -> {"starting", "wait", "events", "responses", "harvest"}]
  /\ \A r \in Reactors : todo[r] \subseteq {"accept", "wakeup", "in", "out"} \X (Fds \cup {NoFd})
  /\ wakeup_fd \subseteq Reactors /\ signal \subseteq wakeup_fd
  /\ waking \in [Reactors -> SUBSET Reactors] /\ writing \in [Reactors -> Fds \cup {NoFd}]
  /\ \A r \in Reactors :
       /\ requests[r] \in Seq([client_fd: Fds, source_reactor_id: Reactors \ {r}, id: Ids])
       /\ responses[r] \in Seq([client_fd: Fds, id: Ids])
       /\ ring[r] \in Seq([fd: Fds, done: BOOLEAN, id: Ids, behind: Ids])
       /\ DOMAIN connections[r] \subseteq Fds
       /\ \A fd \in DOMAIN connections[r] :
            /\ connections[r][fd] \in Connection
            /\ {connections[r][fd].write_buf} \cup Range(connections[r][fd].write_queue)
                 \subseteq Ids \cup {0}
  /\ session \in Seq([reactor: Reactors, fd: Fds \cup {NoFd},
                      socket: {"backlog", "open", "closed"}, left: BOOLEAN,
                      stream: Seq([id: Ids, part: {"length", "body"}]),
                      sent: Seq(Ids), received: Seq(Ids)])
  /\ request \in Seq([session: Sessions, target: Reactors, kind: Kinds, pipelined: BOOLEAN])

\* No wakeup is lost: while a reactor sleeps in epoll_wait with something in
\* its queues, its eventfd is readable or a pusher is about to make it so.
\* The queue is filled under a lock and the eventfd is written outside it;
\* run() reads the eventfd before it drains.
NoLostWakeup ==
  \A r \in Reactors :
    pc[r] = "wait" /\ (requests[r] # <<>> \/ responses[r] # <<>>)
      => r \in signal \/ \E q \in Reactors : r \in waking[q]

InStream(s, id) == \E i \in DOMAIN session[s].stream : session[s].stream[i].id = id
Forwarded(s, id) ==
  \E i \in DOMAIN requests[request[id].target] :
    requests[request[id].target][i] =
      [client_fd |-> session[s].fd, source_reactor_id |-> session[s].reactor, id |-> id]
Returning(s, id) ==
  [client_fd |-> session[s].fd, id |-> id] \in Range(responses[session[s].reactor])
Buffered(s, id) ==
  LET conn == connections[session[s].reactor][session[s].fd]
  IN  /\ conn.armed
      /\ (conn.write_buf = id /\ ~conn.written) \/ id \in Range(conn.write_queue)

\* While its connection stands, a request is never mislaid between handle_read,
\* the two queues, the write queue and the socket: it is unread, on its way,
\* waiting in a buffer that EPOLLOUT will flush, or answered: "new responses
\* queue up in write_queue_, handle_write sends them in turn, first in first
\* out" (docs/roadmap_v2.md:11).  The completion of a splice of an earlier
\* connection with the same descriptor breaks this.
NothingMislaid ==
  \A s \in Sessions :
    session[s].socket = "open" /\ ~session[s].left =>
      \A id \in Range(session[s].sent) :
        InStream(s, id) \/ Forwarded(s, id) \/ Returning(s, id) \/ Buffered(s, id)
          \/ id \in Range(session[s].received)

\* handle_write sends a response once, whatever the splices behind it and
\* however often EPOLLOUT is reported while one is pending.
SentOnce == \A s \in Sessions : IsInjective(session[s].received)

\* The records of a large Fetch are spliced behind its own response ("header
\* send, then splice", docs/roadmap_v2.md:33), unless a request was sent before
\* the one ahead of it was answered: splice_fd is the connection's and not the
\* response's, so a response that has to queue is overtaken by its records.
SplicedBehindOwn ==
  \A r \in Reactors : \A i \in DOMAIN ring[r] :
    LET splice == ring[r][i]
    IN  splice.id # splice.behind =>
          request[splice.id].pipelined \/ request[splice.behind].pipelined

\* A client is only ever sent responses to its own requests, as the test of
\* two concurrent clients checks (tests/integration_test.cpp:427, "Correlation
\* ID mismatch"): the descriptor in a forwarded request still means the same
\* connection when the response comes back.
OwnResponses == \A s \in Sessions : Range(session[s].received) \subseteq Range(session[s].sent)

\* The forwarded requests whose connection ended before they were answered.
Stranded ==
  {id \in Ids :
     LET s == request[id].session
     IN  /\ request[id].kind # "bad" /\ request[id].target # session[s].reactor
         /\ session[s].left \/ session[s].socket = "closed"
         /\ id \notin Range(session[s].received)}

\* Nothing else than a forwarded request whose connection ended can bring a
\* client a response that is not its own: not the descriptors that are used
\* again, the order of the events of one epoll_wait, nor requests that come in
\* pieces or do not parse.
OwnUnlessStranded == Stranded = {} => OwnResponses

\* Responses come in the order of the requests: the n-th response on a
\* connection has the correlation id of the n-th request
\* (tests/integration_test.cpp:410), also when the next request is sent while
\* the last is being answered (docs/roadmap_v2.md:10-11, "first in first out").
\* A forwarded request is overtaken by the local one behind it.
ResponsesInOrder == \A s \in Sessions : IsPrefix(session[s].received, session[s].sent)

\* Every request is answered, unless the client leaves or the broker closes
\* the connection: reactors wake each other, no queue is drained for the last
\* time too early, and a pending splice does not hold the write queue forever.
Answered ==
  \A s \in 1..MaxSessions, id \in 1..MaxRequests :
    (s \in Sessions /\ id \in Range(session[s].sent))
      ~> (s \in Sessions /\ (id \in Range(session[s].received) \/ session[s].left
                             \/ session[s].socket = "closed"))
=============================================================================
