--------------------------- MODULE ConsumerGroup ----------------------------
(***************************************************************************)
(* Consumers that follow the group protocol against the coordinator: join, *)
(* the leader computes the assignment from the roster of its JoinGroup     *)
(* response, everybody syncs, heartbeats follow until one is refused.      *)
(* One blob, Owner, stands for owning the partition the group reads.       *)
(*                                                                         *)
(* The consumers are external code, modelled from the requests and         *)
(* responses they exchange with the handlers.  A handler runs when its     *)
(* request arrives; the response waits in reply until the consumer reads   *)
(* it or the connection drops it and the consumer tries again.             *)
(***************************************************************************)
EXTENDS GroupCoordinator

CONSTANTS
  Group,       \* the group all consumers are in
  Named,       \* the consumers that bring their own member id
  Owner,       \* the assignment blob that grants the partition
  MaxLosses,   \* bound: responses lost
  MaxCrashes,  \* bound: consumers that crash
  MaxLeaves    \* bound: consumers that leave

ASSUME ConsumerAssumption ==
  /\ Group \in GroupIds
  /\ Named \subseteq Names
  /\ Owner \in Assignments \ {NoAssignment}

VARIABLES
  consumer,  \* what each consumer knows
  reply,     \* the response on its way to each consumer
  losses, crashes, leaves

consumerVars == <<consumer, reply, losses, crashes, leaves>>
allVars == <<vars, consumerVars>>

NoReply == [kind |-> "none"]

\* phase: out (must join), joined (must sync), active (heartbeats), gone or
\* dead.  roster is the member list that the leader assigns from.
Consumers ==
  [phase: {"out", "joined", "active", "gone", "dead"}, id: MemberIds \cup {Anonymous},
   generation: Nat, leads: BOOLEAN, roster: SUBSET MemberIds, assignment: Assignments]

GroupInit ==
  /\ Init
  /\ consumer = [c \in Names |->
       [phase |-> "out", id |-> IF c \in Named THEN c ELSE Anonymous, generation |-> 0,
        leads |-> FALSE, roster |-> {}, assignment |-> NoAssignment]]
  /\ reply = [c \in Names |-> NoReply]
  /\ losses = 0 /\ crashes = 0 /\ leaves = 0

meta == groups[Group]

Ready(c, phase) == consumer[c].phase = phase /\ reply[c] = NoReply

Respond(c, r) == reply' = [reply EXCEPT ![c] = r]

Join(c) ==
  LET id == IF consumer[c].id = Anonymous THEN next_member_id + 1 ELSE consumer[c].id
  IN  /\ Ready(c, "out")
      /\ GenerationLeft(Group) /\ MemberIdLeft(consumer[c].id)
      /\ JoinGroup(Group, consumer[c].id, DefaultTimeout)
      /\ Respond(c, [kind |-> "join", id |-> id, generation |-> meta'.generation,
                     leads |-> Leader(meta') = id, roster |-> Ids(meta'.members)])
      /\ UNCHANGED <<consumer, losses, crashes, leaves>>

\* The leader lists everybody in its roster and makes one of them the owner.
Proposals(c) ==
  LET n == Cardinality(consumer[c].roster)
      orders == {s \in [1..n -> consumer[c].roster] : \A i, j \in 1..n : s[i] = s[j] => i = j}
      order == CHOOSE s \in orders : TRUE
  IN  IF consumer[c].leads
      THEN {[i \in 1..n |-> <<order[i], IF order[i] = o THEN Owner ELSE NoAssignment>>] :
              o \in consumer[c].roster}
      ELSE {<<>>}

Error(generation) == ~Current(Group, generation)

Sync(c) ==
  /\ Ready(c, "joined")
  /\ \E list \in Proposals(c) : SyncGroup(Group, consumer[c].generation, list)
  /\ Respond(c, [kind |-> "sync", error |-> Error(consumer[c].generation),
                 assignment |-> AssignmentOf(meta'.members, consumer[c].id)])
  /\ UNCHANGED <<consumer, losses, crashes, leaves>>

Beat(c) ==
  /\ Ready(c, "active")
  /\ GenerationLeft(Group)
  /\ Heartbeat(Group, consumer[c].generation, consumer[c].id)
  /\ Respond(c, [kind |-> "heartbeat",
                 error |-> Error(consumer[c].generation) \/ meta.state # "Stable"])
  /\ UNCHANGED <<consumer, losses, crashes, leaves>>

\* A refused SyncGroup or Heartbeat sends the consumer back to JoinGroup.
Known(c) ==
  LET r == reply[c]
      k == consumer[c]
  IN  CASE r.kind = "join" ->
             [k EXCEPT !.phase = "joined", !.id = r.id, !.generation = r.generation,
                       !.leads = r.leads, !.roster = IF r.leads THEN r.roster ELSE {}]
        [] r.kind = "sync" /\ ~r.error ->
             [k EXCEPT !.phase = "active", !.assignment = r.assignment, !.roster = {}]
        [] r.kind = "heartbeat" /\ ~r.error -> k
        [] OTHER -> [k EXCEPT !.phase = "out", !.assignment = NoAssignment, !.roster = {},
                              !.leads = FALSE]

Receive(c) ==
  /\ reply[c] # NoReply /\ consumer[c].phase # "dead"
  /\ consumer' = [consumer EXCEPT ![c] = Known(c)]
  /\ Respond(c, NoReply)
  /\ UNCHANGED <<vars, losses, crashes, leaves>>

Lose(c) ==
  /\ reply[c] # NoReply /\ losses < MaxLosses
  /\ losses' = losses + 1
  /\ Respond(c, NoReply)
  /\ UNCHANGED <<vars, consumer, crashes, leaves>>

Leave(c) ==
  /\ Ready(c, "active") /\ leaves < MaxLeaves
  /\ GenerationLeft(Group)
  /\ LeaveGroup(Group, consumer[c].id)
  /\ leaves' = leaves + 1
  /\ consumer' = [consumer EXCEPT ![c].phase = "gone", ![c].assignment = NoAssignment]
  /\ UNCHANGED <<reply, losses, crashes>>

Crash(c) ==
  /\ consumer[c].phase \notin {"gone", "dead"} /\ crashes < MaxCrashes
  /\ crashes' = crashes + 1
  /\ consumer' = [consumer EXCEPT ![c].phase = "dead", ![c].assignment = NoAssignment]
  /\ Respond(c, NoReply)
  /\ UNCHANGED <<vars, losses, leaves>>

Live == {c \in Names : consumer[c].phase \notin {"gone", "dead"}}

\* No live consumer lets its session run out.
Timely ==
  \A i \in DOMAIN meta.members :
    meta.members[i].member_id \in {consumer[c].id : c \in Live}
      => meta.members[i].idle < meta.session_timeout_ms

Consume(c) == Join(c) \/ Sync(c) \/ Beat(c) \/ Receive(c)
Disturb(c) == Lose(c) \/ Leave(c) \/ Crash(c)

\* A live consumer does what it can do: it polls its socket, and its
\* heartbeat thread runs.
Diligent ==
  \A c \in Names : WF_allVars(Join(c) \/ Sync(c) \/ Beat(c)) /\ WF_allVars(Receive(c))

GroupNext == (\E c \in Names : Consume(c) \/ Disturb(c)) \/ (Tick /\ UNCHANGED consumerVars)
GroupSpec == GroupInit /\ [][GroupNext]_allVars /\ Diligent

\* Consumers that keep their sessions besides, while time goes on.
TimelyTick == Timely /\ Tick /\ UNCHANGED consumerVars
TimelyNext == (\E c \in Names : Consume(c) \/ Disturb(c)) \/ TimelyTick
TimelySpec == GroupInit /\ [][TimelyNext]_allVars /\ Diligent /\ WF_allVars(TimelyTick)

-----------------------------------------------------------------------------
\* The type of every variable: the coordinator's, and what the consumers know
\* from its responses.
GroupTypeOK ==
  /\ TypeOK
  /\ consumer \in [Names -> Consumers]
  /\ \A c \in Names : reply[c].kind \in {"none", "join", "sync", "heartbeat"}
  /\ losses \in 0..MaxLosses /\ crashes \in 0..MaxCrashes /\ leaves \in 0..MaxLeaves

\* However late consumers are, whatever responses are lost and whoever
\* crashes or leaves: when the group is Stable, the assignments stored by
\* SyncGroup make at most one member the owner.
SingleOwner ==
  meta.state = "Stable" =>
    \A i, j \in DOMAIN meta.members :
      meta.members[i].assignment = Owner /\ meta.members[j].assignment = Owner => i = j

\* A consumer whose generation the coordinator still accepts is a member: an
\* evicted one is always refused, so it finds out.
AcceptedIsMember ==
  \A c \in Live :
    consumer[c].phase \in {"joined", "active"} /\ consumer[c].generation = meta.generation
      => consumer[c].id \in Ids(meta.members)

\* However late consumers are, a rebalance ends as long as its leader is
\* there: the generation becomes Stable, empties or is overtaken by another
\* rebalance.  The leader is not there when it crashed, or when it is the id
\* in a lost JoinGroup response, which no consumer knows.  (That rebalances
\* stop overtaking each other is not promised: a follower that synced early is
\* refused by Heartbeat, and re-joins after the leader's SyncGroup made the
\* group Stable, which starts the next one.)
RebalanceEnds ==
  \A n \in 1..(MaxGeneration - 1) :
    meta.state = "AwaitingSync" /\ meta.generation = n
      ~> \/ meta.state # "AwaitingSync" \/ meta.generation # n
         \/ Leader(meta) \notin {consumer[c].id : c \in Live}

\* What the README says of Heartbeat (README.md:51): "session timeout
\* eviction".  A member that crashed is removed while others are still there.
\* Only a heartbeat accepted in Stable evicts, and when the leader dies in
\* AwaitingSync no heartbeat is ever accepted again.
DeadAreEvicted ==
  \A c \in Names :
    consumer[c].phase = "dead" ~> \/ consumer[c].id \notin Ids(meta.members)
                                  \/ Live = {}
=============================================================================
