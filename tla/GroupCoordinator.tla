-------------------------- MODULE GroupCoordinator --------------------------
(***************************************************************************)
(* The consumer-group coordinator of the broker: membership, generations,  *)
(* session timeouts and committed offsets.  All reactors share one         *)
(* coordinator and every handler holds its mutex from the first statement  *)
(* to the last, so each handler is one action.                             *)
(*                                                                         *)
(* A request is any value a client can put on the wire; the clients that   *)
(* follow the protocol are added in ConsumerGroup.                         *)
(*                                                                         *)
(* Time: the code only ever looks at now - last_heartbeat and compares it  *)
(* with a session timeout.  A member carries that difference as its idle   *)
(* time; it stops growing at IdleCap, which no session timeout reaches.    *)
(***************************************************************************)
EXTENDS Integers, Sequences, FiniteSets, Vectors

CONSTANTS
  GroupIds,         \* the group ids that clients use
  Names,            \* member ids that clients choose themselves
  Anonymous,        \* the empty member id of a first JoinGroup
  Assignments,      \* the assignment blobs
  NoAssignment,     \* the empty blob
  SessionTimeouts,  \* the session_timeout_ms values clients send
  DefaultTimeout,   \* session_timeout_ms of a group nobody joined yet
  IdleCap,          \* idle times beyond this are not told apart
  Partitions,       \* the topic partitions offsets are committed for
  Offsets,          \* the offsets clients commit
  MaxAssignments,   \* bound: assignments in one SyncGroup request
  MaxGeneration,    \* bound: generations explored
  MaxMemberIds      \* bound: member ids the coordinator hands out

ASSUME CoordinatorAssumption ==
  /\ Anonymous \notin Names \cup Nat
  /\ NoAssignment \in Assignments
  /\ DefaultTimeout \in SessionTimeouts
  /\ SessionTimeouts \subseteq Int
  /\ IdleCap \in Nat
  /\ \A t \in SessionTimeouts : t < IdleCap
  /\ Offsets \subseteq Nat
  /\ MaxAssignments \in Nat
  /\ MaxGeneration \in Nat
  /\ MaxMemberIds \in Nat

\* The id "member-<n>" that the coordinator generates is the number n.
MemberIds == Names \cup (1..MaxMemberIds)

GroupStates == {"Empty", "AwaitingSync", "Stable"}

MemberInfo == [member_id: MemberIds, assignment: Assignments, idle: 0..IdleCap]

GroupMetadata == [state: GroupStates, generation: Nat,
                  session_timeout_ms: SessionTimeouts, members: Seq(MemberInfo)]

VARIABLES
  groups,             \* groups_: the metadata of each group
  created,            \* the keys present in groups_
  committed_offsets,  \* the offset store of each group, -1 where it has none
  next_member_id      \* next_member_id_

vars == <<groups, created, committed_offsets, next_member_id>>

NewGroup == [state |-> "Empty", generation |-> 0,
             session_timeout_ms |-> DefaultTimeout, members |-> <<>>]

Init ==
  /\ groups = [g \in GroupIds |-> NewGroup]
  /\ created = {}
  /\ committed_offsets = [g \in GroupIds |-> [p \in Partitions |-> -1]]
  /\ next_member_id = 0

-----------------------------------------------------------------------------
Ids(members) == {members[i].member_id : i \in DOMAIN members}

\* members[0], whom JoinGroup names as the leader.
Leader(meta) == meta.members[1].member_id

Joined(id, assignment) ==
  [member_id |-> id, assignment |-> assignment, idle |-> 0]

\* last_heartbeat = now for the member with this id, if there is one.
Refresh(members, id) ==
  [i \in DOMAIN members |->
     IF members[i].member_id = id THEN [members[i] EXCEPT !.idle = 0] ELSE members[i]]

\* The assignment blob a SyncGroup response carries back to the member id.
AssignmentOf(members, id) ==
  IF id \in Ids(members)
  THEN members[CHOOSE i \in DOMAIN members : members[i].member_id = id].assignment
  ELSE NoAssignment

-----------------------------------------------------------------------------
(***************************************************************************)
(* What each handler makes of the metadata of its group.                   *)
(***************************************************************************)

\* Mutant: the first join does not number the generation.
AfterJoinUnnumbered(meta, id, timeout) ==
  [state |-> "AwaitingSync",
   generation |-> IF meta.state = "Stable" THEN meta.generation + 1 ELSE meta.generation,
   session_timeout_ms |-> timeout,
   members |-> IF id \in Ids(meta.members) THEN Refresh(meta.members, id)
               ELSE Append(meta.members, Joined(id, NoAssignment))]

\* Mutant: a re-join erases the old entry and pushes a new one back.
AfterJoinRequeued(meta, id, timeout) ==
  [state |-> "AwaitingSync",
   generation |-> IF meta.generation = 0 THEN 1
                  ELSE IF meta.state = "Stable" THEN meta.generation + 1
                  ELSE meta.generation,
   session_timeout_ms |-> timeout,
   members |-> Append(Pick(meta.members,
                           {i \in DOMAIN meta.members : meta.members[i].member_id # id}),
                      Joined(id, NoAssignment))]

AfterJoin(meta, id, timeout) ==
  [state |-> "AwaitingSync",
   generation |-> IF meta.generation = 0 THEN 1
                  ELSE IF meta.state = "Stable" THEN meta.generation + 1
                  ELSE meta.generation,
   session_timeout_ms |-> timeout,
   members |-> IF id \in Ids(meta.members) THEN Refresh(meta.members, id)
               ELSE Append(meta.members, Joined(id, NoAssignment))]

\* The request lists <<member id, blob>> pairs.  The loop over them lets a
\* later pair overwrite an earlier one and adds an unknown id at its first
\* appearance.
LastFor(list, id) ==
  list[CHOOSE i \in DOMAIN list :
         /\ list[i][1] = id
         /\ \A j \in DOMAIN list : list[j][1] = id => j <= i][2]

\* Mutant: the scan misses the members this very request added.
FirstUnknownRescanned(list, members) ==
  {i \in DOMAIN list : list[i][1] \notin Ids(members)}

FirstUnknown(list, members) ==
  {i \in DOMAIN list : /\ list[i][1] \notin Ids(members)
                       /\ \A j \in DOMAIN list : list[j][1] = list[i][1] => i <= j}

ListedIds(list) == {list[i][1] : i \in DOMAIN list}

Reassigned(members, list) ==
  [i \in DOMAIN members |->
     IF members[i].member_id \in ListedIds(list)
     THEN [members[i] EXCEPT !.assignment = LastFor(list, members[i].member_id)]
     ELSE members[i]]

AddedBySync(members, list) ==
  LET unknown == Pick(list, FirstUnknown(list, members))
  IN  [i \in DOMAIN unknown |-> Joined(unknown[i][1], LastFor(list, unknown[i][1]))]

\* The fields that SyncGroup, Heartbeat and LeaveGroup write.
Updated(meta, state, generation, members) ==
  [state |-> state, generation |-> generation,
   session_timeout_ms |-> meta.session_timeout_ms, members |-> members]

\* Mutant: an empty blob does not overwrite an assignment.
AfterSyncKeepsOld(meta, list) ==
  LET given == Pick(list, {i \in DOMAIN list : list[i][2] # NoAssignment})
  IN  Updated(meta, "Stable", meta.generation,
              Reassigned(meta.members, given) \o AddedBySync(meta.members, list))

\* Mutant: the group goes on waiting.
AfterSyncStillAwaits(meta, list) ==
  Updated(meta, meta.state, meta.generation,
          Reassigned(meta.members, list) \o AddedBySync(meta.members, list))

AfterSync(meta, list) ==
  Updated(meta, "Stable", meta.generation,
          Reassigned(meta.members, list) \o AddedBySync(meta.members, list))

\* Mutant: the group of the last member that goes also awaits a sync.
AfterRemovalNeverEmpty(meta, remaining) ==
  IF Len(remaining) < Len(meta.members)
  THEN Updated(meta, "AwaitingSync", meta.generation + 1, remaining)
  ELSE Updated(meta, meta.state, meta.generation, remaining)

\* Mutant: a rebalance without a new generation.
AfterRemovalUnfenced(meta, remaining) ==
  IF remaining = <<>> THEN Updated(meta, "Empty", meta.generation, <<>>)
  ELSE IF Len(remaining) < Len(meta.members)
       THEN Updated(meta, "AwaitingSync", meta.generation, remaining)
       ELSE Updated(meta, meta.state, meta.generation, remaining)

\* A group that lost members: Empty without a new generation when the last
\* one went, otherwise a rebalance.
AfterRemoval(meta, remaining) ==
  IF remaining = <<>> THEN Updated(meta, "Empty", meta.generation, <<>>)
  ELSE IF Len(remaining) < Len(meta.members)
       THEN Updated(meta, "AwaitingSync", meta.generation + 1, remaining)
       ELSE Updated(meta, meta.state, meta.generation, remaining)

\* Mutant: >= instead of > in the eviction test.
AliveStrictly(members, timeout) == {i \in DOMAIN members : members[i].idle < timeout}

Alive(members, timeout) == {i \in DOMAIN members : members[i].idle <= timeout}

AfterHeartbeat(meta, id) ==
  LET refreshed == Refresh(meta.members, id)
  IN  AfterRemoval(meta, Pick(refreshed, Alive(refreshed, meta.session_timeout_ms)))

AfterLeave(meta, id) ==
  AfterRemoval(meta, Pick(meta.members,
                          {i \in DOMAIN meta.members : meta.members[i].member_id # id}))

-----------------------------------------------------------------------------
(***************************************************************************)
(* The handlers.                                                           *)
(***************************************************************************)

\* SyncGroup and Heartbeat answer 82 unless the group exists and the request
\* carries its current generation.
Current(g, generation) == g \in created /\ groups[g].generation = generation

\* Mutant: an empty member id is kept.
JoinGroupNameless(g, id, timeout) ==
  /\ created' = created \cup {g}
  /\ groups' = [groups EXCEPT ![g] = AfterJoin(@, id, timeout)]
  /\ UNCHANGED <<committed_offsets, next_member_id>>

JoinGroup(g, id, timeout) ==
  LET member == IF id = Anonymous THEN next_member_id + 1 ELSE id
  IN  /\ next_member_id' = IF id = Anonymous THEN next_member_id + 1 ELSE next_member_id
      /\ created' = created \cup {g}
      /\ groups' = [groups EXCEPT ![g] = AfterJoin(@, member, timeout)]
      /\ UNCHANGED committed_offsets

\* Only a request that lists assignments changes the group; one without them
\* reads the requester's assignment whatever the state is.
SyncGroup(g, generation, list) ==
  /\ IF Current(g, generation) /\ list # <<>>
     THEN groups' = [groups EXCEPT ![g] = AfterSync(@, list)]
     ELSE UNCHANGED groups
  /\ UNCHANGED <<created, committed_offsets, next_member_id>>

Heartbeat(g, generation, id) ==
  /\ IF Current(g, generation) /\ groups[g].state = "Stable"
     THEN groups' = [groups EXCEPT ![g] = AfterHeartbeat(@, id)]
     ELSE UNCHANGED groups
  /\ UNCHANGED <<created, committed_offsets, next_member_id>>

LeaveGroup(g, id) ==
  /\ IF g \in created /\ id \in Ids(groups[g].members)
     THEN groups' = [groups EXCEPT ![g] = AfterLeave(@, id)]
     ELSE UNCHANGED groups
  /\ UNCHANGED <<created, committed_offsets, next_member_id>>

\* Mutant: the position after the committed one is stored.
OffsetCommitNext(g, offsets) ==
  /\ created' = created \cup {g}
  /\ committed_offsets' =
       [committed_offsets EXCEPT ![g] =
          [p \in Partitions |-> IF p \in DOMAIN offsets THEN offsets[p] + 1 ELSE @[p]]]
  /\ UNCHANGED <<groups, next_member_id>>

\* The group is created when it is missing; neither the generation nor the
\* member of the request is looked at.
OffsetCommit(g, offsets) ==
  /\ created' = created \cup {g}
  /\ committed_offsets' =
       [committed_offsets EXCEPT ![g] =
          [p \in Partitions |-> IF p \in DOMAIN offsets THEN offsets[p] ELSE @[p]]]
  /\ UNCHANGED <<groups, next_member_id>>

\* Reading also creates the group.
OffsetFetch(g) ==
  /\ created' = created \cup {g}
  /\ UNCHANGED <<groups, committed_offsets, next_member_id>>

\* Time passes.
Aged(members) ==
  [i \in DOMAIN members |->
     [members[i] EXCEPT !.idle = IF @ < IdleCap THEN @ + 1 ELSE IdleCap]]

Tick ==
  /\ groups' = [g \in GroupIds |-> [groups[g] EXCEPT !.members = Aged(@)]]
  /\ UNCHANGED <<created, committed_offsets, next_member_id>>

AssignmentLists ==
  UNION {[1..n -> MemberIds \X Assignments] : n \in 0..MaxAssignments}

\* Bounds of the exploration.
GenerationLeft(g) == groups[g].generation < MaxGeneration
MemberIdLeft(id) == id = Anonymous => next_member_id < MaxMemberIds

Next ==
  \/ \E g \in GroupIds :
       \/ \E id \in MemberIds \cup {Anonymous}, t \in SessionTimeouts :
            GenerationLeft(g) /\ MemberIdLeft(id) /\ JoinGroup(g, id, t)
       \/ \E n \in 0..MaxGeneration, list \in AssignmentLists : SyncGroup(g, n, list)
       \/ \E n \in 0..MaxGeneration, id \in MemberIds :
            GenerationLeft(g) /\ Heartbeat(g, n, id)
       \/ \E id \in MemberIds : GenerationLeft(g) /\ LeaveGroup(g, id)
       \/ \E S \in SUBSET Partitions : \E offsets \in [S -> Offsets] :
            OffsetCommit(g, offsets)
       \/ OffsetFetch(g)
  \/ Tick

Spec == Init /\ [][Next]_vars

-----------------------------------------------------------------------------
(***************************************************************************)
(* Properties.                                                             *)
(***************************************************************************)

\* The type of every variable: member ids are known ones and generations
\* never negative.
TypeOK ==
  /\ groups \in [GroupIds -> GroupMetadata]
  /\ created \subseteq GroupIds
  /\ committed_offsets \in [GroupIds -> [Partitions -> Offsets \cup {-1}]]
  /\ next_member_id \in 0..MaxMemberIds

\* No two entries of a group's member vector have the same id, although
\* JoinGroup and SyncGroup both push_back, from different scans, and a
\* SyncGroup request may list one unknown id twice.
UniqueMembers ==
  \A g \in GroupIds : \A i, j \in DOMAIN groups[g].members :
    groups[g].members[i].member_id = groups[g].members[j].member_id => i = j

\* The state is Empty exactly when there are no members: the handlers set the
\* two separately (join, sync, the eviction of a heartbeat, leave).
EmptyIffNoMembers ==
  \A g \in GroupIds : groups[g].state = "Empty" <=> groups[g].members = <<>>

\* A group that waits for its leader has a generation to wait in: the 0 of a
\* group that only offset requests created never asks for a SyncGroup.
AwaitingSyncIsNumbered ==
  \A g \in GroupIds : groups[g].state = "AwaitingSync" => groups[g].generation >= 1

\* No handler takes a generation back, and whenever a member disappears from
\* a group, by LeaveGroup or by the eviction in Heartbeat, either a new
\* generation fences those who still count on it, or nobody is left.
RemovalFences ==
  [][\A g \in GroupIds :
       /\ groups'[g].generation >= groups[g].generation
       /\ ~(Ids(groups[g].members) \subseteq Ids(groups'[g].members))
            => \/ groups'[g].generation > groups[g].generation
               \/ groups'[g].state = "Empty"]_vars

\* While a generation lasts and the group is not empty, members[0] stays the
\* same: all JoinGroup responses of the generation name one leader.
LeaderKept ==
  [][\A g \in GroupIds :
       /\ groups[g].members # <<>>
       /\ groups'[g].members # <<>>
       /\ groups'[g].generation = groups[g].generation
       => Leader(groups'[g]) = Leader(groups[g])]_vars

\* A member only disappears by its own LeaveGroup or after it was silent for
\* longer than the session timeout of the group: the erase_if of somebody
\* else's heartbeat never takes a live member, wherever it is in the vector.
EvictedOnlyWhenIdle ==
  [][\A g \in GroupIds : \A i \in DOMAIN groups[g].members :
       LET m == groups[g].members[i]
       IN  m.member_id \notin Ids(groups'[g].members)
             => \/ LeaveGroup(g, m.member_id)
                \/ m.idle > groups[g].session_timeout_ms]_vars
=============================================================================
