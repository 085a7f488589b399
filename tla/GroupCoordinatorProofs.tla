----------------------- MODULE GroupCoordinatorProofs -----------------------
(***************************************************************************)
(* Safety of the group coordinator for any number of groups, members,      *)
(* generations and requests.  Every handler is a function of the metadata  *)
(* of one group, so the proofs are lemmas about those functions:           *)
(* Good is the inductive invariant of one group, Lawful relates its        *)
(* metadata before and after a handler.                                    *)
(***************************************************************************)
EXTENDS GroupCoordinator, VectorsProofs, SequenceTheorems

UniqueIds(members) ==
  \A i, j \in DOMAIN members : members[i].member_id = members[j].member_id => i = j

Good(meta) ==
  /\ meta \in GroupMetadata
  /\ UniqueIds(meta.members)
  /\ meta.state = "Empty" <=> meta.members = <<>>
  /\ meta.state = "AwaitingSync" => meta.generation >= 1

Lawful(meta, new) ==
  /\ new.generation >= meta.generation
  /\ ~(Ids(meta.members) \subseteq Ids(new.members))
       => new.generation > meta.generation \/ new.state = "Empty"
  /\ (meta.members # <<>> /\ new.members # <<>> /\ new.generation = meta.generation)
       => Leader(new) = Leader(meta)

-----------------------------------------------------------------------------
\* Refreshing a timestamp keeps length, ids and types.
LEMMA RefreshProperties ==
  ASSUME NEW members \in Seq(MemberInfo), NEW id
  PROVE  /\ Refresh(members, id) \in Seq(MemberInfo)
         /\ Len(Refresh(members, id)) = Len(members)
         /\ DOMAIN Refresh(members, id) = DOMAIN members
         /\ \A i \in DOMAIN members :
              /\ Refresh(members, id)[i].member_id = members[i].member_id
              /\ Refresh(members, id)[i].idle \in {0, members[i].idle}
<1>1. IdleCap \in Nat
  BY CoordinatorAssumption
<1> DEFINE r == Refresh(members, id)
<1>2. DOMAIN r = 1..Len(members)
  BY DEF Refresh
<1>3. ASSUME NEW i \in 1..Len(members)
      PROVE  /\ r[i] \in MemberInfo
             /\ r[i].member_id = members[i].member_id
             /\ r[i].idle \in {0, members[i].idle}
  <2>1. members[i] \in MemberInfo
    OBVIOUS
  <2>2. r[i] = IF members[i].member_id = id THEN [members[i] EXCEPT !.idle = 0] ELSE members[i]
    BY DEF Refresh
  <2> HIDE DEF r
  <2> QED BY <1>1, <2>1, <2>2 DEF MemberInfo
<1>4. r = [i \in 1..Len(members) |-> r[i]]
  BY <1>2 DEF Refresh
<1> HIDE DEF r
<1>5. r \in Seq(MemberInfo) /\ Len(r) = Len(members)
  BY <1>2, <1>3, <1>4
<1> QED BY <1>2, <1>3, <1>5 DEF r

\* Equal lists of ids: neither uniqueness nor the set of ids changes.
LEMMA SameIds ==
  ASSUME NEW members, NEW new, DOMAIN new = DOMAIN members,
         \A i \in DOMAIN members : new[i].member_id = members[i].member_id
  PROVE  /\ Ids(new) = Ids(members)
         /\ UniqueIds(members) => UniqueIds(new)
BY DEF Ids, UniqueIds

-----------------------------------------------------------------------------
\* JoinGroup: the group stays well formed, no member is lost, and whoever
\* joins, the first member stays first.
LEMMA JoinKeeps ==
  ASSUME NEW meta, Good(meta), NEW id \in MemberIds, NEW t \in SessionTimeouts
  PROVE  Good(AfterJoin(meta, id, t)) /\ Lawful(meta, AfterJoin(meta, id, t))
<1> DEFINE new == AfterJoin(meta, id, t)
           old == meta.members
<1>0. /\ old \in Seq(MemberInfo) /\ meta.generation \in Nat /\ UniqueIds(old)
      /\ meta.state = "Empty" <=> old = <<>>
  BY DEF Good, GroupMetadata
<1>1. /\ new.members \in Seq(MemberInfo) /\ UniqueIds(new.members) /\ new.members # <<>>
      /\ Ids(old) \subseteq Ids(new.members)
      /\ old # <<>> => new.members[1].member_id = old[1].member_id
  <2>1. CASE id \in Ids(old)
    <3>1. new.members = Refresh(old, id)
      BY <2>1 DEF AfterJoin
    <3>2. old # <<>>
      BY <2>1 DEF Ids
    <3> QED BY <1>0, <3>1, <3>2, RefreshProperties, SameIds
  <2>2. CASE id \notin Ids(old)
    <3> DEFINE m == Joined(id, NoAssignment)
    <3>1. new.members = Append(old, m)
      BY <2>2 DEF AfterJoin
    <3>2. m \in MemberInfo /\ m.member_id = id
      BY CoordinatorAssumption DEF Joined, MemberInfo
    <3>3. /\ Append(old, m) \in Seq(MemberInfo) /\ Len(Append(old, m)) = Len(old) + 1
          /\ \A i \in 1..Len(old) : Append(old, m)[i] = old[i]
          /\ Append(old, m)[Len(old) + 1] = m
      BY <1>0, <3>2
    <3> HIDE DEF m
    <3>4. \A i \in 1..Len(old) : old[i].member_id # id
      BY <1>0, <2>2 DEF Ids
    <3>5. UniqueIds(Append(old, m))
      BY <1>0, <3>2, <3>3, <3>4 DEF UniqueIds
    <3>6. Ids(old) \subseteq Ids(Append(old, m))
      BY <1>0, <3>3 DEF Ids
    <3>7. Append(old, m) # <<>> /\ (old # <<>> => Append(old, m)[1] = old[1])
      BY <1>0, <3>3
    <3> QED BY <3>1, <3>3, <3>5, <3>6, <3>7
  <2> QED BY <2>1, <2>2
<1>2. /\ new \in GroupMetadata /\ new.state = "AwaitingSync" /\ new.generation >= 1
      /\ new.generation >= meta.generation
  BY <1>0, <1>1 DEF AfterJoin, GroupMetadata, GroupStates
<1> HIDE DEF new
<1>3. Good(new)
  BY <1>1, <1>2 DEF Good
<1>4. Lawful(meta, new)
  BY <1>1, <1>2 DEF Lawful, Leader
<1> QED BY <1>3, <1>4 DEF new

-----------------------------------------------------------------------------
\* Removing members, by LeaveGroup or by eviction: base is the vector, with
\* refreshed timestamps or not, and K the indices that stay.
LEMMA RemovalKeeps ==
  ASSUME NEW meta, Good(meta), NEW base \in Seq(MemberInfo),
         DOMAIN base = DOMAIN meta.members, Len(base) = Len(meta.members),
         \A i \in DOMAIN base : base[i].member_id = meta.members[i].member_id,
         NEW K, K \subseteq DOMAIN base
  PROVE  /\ Good(AfterRemoval(meta, Pick(base, K)))
         /\ Lawful(meta, AfterRemoval(meta, Pick(base, K)))
<1> DEFINE old == meta.members
           p == Pick(base, K)
           new == AfterRemoval(meta, p)
<1> SUFFICES Good(new) /\ Lawful(meta, new)
  OBVIOUS
<1>0. /\ meta \in GroupMetadata /\ old \in Seq(MemberInfo) /\ meta.generation \in Nat
      /\ UniqueIds(old)
      /\ meta.state = "Empty" <=> old = <<>>
      /\ meta.state = "AwaitingSync" => meta.generation >= 1
  BY DEF Good, GroupMetadata
<1>1. UniqueIds(base) /\ Ids(base) = Ids(old)
  BY <1>0, SameIds
<1>2. /\ p \in Seq(MemberInfo)
      /\ \A k \in DOMAIN p : Nth(K, k) \in K /\ p[k] = base[Nth(K, k)]
      /\ \A k, l \in DOMAIN p : Nth(K, k) = Nth(K, l) => k = l
      /\ \A i \in K : Rank(K, i) \in DOMAIN p /\ p[Rank(K, i)] = base[i]
      /\ Len(p) <= Len(base)
      /\ Len(p) = Len(base) => K = DOMAIN base
      /\ 1 \in K => p[1] = base[1]
  BY PickProperties
<1> HIDE DEF p
<1>3. UniqueIds(p)
  BY <1>1, <1>2 DEF UniqueIds
<1>4. CASE p = <<>>
  <2>1. new = Updated(meta, "Empty", meta.generation, <<>>)
    BY <1>4 DEF AfterRemoval
  <2> HIDE DEF new
  <2>2. /\ new \in GroupMetadata /\ new.members = <<>> /\ new.state = "Empty"
        /\ new.generation = meta.generation
    <3>1. <<>> \in Seq(MemberInfo) /\ "Empty" \in GroupStates
      BY DEF GroupStates
    <3>2. meta \in GroupMetadata /\ meta.generation \in Nat
      BY <1>0
    <3> QED BY <2>1, <3>1, <3>2 DEF Updated, GroupMetadata
  <2>3. UniqueIds(<<>>)
    BY DEF UniqueIds
  <2> QED BY <1>0, <2>2, <2>3 DEF Good, Lawful
<1>5. CASE p # <<>> /\ Len(p) < Len(old)
  <2>1. new = Updated(meta, "AwaitingSync", meta.generation + 1, p)
    BY <1>5 DEF AfterRemoval
  <2> HIDE DEF new
  <2>2. /\ new \in GroupMetadata /\ new.members = p /\ new.state = "AwaitingSync"
        /\ new.generation = meta.generation + 1
    <3>1. meta.generation + 1 \in Nat /\ "AwaitingSync" \in GroupStates
      BY <1>0 DEF GroupStates
    <3>2. meta \in GroupMetadata /\ meta.generation \in Nat /\ p \in Seq(MemberInfo)
      BY <1>0, <1>2
    <3> QED BY <2>1, <3>1, <3>2 DEF Updated, GroupMetadata
  <2> QED BY <1>0, <1>3, <1>5, <2>2 DEF Good, Lawful
<1>6. CASE p # <<>> /\ ~(Len(p) < Len(old))
  <2>1. new = Updated(meta, meta.state, meta.generation, p)
    BY <1>6 DEF AfterRemoval
  <2> HIDE DEF new
  <2>2. /\ new \in GroupMetadata /\ new.members = p /\ new.state = meta.state
        /\ new.generation = meta.generation
    <3>1. meta.state \in GroupStates
      BY <1>0 DEF GroupMetadata
    <3>2. meta \in GroupMetadata /\ meta.generation \in Nat /\ p \in Seq(MemberInfo)
      BY <1>0, <1>2
    <3> QED BY <2>1, <3>1, <3>2 DEF Updated, GroupMetadata
  <2>3. K = DOMAIN base
    BY <1>0, <1>2, <1>6
  <2>4. Ids(old) \subseteq Ids(p)
    <3> SUFFICES ASSUME NEW i \in DOMAIN old
                 PROVE  \E k \in DOMAIN p : p[k].member_id = old[i].member_id
      BY DEF Ids
    <3>1. i \in K /\ base[i].member_id = old[i].member_id
      BY <2>3
    <3>2. Rank(K, i) \in DOMAIN p /\ p[Rank(K, i)] = base[i]
      BY <1>2, <3>1
    <3> QED BY <3>1, <3>2
  <2>5. old # <<>> /\ 1 \in DOMAIN base
    BY <1>0, <1>2, <1>6
  <2>6. p[1].member_id = old[1].member_id
    BY <1>2, <2>3, <2>5
  <2>7. Good(new)
    BY <1>0, <1>3, <1>6, <2>2, <2>5 DEF Good
  <2>8. Lawful(meta, new)
    BY <1>0, <2>2, <2>4, <2>6 DEF Lawful, Leader
  <2> QED BY <2>7, <2>8
<1> QED BY <1>4, <1>5, <1>6

\* Heartbeat: refreshing and then evicting.
LEMMA HeartbeatKeeps ==
  ASSUME NEW meta, Good(meta), NEW id
  PROVE  Good(AfterHeartbeat(meta, id)) /\ Lawful(meta, AfterHeartbeat(meta, id))
<1> DEFINE base == Refresh(meta.members, id)
           K == Alive(base, meta.session_timeout_ms)
<1>1. meta.members \in Seq(MemberInfo)
  BY DEF Good, GroupMetadata
<1>2. /\ base \in Seq(MemberInfo) /\ DOMAIN base = DOMAIN meta.members
      /\ Len(base) = Len(meta.members)
      /\ \A i \in DOMAIN base : base[i].member_id = meta.members[i].member_id
  BY <1>1, RefreshProperties
<1>3. K \subseteq DOMAIN base
  BY DEF Alive
<1>4. AfterHeartbeat(meta, id) = AfterRemoval(meta, Pick(base, K))
  BY DEF AfterHeartbeat
<1> HIDE DEF base, K
<1> QED BY <1>2, <1>3, <1>4, RemovalKeeps

\* LeaveGroup: everybody but the leaving member stays.
LEMMA LeaveKeeps ==
  ASSUME NEW meta, Good(meta), NEW id
  PROVE  Good(AfterLeave(meta, id)) /\ Lawful(meta, AfterLeave(meta, id))
<1> DEFINE K == {i \in DOMAIN meta.members : meta.members[i].member_id # id}
<1>1. meta.members \in Seq(MemberInfo)
  BY DEF Good, GroupMetadata
<1>2. K \subseteq DOMAIN meta.members
  OBVIOUS
<1>3. AfterLeave(meta, id) = AfterRemoval(meta, Pick(meta.members, K))
  BY DEF AfterLeave
<1> HIDE DEF K
<1> QED BY <1>1, <1>2, <1>3, RemovalKeeps

-----------------------------------------------------------------------------
\* A listed id has a last entry in the list, so LastFor is an assignment.
LEMMA LastForType ==
  ASSUME NEW list \in Seq(MemberIds \X Assignments), NEW id \in ListedIds(list)
  PROVE  LastFor(list, id) \in Assignments
<1> DEFINE n == Len(list)
           I == {i \in 1..n : list[i][1] = id}
           T == {d \in 0..n : n - d \in I}
<1>1. n \in Nat /\ DOMAIN list = 1..n
  OBVIOUS
<1>2. PICK i0 \in 1..n : list[i0][1] = id
  BY <1>1 DEF ListedIds
<1>3. T \subseteq Nat /\ T # {}
  <2>1. n - i0 \in 0..n /\ n - (n - i0) = i0
    BY <1>1, <1>2
  <2>2. n - i0 \in T
    BY <1>2, <2>1
  <2>3. \A d \in T : d \in Nat
    BY <1>1
  <2> HIDE DEF T
  <2> QED BY <2>2, <2>3
<1>4. PICK d \in T : \A e \in T : d <= e
  <2> HIDE DEF T
  <2> QED BY <1>3, LeastNatural
<1>5. n - d \in I /\ d \in 0..n
  BY <1>4
<1>6. ASSUME NEW j \in I PROVE j <= n - d
  <2>1. n - j \in 0..n /\ n - (n - j) = j
    BY <1>1
  <2>2. n - j \in T
    BY <2>1
  <2>3. d <= n - j
    BY <1>4, <2>2
  <2> QED BY <1>1, <1>5, <2>3
<1>7. \E i \in DOMAIN list : /\ list[i][1] = id
                            /\ \A j \in DOMAIN list : list[j][1] = id => j <= i
  BY <1>1, <1>5, <1>6
<1> DEFINE l == CHOOSE i \in DOMAIN list :
                  /\ list[i][1] = id
                  /\ \A j \in DOMAIN list : list[j][1] = id => j <= i
<1>8. l \in DOMAIN list
  BY <1>7
<1>9. LastFor(list, id) = list[l][2]
  BY DEF LastFor
<1> HIDE DEF l
<1> QED BY <1>8, <1>9

\* SyncGroup with assignments, the update of known members: same ids.
LEMMA ReassignedProperties ==
  ASSUME NEW members \in Seq(MemberInfo), NEW list \in Seq(MemberIds \X Assignments)
  PROVE  /\ Reassigned(members, list) \in Seq(MemberInfo)
         /\ Len(Reassigned(members, list)) = Len(members)
         /\ DOMAIN Reassigned(members, list) = DOMAIN members
         /\ \A i \in DOMAIN members :
              Reassigned(members, list)[i].member_id = members[i].member_id
<1> DEFINE r == Reassigned(members, list)
<1>1. DOMAIN r = 1..Len(members)
  BY DEF Reassigned
<1>2. ASSUME NEW i \in 1..Len(members)
      PROVE  r[i] \in MemberInfo /\ r[i].member_id = members[i].member_id
  <2>1. members[i] \in MemberInfo
    OBVIOUS
  <2>2. r[i] = IF members[i].member_id \in ListedIds(list)
               THEN [members[i] EXCEPT !.assignment = LastFor(list, members[i].member_id)]
               ELSE members[i]
    BY DEF Reassigned
  <2>3. members[i].member_id \in ListedIds(list)
          => LastFor(list, members[i].member_id) \in Assignments
    BY LastForType
  <2> HIDE DEF r
  <2> QED BY <2>1, <2>2, <2>3 DEF MemberInfo
<1>3. r = [i \in 1..Len(members) |-> r[i]]
  BY <1>1 DEF Reassigned
<1> HIDE DEF r
<1>4. r \in Seq(MemberInfo) /\ Len(r) = Len(members)
  BY <1>1, <1>2, <1>3
<1> QED BY <1>1, <1>2, <1>4 DEF r

\* SyncGroup with assignments, the unknown ids: each is added once.
LEMMA AddedProperties ==
  ASSUME NEW members \in Seq(MemberInfo), NEW list \in Seq(MemberIds \X Assignments)
  PROVE  /\ AddedBySync(members, list) \in Seq(MemberInfo)
         /\ UniqueIds(AddedBySync(members, list))
         /\ \A i \in DOMAIN AddedBySync(members, list) :
              AddedBySync(members, list)[i].member_id \notin Ids(members)
         /\ (members = <<>> /\ list # <<>>) => AddedBySync(members, list) # <<>>
<1> DEFINE K == FirstUnknown(list, members)
           u == Pick(list, K)
           a == AddedBySync(members, list)
<1>1. K \subseteq DOMAIN list
  BY DEF FirstUnknown
<1>2. /\ u \in Seq(MemberIds \X Assignments)
      /\ \A k \in DOMAIN u : Nth(K, k) \in K /\ u[k] = list[Nth(K, k)]
      /\ \A k, l \in DOMAIN u : Nth(K, k) = Nth(K, l) => k = l
      /\ u = <<>> <=> K = {}
  <2> HIDE DEF K
  <2> QED BY <1>1, PickProperties
<1>3. a = [i \in DOMAIN u |-> Joined(u[i][1], LastFor(list, u[i][1]))]
  BY DEF AddedBySync
<1> HIDE DEF u, a
<1>4. ASSUME NEW k \in DOMAIN u
      PROVE  a[k] \in MemberInfo /\ a[k].member_id = list[Nth(K, k)][1]
  <2>1. u[k] = list[Nth(K, k)] /\ Nth(K, k) \in DOMAIN list /\ u[k][1] \in MemberIds
    BY <1>1, <1>2
  <2>2. u[k][1] \in ListedIds(list)
    BY <2>1 DEF ListedIds
  <2>3. LastFor(list, u[k][1]) \in Assignments
    BY <2>2, LastForType
  <2>4. a[k] = Joined(u[k][1], LastFor(list, u[k][1]))
    BY <1>3
  <2>5. IdleCap \in Nat
    BY CoordinatorAssumption
  <2> QED BY <2>1, <2>3, <2>4, <2>5 DEF Joined, MemberInfo
<1>5. DOMAIN a = DOMAIN u /\ DOMAIN u = 1..Len(u) /\ Len(u) \in Nat
  BY <1>2, <1>3
<1>6. a \in Seq(MemberInfo)
  <2>1. a = [i \in 1..Len(u) |-> a[i]]
    BY <1>3, <1>5
  <2> QED BY <1>4, <1>5, <2>1
<1>7. UniqueIds(a)
  <2> SUFFICES ASSUME NEW k \in DOMAIN u, NEW l \in DOMAIN u,
                      a[k].member_id = a[l].member_id
               PROVE  k = l
    BY <1>5 DEF UniqueIds
  <2>1. list[Nth(K, k)][1] = list[Nth(K, l)][1]
    BY <1>4
  <2>2. Nth(K, k) \in K /\ Nth(K, l) \in K
    BY <1>2
  <2>3. Nth(K, k) <= Nth(K, l) /\ Nth(K, l) <= Nth(K, k)
    BY <2>1, <2>2 DEF FirstUnknown
  <2>4. Nth(K, k) \in Nat /\ Nth(K, l) \in Nat
    BY <1>1, <2>2
  <2>5. Nth(K, k) = Nth(K, l)
    BY <2>3, <2>4
  <2> QED BY <1>2, <2>5
<1>8. \A k \in DOMAIN a : a[k].member_id \notin Ids(members)
  BY <1>2, <1>4, <1>5 DEF FirstUnknown
<1>9. (members = <<>> /\ list # <<>>) => a # <<>>
  <2> SUFFICES ASSUME members = <<>>, list # <<>> PROVE a # <<>>
    OBVIOUS
  <2>1. 1 \in DOMAIN list /\ \A j \in DOMAIN list : 1 <= j
    OBVIOUS
  <2>2. Ids(members) = {}
    BY DEF Ids
  <2>3. 1 \in K
    BY <2>1, <2>2 DEF FirstUnknown
  <2>4. u # <<>>
    BY <1>2, <2>3
  <2> QED BY <1>2, <1>5, <1>6, <2>4
<1> QED BY <1>6, <1>7, <1>8, <1>9 DEF a

\* SyncGroup with assignments keeps the group well formed and its leader.
LEMMA SyncKeeps ==
  ASSUME NEW meta, Good(meta), NEW list \in Seq(MemberIds \X Assignments), list # <<>>
  PROVE  Good(AfterSync(meta, list)) /\ Lawful(meta, AfterSync(meta, list))
<1> DEFINE old == meta.members
           r == Reassigned(old, list)
           a == AddedBySync(old, list)
           ms == r \o a
           new == AfterSync(meta, list)
<1>0. /\ meta \in GroupMetadata /\ old \in Seq(MemberInfo) /\ meta.generation \in Nat
      /\ UniqueIds(old)
  BY DEF Good, GroupMetadata
<1>1. /\ r \in Seq(MemberInfo) /\ Len(r) = Len(old) /\ DOMAIN r = DOMAIN old
      /\ \A i \in DOMAIN old : r[i].member_id = old[i].member_id
  BY <1>0, ReassignedProperties
<1>2. UniqueIds(r) /\ Ids(r) = Ids(old)
  BY <1>0, <1>1, SameIds
<1>3. /\ a \in Seq(MemberInfo) /\ UniqueIds(a)
      /\ \A i \in DOMAIN a : a[i].member_id \notin Ids(old)
      /\ old = <<>> => a # <<>>
  BY <1>0, AddedProperties
<1>4. new = Updated(meta, "Stable", meta.generation, ms)
  BY DEF AfterSync
<1> HIDE DEF r, a, new
<1>5. /\ ms \in Seq(MemberInfo) /\ Len(ms) = Len(r) + Len(a)
      /\ DOMAIN ms = 1..Len(ms) /\ DOMAIN r = 1..Len(r) /\ DOMAIN a = 1..Len(a)
      /\ \A i \in 1..Len(ms) : ms[i] = IF i <= Len(r) THEN r[i] ELSE a[i - Len(r)]
      /\ Len(r) \in Nat /\ Len(a) \in Nat
  <2>1. r \in Seq(MemberInfo) /\ a \in Seq(MemberInfo)
    BY <1>1, <1>3
  <2> QED BY <2>1, ConcatProperties, LenProperties
<1>6. ms # <<>>
  BY <1>0, <1>1, <1>3, <1>5
<1>7. UniqueIds(ms)
  <2> SUFFICES ASSUME NEW i \in 1..Len(ms), NEW j \in 1..Len(ms),
                      ms[i].member_id = ms[j].member_id
               PROVE  i = j
    <3>1. DOMAIN ms = 1..Len(ms)
      BY <1>5
    <3> HIDE DEF ms
    <3> QED BY <3>1 DEF UniqueIds
  <2> HIDE DEF ms
  <2>1. \A k \in 1..Len(ms) : \/ k \in 1..Len(r) /\ ms[k] = r[k]
                              \/ k - Len(r) \in 1..Len(a) /\ ms[k] = a[k - Len(r)]
    BY <1>5
  <2>2. CASE i \in 1..Len(r) /\ j \in 1..Len(r)
    <3>1. ms[i] = r[i] /\ ms[j] = r[j]
      BY <1>5, <2>2
    <3>2. i \in DOMAIN r /\ j \in DOMAIN r
      BY <1>5, <2>2
    <3> QED BY <1>2, <3>1, <3>2 DEF UniqueIds
  <2>3. CASE i - Len(r) \in 1..Len(a) /\ j - Len(r) \in 1..Len(a)
    <3>1. ms[i] = a[i - Len(r)] /\ ms[j] = a[j - Len(r)]
      BY <1>5, <2>3
    <3>2. i - Len(r) = j - Len(r)
      BY <1>3, <2>3, <3>1 DEF UniqueIds
    <3> QED BY <1>1, <3>2
  <2>4. \A k \in 1..Len(r), l \in 1..Len(a) : r[k].member_id # a[l].member_id
    <3>1. \A k \in 1..Len(r) : r[k].member_id \in Ids(old)
      <4>1. DOMAIN r = 1..Len(r)
        BY <1>5
      <4> HIDE DEF old
      <4> QED BY <1>2, <4>1 DEF Ids
    <3>2. \A l \in 1..Len(a) : a[l].member_id \notin Ids(old)
      BY <1>3
    <3> QED BY <3>1, <3>2
  <2> QED BY <2>1, <2>2, <2>3, <2>4
<1>8. Ids(old) \subseteq Ids(ms)
  <2>1. \A i \in DOMAIN old : i \in DOMAIN ms /\ ms[i].member_id = old[i].member_id
    BY <1>0, <1>1, <1>3, <1>5
  <2> HIDE DEF ms
  <2> QED BY <2>1 DEF Ids
<1>9. old # <<>> => ms[1].member_id = old[1].member_id
  BY <1>0, <1>1, <1>5
<1> HIDE DEF ms
<1>10. /\ new \in GroupMetadata /\ new.state = "Stable" /\ new.members = ms
       /\ new.generation = meta.generation
  <2>1. meta \in GroupMetadata /\ meta.generation \in Nat /\ ms \in Seq(MemberInfo)
    BY <1>0, <1>5
  <2> QED BY <1>4, <2>1 DEF Updated, GroupMetadata, GroupStates
<1>11. Good(new)
  BY <1>6, <1>7, <1>10 DEF Good
<1>12. Lawful(meta, new)
  BY <1>0, <1>8, <1>9, <1>10 DEF Lawful, Leader
<1> QED BY <1>11, <1>12 DEF new

\* The passing of time changes nothing but idle times.
LEMMA TickKeeps ==
  ASSUME NEW meta, Good(meta), NEW new, new = [meta EXCEPT !.members = Aged(@)]
  PROVE  /\ Good(new) /\ Lawful(meta, new)
         /\ Ids(new.members) = Ids(meta.members)
<1> DEFINE old == meta.members
           a == Aged(old)
<1>0. /\ meta \in GroupMetadata /\ old \in Seq(MemberInfo) /\ meta.generation \in Nat
      /\ UniqueIds(old)
  BY DEF Good, GroupMetadata
<1>1. DOMAIN a = 1..Len(old)
  BY <1>0 DEF Aged
<1>2. ASSUME NEW i \in 1..Len(old)
      PROVE  a[i] \in MemberInfo /\ a[i].member_id = old[i].member_id
  <2>1. old[i] \in MemberInfo
    BY <1>0
  <2>2. a[i] = [old[i] EXCEPT !.idle = IF old[i].idle < IdleCap THEN old[i].idle + 1 ELSE IdleCap]
    BY <1>0 DEF Aged
  <2>3. IdleCap \in Nat
    BY CoordinatorAssumption
  <2> HIDE DEF a
  <2> QED BY <2>1, <2>2, <2>3 DEF MemberInfo
<1>3. a = [i \in 1..Len(old) |-> a[i]]
  BY <1>0, <1>1 DEF Aged
<1>4. new.members = a /\ new = [meta EXCEPT !.members = a]
  BY <1>0 DEF GroupMetadata
<1> HIDE DEF a
<1>5. a \in Seq(MemberInfo) /\ Len(a) = Len(old) /\ DOMAIN old = 1..Len(old)
  <2>1. /\ Len(old) \in Nat /\ DOMAIN old = 1..Len(old)
        /\ \A i \in 1..Len(old) : a[i] \in MemberInfo
    BY <1>0, <1>2
  <2> HIDE DEF old
  <2> QED BY <1>1, <1>3, <2>1, IsASeq, LenProperties
<1>6. UniqueIds(a) /\ Ids(a) = Ids(old)
  BY <1>0, <1>1, <1>2, <1>5, SameIds
<1>7. /\ new \in GroupMetadata /\ new.state = meta.state
      /\ new.generation = meta.generation
  BY <1>0, <1>4, <1>5 DEF GroupMetadata
<1>8. /\ a = <<>> <=> old = <<>>
      /\ old # <<>> => a[1].member_id = old[1].member_id
  BY <1>0, <1>2, <1>5
<1>9. Good(new)
  BY <1>4, <1>6, <1>7, <1>8 DEF Good
<1>10. Lawful(meta, new)
  BY <1>0, <1>4, <1>6, <1>7, <1>8 DEF Lawful, Leader
<1> QED BY <1>4, <1>6, <1>9, <1>10

-----------------------------------------------------------------------------
\* The inductive invariant: UniqueMembers and EmptyIffNoMembers need each
\* other's company (a removal empties the group exactly when the vector
\* empties), so one group is Good as a whole.
IInv == TypeOK /\ \A g \in GroupIds : Good(groups[g])

LEMMA InitGood == Init => IInv
<1> SUFFICES ASSUME Init PROVE IInv
  OBVIOUS
<1>1. NewGroup \in GroupMetadata /\ Good(NewGroup)
  BY CoordinatorAssumption DEF NewGroup, GroupMetadata, GroupStates, Good, UniqueIds
<1>2. groups \in [GroupIds -> GroupMetadata] /\ \A g \in GroupIds : groups[g] = NewGroup
  BY <1>1 DEF Init
<1>3. TypeOK
  <2>1. committed_offsets \in [GroupIds -> [Partitions -> Offsets \cup {-1}]]
    BY DEF Init
  <2>2. next_member_id \in 0..MaxMemberIds /\ created \subseteq GroupIds
    BY CoordinatorAssumption DEF Init
  <2> QED BY <1>2, <2>1, <2>2 DEF TypeOK
<1> QED BY <1>1, <1>2, <1>3 DEF IInv

\* Changing one group lawfully leaves every group lawful.
LEMMA OneGroup ==
  ASSUME IInv, NEW g \in GroupIds, NEW new, Good(new), Lawful(groups[g], new),
         groups' = [groups EXCEPT ![g] = new]
  PROVE  /\ groups' \in [GroupIds -> GroupMetadata]
         /\ \A h \in GroupIds : Good(groups'[h]) /\ Lawful(groups[h], groups'[h])
<1>1. groups \in [GroupIds -> GroupMetadata] /\ new \in GroupMetadata
  BY DEF IInv, TypeOK, Good
<1>2. \A h \in GroupIds : groups'[h] = IF h = g THEN new ELSE groups[h]
  BY <1>1
<1>3. \A h \in GroupIds : Good(groups[h]) /\ Lawful(groups[h], groups[h])
  <2>1. \A h \in GroupIds : Good(groups[h])
    BY DEF IInv
  <2>2. \A h \in GroupIds : groups[h].generation \in Nat
    BY <1>1 DEF GroupMetadata
  <2> QED BY <2>1, <2>2 DEF Lawful
<1> QED BY <1>1, <1>2, <1>3

LEMMA NoGroup ==
  ASSUME IInv, UNCHANGED groups
  PROVE  /\ groups' \in [GroupIds -> GroupMetadata]
         /\ \A h \in GroupIds : Good(groups'[h]) /\ Lawful(groups[h], groups'[h])
<1>1. \A h \in GroupIds : groups[h].generation \in Nat
  BY DEF IInv, TypeOK, GroupMetadata
<1> QED BY <1>1 DEF IInv, TypeOK, Lawful

\* Every step keeps the invariant and treats every group lawfully.
LEMMA StepKeeps ==
  ASSUME IInv, Next
  PROVE  IInv' /\ \A h \in GroupIds : Lawful(groups[h], groups'[h])
<1> DEFINE P == /\ groups' \in [GroupIds -> GroupMetadata]
                /\ \A h \in GroupIds : Good(groups'[h]) /\ Lawful(groups[h], groups'[h])
           Rest == /\ created' \subseteq GroupIds
                   /\ committed_offsets' \in [GroupIds -> [Partitions -> Offsets \cup {-1}]]
                   /\ next_member_id' \in 0..MaxMemberIds
<1> SUFFICES P /\ Rest
  BY DEF IInv, TypeOK
<1>0. /\ created \subseteq GroupIds
      /\ committed_offsets \in [GroupIds -> [Partitions -> Offsets \cup {-1}]]
      /\ next_member_id \in 0..MaxMemberIds
      /\ \A h \in GroupIds : Good(groups[h])
  BY DEF IInv, TypeOK
<1> HIDE DEF P
<1>1. CASE \E g \in GroupIds : \E id \in MemberIds \cup {Anonymous}, t \in SessionTimeouts :
             GenerationLeft(g) /\ MemberIdLeft(id) /\ JoinGroup(g, id, t)
  <2>1. PICK g \in GroupIds, id \in MemberIds \cup {Anonymous}, t \in SessionTimeouts :
          MemberIdLeft(id) /\ JoinGroup(g, id, t)
    BY <1>1
  <2> DEFINE m == IF id = Anonymous THEN next_member_id + 1 ELSE id
             new == AfterJoin(groups[g], m, t)
  <2>2. id = Anonymous => next_member_id + 1 \in 1..MaxMemberIds
    BY <1>0, <2>1, CoordinatorAssumption DEF MemberIdLeft
  <2>3. m \in MemberIds
    BY <2>2 DEF MemberIds
  <2>4. groups' = [groups EXCEPT ![g] = new]
    BY <2>1 DEF JoinGroup
  <2>5. Rest
    BY <1>0, <2>1, <2>2 DEF JoinGroup
  <2> HIDE DEF m
  <2>6. Good(new) /\ Lawful(groups[g], new)
    BY <1>0, <2>3, JoinKeeps
  <2> HIDE DEF new
  <2>7. P
    BY <2>4, <2>6, OneGroup DEF P
  <2> QED BY <2>5, <2>7
<1>2. CASE \E g \in GroupIds : \E n \in 0..MaxGeneration, list \in AssignmentLists :
             SyncGroup(g, n, list)
  <2>1. PICK g \in GroupIds, n \in 0..MaxGeneration, list \in AssignmentLists :
          SyncGroup(g, n, list)
    BY <1>2
  <2>2. list \in Seq(MemberIds \X Assignments)
    BY CoordinatorAssumption DEF AssignmentLists
  <2>3. Rest
    BY <1>0, <2>1 DEF SyncGroup
  <2>4. CASE Current(g, n) /\ list # <<>>
    <3> DEFINE new == AfterSync(groups[g], list)
    <3>1. groups' = [groups EXCEPT ![g] = new]
      BY <2>1, <2>4 DEF SyncGroup
    <3>2. Good(new) /\ Lawful(groups[g], new)
      BY <1>0, <2>2, <2>4, SyncKeeps
    <3> HIDE DEF new
    <3> QED BY <2>3, <3>1, <3>2, OneGroup DEF P
  <2>5. CASE ~(Current(g, n) /\ list # <<>>)
    BY <2>1, <2>3, <2>5, NoGroup DEF P, SyncGroup
  <2> QED BY <2>4, <2>5
<1>3. CASE \E g \in GroupIds : \E n \in 0..MaxGeneration, id \in MemberIds :
             GenerationLeft(g) /\ Heartbeat(g, n, id)
  <2>1. PICK g \in GroupIds, n \in 0..MaxGeneration, id \in MemberIds : Heartbeat(g, n, id)
    BY <1>3
  <2>2. Rest
    BY <1>0, <2>1 DEF Heartbeat
  <2>3. CASE UNCHANGED groups
    BY <2>2, <2>3, NoGroup DEF P
  <2>4. CASE groups' = [groups EXCEPT ![g] = AfterHeartbeat(@, id)]
    <3> DEFINE new == AfterHeartbeat(groups[g], id)
    <3>1. groups' = [groups EXCEPT ![g] = new]
      BY <2>4
    <3>2. Good(new) /\ Lawful(groups[g], new)
      BY <1>0, HeartbeatKeeps
    <3> HIDE DEF new
    <3> QED BY <2>2, <3>1, <3>2, OneGroup DEF P
  <2> QED BY <2>1, <2>3, <2>4 DEF Heartbeat
<1>4. CASE \E g \in GroupIds : \E id \in MemberIds : GenerationLeft(g) /\ LeaveGroup(g, id)
  <2>1. PICK g \in GroupIds, id \in MemberIds : LeaveGroup(g, id)
    BY <1>4
  <2>2. Rest
    BY <1>0, <2>1 DEF LeaveGroup
  <2>3. CASE UNCHANGED groups
    BY <2>2, <2>3, NoGroup DEF P
  <2>4. CASE groups' = [groups EXCEPT ![g] = AfterLeave(@, id)]
    <3> DEFINE new == AfterLeave(groups[g], id)
    <3>1. groups' = [groups EXCEPT ![g] = new]
      BY <2>4
    <3>2. Good(new) /\ Lawful(groups[g], new)
      BY <1>0, LeaveKeeps
    <3> HIDE DEF new
    <3> QED BY <2>2, <3>1, <3>2, OneGroup DEF P
  <2> QED BY <2>1, <2>3, <2>4 DEF LeaveGroup
<1>5. CASE \E g \in GroupIds : \E S \in SUBSET Partitions : \E offsets \in [S -> Offsets] :
             OffsetCommit(g, offsets)
  <2>1. PICK g \in GroupIds, S \in SUBSET Partitions :
          \E offsets \in [S -> Offsets] : OffsetCommit(g, offsets)
    BY <1>5
  <2>2. PICK offsets \in [S -> Offsets] : OffsetCommit(g, offsets)
    BY <2>1
  <2> DEFINE stored == [p \in Partitions |-> IF p \in DOMAIN offsets THEN offsets[p]
                                             ELSE committed_offsets[g][p]]
  <2>3. stored \in [Partitions -> Offsets \cup {-1}]
    BY <1>0
  <2>4. committed_offsets' = [committed_offsets EXCEPT ![g] = stored]
    BY <2>2 DEF OffsetCommit
  <2> HIDE DEF stored
  <2>5. committed_offsets' \in [GroupIds -> [Partitions -> Offsets \cup {-1}]]
    BY <1>0, <2>3, <2>4
  <2> QED BY <1>0, <2>2, <2>5, NoGroup DEF P, OffsetCommit
<1>6. CASE \E g \in GroupIds : OffsetFetch(g)
  BY <1>0, <1>6, NoGroup DEF P, OffsetFetch
<1>7. CASE Tick
  <2>1. Rest
    BY <1>0, <1>7 DEF Tick
  <2>2. ASSUME NEW h \in GroupIds
        PROVE  Good(groups'[h]) /\ Lawful(groups[h], groups'[h])
    <3>1. groups'[h] = [groups[h] EXCEPT !.members = Aged(@)]
      BY <1>7 DEF Tick
    <3> QED BY <1>0, <3>1, TickKeeps
  <2>3. groups' \in [GroupIds -> GroupMetadata]
    <3>1. groups' = [h \in GroupIds |-> groups'[h]]
      BY <1>7 DEF Tick
    <3>2. \A h \in GroupIds : groups'[h] \in GroupMetadata
      BY <2>2 DEF Good
    <3> QED BY <3>1, <3>2
  <2> QED BY <2>1, <2>2, <2>3 DEF P
<1> QED BY <1>1, <1>2, <1>3, <1>4, <1>5, <1>6, <1>7 DEF Next

LEMMA Inductive == IInv /\ [Next]_vars => IInv'
<1>1. IInv /\ Next => IInv'
  BY StepKeeps
<1>2. IInv /\ UNCHANGED vars => IInv'
  BY DEF IInv, TypeOK, vars
<1> QED BY <1>1, <1>2

LEMMA Invariance == Spec => []IInv
BY InitGood, Inductive, PTL DEF Spec

-----------------------------------------------------------------------------
\* Whatever requests arrive, the coordinator's state keeps its types.
THEOREM TypeCorrect == Spec => []TypeOK
<1>1. IInv => TypeOK
  BY DEF IInv
<1> QED BY <1>1, Invariance, PTL

\* No request or eviction ever gives a group two entries for one member id,
\* lets its state and its member vector disagree about emptiness, or makes
\* it wait for a leader in generation 0.
THEOREM CoordinatorSafe ==
  Spec => [](UniqueMembers /\ EmptyIffNoMembers /\ AwaitingSyncIsNumbered)
<1>1. IInv => UniqueMembers /\ EmptyIffNoMembers /\ AwaitingSyncIsNumbered
  BY DEF IInv, Good, UniqueIds, UniqueMembers, EmptyIffNoMembers, AwaitingSyncIsNumbered
<1> QED BY <1>1, Invariance, PTL

\* Generations never go back, and losing a member fences the others with a
\* new generation unless nobody is left.
THEOREM MembersAreFenced == Spec => RemovalFences
<1> DEFINE A == \A g \in GroupIds :
       /\ groups'[g].generation >= groups[g].generation
       /\ ~(Ids(groups[g].members) \subseteq Ids(groups'[g].members))
            => \/ groups'[g].generation > groups[g].generation
               \/ groups'[g].state = "Empty"
<1>1. IInv /\ Next => A
  BY StepKeeps DEF Lawful
<1>2. IInv /\ [Next]_vars => [A]_vars
  BY <1>1
<1>3. Spec => [][A]_vars
  BY <1>2, Invariance, PTL DEF Spec
<1> QED BY <1>3 DEF RemovalFences

\* All the JoinGroup responses of one generation of a group name the same
\* leader, until the group empties.
THEOREM OneLeaderPerGeneration == Spec => LeaderKept
<1> DEFINE A == \A g \in GroupIds :
       /\ groups[g].members # <<>>
       /\ groups'[g].members # <<>>
       /\ groups'[g].generation = groups[g].generation
       => Leader(groups'[g]) = Leader(groups[g])
<1>1. IInv /\ Next => A
  BY StepKeeps DEF Lawful
<1>2. IInv /\ [Next]_vars => [A]_vars
  BY <1>1
<1>3. Spec => [][A]_vars
  BY <1>2, Invariance, PTL DEF Spec
<1> QED BY <1>3 DEF LeaderKept
=============================================================================
