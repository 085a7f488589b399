------------------------ MODULE ShardedBrokerProofs -------------------------
(***************************************************************************)
(* Requests that list one partition: any number of reactors, partitions    *)
(* and requests, any routing.                                              *)
(*                                                                         *)
(* The inductive invariant says where a request can be: one for a hosted   *)
(* partition is only ever at the reactor the partition is routed to.  So   *)
(* that reactor's context is the only one that moves, and it is at once    *)
(* the end of the file and the end of what producers were told.            *)
(***************************************************************************)
EXTENDS ShardedBroker, TLAPS

\* next_offset_ where the partition is routed to.
Home(p) == Context(route[p], p)

\* A request on its way or being carried out.
Good(req) ==
  /\ req.api \in {"produce", "list", "fetch"}
  /\ Len(req.entries) = 1 /\ req.entries[1].partition \in Partitions
  /\ req.api = "produce" => req.entries[1].count \in Counts
  /\ req.entries[1].partition \in Hosted => req.target = route[req.entries[1].partition]
  /\ \A p \in Hosted : req.floor[p] \in Nat /\ req.floor[p] <= Home(p)

Typed ==
  /\ TypeOK
  /\ DOMAIN contexts = Reactors /\ DOMAIN current = Reactors

Requests ==
  /\ \A req \in pending : Good(req)
  /\ \A r \in Reactors : current[r] = Idle \/ (Good(current[r]) /\ current[r].target = r)

\* Home(p) is the end of the file.
Written ==
  /\ file \in [Hosted -> Seq([base: 0..MaxOffset, count: Counts])]
  /\ \A p \in Hosted :
       /\ file[p] = <<>> => Home(p) = 0
       /\ file[p] # <<>> => Home(p) = file[p][Len(file[p])].base + file[p][Len(file[p])].count
       /\ \A i \in DOMAIN file[p] : file[p][i].base + file[p][i].count <= Home(p)

\* Home(p) is the end of what was acknowledged.
Acknowledged ==
  /\ \A a \in acked : /\ a.partition \in Hosted /\ a.base \in Nat /\ a.count \in Counts
                      /\ a.base + a.count <= Home(a.partition)
  /\ \A p \in Hosted :
       Home(p) = 0 \/ \E a \in acked : a.partition = p /\ a.base + a.count = Home(p)

Inv ==
  /\ Typed /\ Requests /\ Written /\ Acknowledged /\ OffsetsUnique /\ LatestCoversAcked

-----------------------------------------------------------------------------
\* Facts about the state alone.

LEMMA ElementOf ==
  ASSUME NEW S, NEW s \in Seq(S), NEW i \in DOMAIN s
  PROVE  s[i] \in S
OBVIOUS

LEMMA RangeOf ==
  ASSUME NEW S, NEW s \in Seq(S)
  PROVE  Range(s) \subseteq S
BY ElementOf DEF Range

LEMMA CountIsNat ==
  ASSUME NEW n \in Counts
  PROVE  n \in Nat /\ n > 0
BY BrokerAssumption

LEMMA BatchIsNat ==
  ASSUME NEW b \in [base: 0..MaxOffset, count: Counts]
  PROVE  b.base \in Nat /\ b.count \in Nat
<1>1. b.base \in 0..MaxOffset /\ b.count \in Counts
  OBVIOUS
<1> QED  BY <1>1, CountIsNat

LEMMA AppendedTo ==
  ASSUME NEW S, NEW s \in Seq(S), NEW e \in S, NEW t, t = Append(s, e)
  PROVE  /\ t \in Seq(S) /\ t # <<>> /\ Len(t) = Len(s) + 1 /\ t[Len(t)] = e
         /\ DOMAIN t = DOMAIN s \cup {Len(t)}
         /\ \A i \in DOMAIN s : t[i] = s[i]
OBVIOUS

LEMMA HomeIsNat ==
  ASSUME Typed, NEW p \in Hosted
  PROVE  Home(p) \in 0..MaxOffset
BY BrokerAssumption DEF Typed, TypeOK, Home, Context, Partitions

\* A set of offsets with an upper bound among its members.
LEMMA MaxIs ==
  ASSUME NEW S \in SUBSET Nat, NEW m \in S, \A x \in S : x <= m
  PROVE  Max(S) = m
<1>1. \A y \in S : m >= y
  OBVIOUS
<1>2. Max(S) \in S /\ \A y \in S : Max(S) >= y
  BY <1>1 DEF Max
<1>3. m \in Nat /\ Max(S) \in Nat
  BY <1>2
<1>4. Max(S) >= m /\ m >= Max(S)
  BY <1>1, <1>2
<1> QED  BY <1>3, <1>4

LEMMA AckedEndIsHome ==
  ASSUME Typed, Acknowledged, NEW p \in Hosted
  PROVE  AckedEnd(p) = Home(p)
<1> DEFINE S == {0} \cup {b.base + b.count : b \in {a \in acked : a.partition = p}}
<1>1. Home(p) \in Nat
  BY HomeIsNat
<1>2. S \in SUBSET Nat /\ \A x \in S : x <= Home(p)
  <2>1. \A a \in acked : a.base + a.count \in Nat
    BY CountIsNat DEF Acknowledged
  <2> QED  BY <1>1, <2>1 DEF Acknowledged
<1>3. Home(p) \in S
  BY DEF Acknowledged
<1> HIDE DEF S
<1>4. Max(S) = Home(p)
  BY <1>2, <1>3, MaxIs
<1> QED  BY <1>4 DEF AckedEnd, S

LEMMA FileEndIsHome ==
  ASSUME Typed, Written, NEW p \in Hosted
  PROVE  Max({0} \cup {b.base + b.count : b \in Range(file[p])}) = Home(p)
<1> DEFINE S == {0} \cup {b.base + b.count : b \in Range(file[p])}
<1>1. Home(p) \in Nat
  BY HomeIsNat
<1>2. file[p] \in Seq([base: 0..MaxOffset, count: Counts])
  BY DEF Written
<1>3. \A i \in DOMAIN file[p] : file[p][i].base + file[p][i].count \in Nat
  <2> SUFFICES ASSUME NEW i \in DOMAIN file[p]
               PROVE  file[p][i].base + file[p][i].count \in Nat
    OBVIOUS
  <2>1. file[p][i] \in [base: 0..MaxOffset, count: Counts]
    BY <1>2, ElementOf
  <2>2. file[p][i].base \in Nat /\ file[p][i].count \in Nat
    BY <2>1, BatchIsNat
  <2> QED  BY <2>2
<1>4. S \in SUBSET Nat /\ \A x \in S : x <= Home(p)
  BY <1>1, <1>3 DEF Written, Range
<1>5. Home(p) \in S
  BY <1>2 DEF Written, Range
<1> HIDE DEF S
<1>6. Max(S) = Home(p)
  BY <1>4, <1>5, MaxIs
<1> QED  BY <1>6 DEF S

-----------------------------------------------------------------------------
\* A step that leaves the contexts, the files and what was acknowledged alone
\* leaves Home alone.
LEMMA HomeStays ==
  ASSUME UNCHANGED <<route, contexts>>
  PROVE  \A p : Home(p)' = Home(p)
BY DEF Home, Context

LEMMA StorageStays ==
  ASSUME Inv, UNCHANGED <<route, contexts, file, acked>>, submitted' \in 0..MaxRequests
  PROVE  (TypeOK /\ Written /\ Acknowledged /\ OffsetsUnique)'
<1>1. \A p : Home(p)' = Home(p)
  BY HomeStays
<1>2. TypeOK'
  BY DEF Inv, Typed, TypeOK
<1>3. Written'
  BY <1>1 DEF Inv, Written
<1>4. Acknowledged'
  BY <1>1 DEF Inv, Acknowledged
<1>5. OffsetsUnique'
  BY DEF Inv, OffsetsUnique
<1> QED  BY <1>2, <1>3, <1>4, <1>5

\* Requests stay good while Home does not go back.
LEMMA GoodStays ==
  ASSUME NEW req, Good(req), route' = route,
         \A p \in Hosted : Home(p) \in Nat /\ Home(p)' \in Nat /\ Home(p) <= Home(p)'
  PROVE  Good(req)'
<1>1. \A p \in Hosted : req.floor[p] \in Nat /\ req.floor[p] <= Home(p)'
  BY DEF Good
<1> QED  BY <1>1 DEF Good

LEMMA InitInv ==
  ASSUME Init
  PROVE  Inv
<1> USE BrokerAssumption DEF Init
<1>1. \A p \in Hosted : Home(p) = 0
  BY DEF Home, Context, Partitions
<1>2. Typed
  BY DEF Typed, TypeOK, Range
<1>3. Requests
  BY DEF Requests
<1>4. Written
  BY <1>1 DEF Written
<1>5. Acknowledged
  BY <1>1 DEF Acknowledged
<1>6. OffsetsUnique /\ LatestCoversAcked
  BY DEF OffsetsUnique, LatestCoversAcked
<1> QED  BY <1>2, <1>3, <1>4, <1>5, <1>6 DEF Inv

\* A request that lists one partition sets out for the reactor of that
\* partition, or stays where it is because the partition is not hosted.
LEMMA SubmitInv ==
  ASSUME Inv, MaxEntries = 1, NEW source \in Reactors,
         NEW api \in {"produce", "list", "fetch"}, NEW entries,
         \/ api = "produce" /\ entries \in Lists([partition: Partitions, count: Counts])
         \/ api # "produce" /\ entries \in Lists([partition: Partitions]),
         Submit(source, api, entries)
  PROVE  Inv'
<1> DEFINE req == [id |-> submitted, target |-> Target(source, api, entries), api |-> api,
                   entries |-> entries, floor |-> [p \in Hosted |-> AckedEnd(p)]]
<1>1. /\ Len(entries) = 1 /\ entries[1].partition \in Partitions
      /\ api = "produce" => entries[1].count \in Counts
  <2>1. CASE api = "produce"
    <3>1. entries \in [1..1 -> [partition: Partitions, count: Counts]]
      BY <2>1 DEF Lists
    <3> QED  BY <3>1
  <2>2. CASE api # "produce"
    <3>1. entries \in [1..1 -> [partition: Partitions]]
      BY <2>2 DEF Lists
    <3> QED  BY <3>1, <2>2
  <2> QED  BY <2>1, <2>2
<1>2. \A p \in Hosted : AckedEnd(p) = Home(p) /\ Home(p) \in Nat
  BY AckedEndIsHome, HomeIsNat DEF Inv
<1>3. entries[1].partition \in Hosted => Target(source, api, entries) = route[entries[1].partition]
  BY BrokerAssumption DEF Target
<1>4. Good(req)
  BY <1>1, <1>2, <1>3 DEF Good
<1>5. \A p : Home(p)' = Home(p)
  BY HomeStays DEF Submit
<1>6. submitted' \in 0..MaxRequests
  BY BrokerAssumption DEF Submit, Inv, Typed, TypeOK
<1>7. pending' = pending \cup {req} /\ UNCHANGED <<route, current, contexts, file, acked>>
      /\ listed' = NoListing
  BY DEF Submit
<1> HIDE DEF req
<1>8. \A q : Good(q) => Good(q)'
  BY <1>2, <1>5, <1>7, GoodStays
<1>9. Requests'
  BY <1>4, <1>7, <1>8 DEF Inv, Requests
<1> QED  BY <1>6, <1>7, <1>9, StorageStays DEF Inv, Typed, LatestCoversAcked

LEMMA BeginInv ==
  ASSUME Inv, NEW r \in Reactors, NEW req \in pending, Begin(r, req)
  PROVE  Inv'
<1>1. \A p \in Hosted : Home(p)' = Home(p) /\ Home(p) \in Nat
  BY HomeStays, HomeIsNat DEF Begin, Inv
<1>2. \A q : Good(q) => Good(q)'
  BY <1>1, GoodStays DEF Begin
<1>3. Requests'
  BY <1>2 DEF Begin, Inv, Requests, Typed
<1>4. submitted' \in 0..MaxRequests
  BY DEF Begin, Inv, Typed, TypeOK
<1> QED  BY <1>3, <1>4, StorageStays DEF Begin, Inv, Typed, LatestCoversAcked

-----------------------------------------------------------------------------
\* The reactor is done with the request, as it listed one partition.
LEMMA ProceedIsDone ==
  ASSUME Inv, NEW r \in Reactors, current[r].api \in {"produce", "list", "fetch"}, Proceed(r)
  PROVE  /\ Good(current[r]) /\ current[r].target = r
         /\ current' = [current EXCEPT ![r] = Idle]
<1>1. current[r] # Idle
  BY DEF Idle
<1>2. Good(current[r]) /\ current[r].target = r
  BY <1>1 DEF Inv, Requests
<1> QED  BY <1>2 DEF Good, Proceed

\* get_or_create_context and the advance touch one context.
LEMMA Advanced ==
  ASSUME Typed, NEW r \in Reactors, NEW p \in Hosted \cup Stray, NEW n \in Nat,
         p \in Hosted => r = route[p], Context(r, p) + n <= MaxOffset,
         contexts' = AdvanceContext(r, p, n), UNCHANGED <<route, submitted>>
  PROVE  /\ Context(r, p) \in 0..MaxOffset
         /\ DOMAIN contexts' = Reactors
         /\ \A s \in Reactors : /\ DOMAIN contexts'[s] \subseteq Hosted \cup Stray
                               /\ \A q \in DOMAIN contexts'[s] : contexts'[s][q] \in 0..MaxOffset
         /\ p \in Hosted => Home(p) = Context(r, p) /\ Home(p)' = Home(p) + n
         /\ \A q \in Hosted : q # p => Home(q)' = Home(q)
<1>1. Context(r, p) \in 0..MaxOffset
  BY BrokerAssumption DEF Typed, TypeOK, Context
<1>2. Context(r, p) + n \in 0..MaxOffset
  BY <1>1, BrokerAssumption
<1>3. /\ DOMAIN contexts' = Reactors
      /\ contexts'[r] = [q \in DOMAIN contexts[r] \cup {p} |->
                           IF q = p THEN Context(r, p) + n ELSE contexts[r][q]]
      /\ \A s \in Reactors : s # r => contexts'[s] = contexts[s]
  BY DEF Typed, AdvanceContext
<1>4. \A s \in Reactors : /\ DOMAIN contexts'[s] \subseteq Hosted \cup Stray
                         /\ \A q \in DOMAIN contexts'[s] : contexts'[s][q] \in 0..MaxOffset
  BY <1>2, <1>3 DEF Typed, TypeOK
<1>5. p \in Hosted => Home(p) = Context(r, p) /\ Home(p)' = Home(p) + n
  BY <1>3 DEF Home, Context
<1>6. \A q \in Hosted : q # p => Home(q)' = Home(q)
  <2> SUFFICES ASSUME NEW q \in Hosted, q # p
               PROVE  Home(q)' = Home(q)
    OBVIOUS
  <2>1. route[q] \in Reactors
    BY DEF Typed, TypeOK, Partitions
  <2>2. q \in DOMAIN contexts'[route[q]] <=> q \in DOMAIN contexts[route[q]]
    BY <1>3, <2>1
  <2>3. q \in DOMAIN contexts[route[q]] => contexts'[route[q]][q] = contexts[route[q]][q]
    BY <1>3, <2>1
  <2> QED  BY <2>2, <2>3 DEF Home, Context
<1> QED  BY <1>1, <1>3, <1>4, <1>5, <1>6

\* The request is done and Home did not go back.
LEMMA RequestsStay ==
  ASSUME Inv, Typed', NEW r \in Reactors, current' = [current EXCEPT ![r] = Idle],
         UNCHANGED <<pending, route>>, \A p \in Hosted : Home(p) <= Home(p)'
  PROVE  Requests'
<1>1. \A p \in Hosted : Home(p) \in Nat
  BY HomeIsNat DEF Inv
<1>2. \A p \in Hosted : Home(p)' \in Nat
  <2>1. \A p \in Hosted : route[p]' \in Reactors
    BY DEF Typed, TypeOK, Partitions
  <2> QED  BY <2>1, BrokerAssumption DEF Typed, TypeOK, Home, Context
<1>3. \A q : Good(q) => Good(q)'
  BY <1>1, <1>2, GoodStays
<1> QED  BY <1>3 DEF Inv, Requests, Typed

\* ListOffsets and Fetch may make a context and change nothing else.
LEMMA ContextMade ==
  ASSUME Inv, NEW r \in Reactors, NEW p \in Partitions, current' = [current EXCEPT ![r] = Idle],
         p \in Hosted => r = route[p],
         contexts' = contexts \/ (p \in Hosted \cup Stray /\ contexts' = AdvanceContext(r, p, 0)),
         UNCHANGED <<route, pending, file, submitted, acked>>
  PROVE  (Typed /\ Requests /\ Written /\ Acknowledged /\ OffsetsUnique)'
<1>1. CASE contexts' = contexts
  <2>1. \A q : Home(q)' = Home(q)
    BY <1>1, HomeStays
  <2>2. \A q \in Hosted : Home(q) <= Home(q)'
    BY <2>1, HomeIsNat DEF Inv
  <2>3. (TypeOK /\ Written /\ Acknowledged /\ OffsetsUnique)'
    BY <1>1, StorageStays DEF Inv, Typed, TypeOK
  <2>4. Typed'
    BY <1>1, <2>3 DEF Inv, Typed
  <2> QED  BY <2>2, <2>3, <2>4, RequestsStay
<1>2. CASE p \in Hosted \cup Stray /\ contexts' = AdvanceContext(r, p, 0)
  <2>1. Context(r, p) \in 0..MaxOffset
    BY <1>2, BrokerAssumption DEF Inv, Typed, TypeOK, Context
  <2>2. Context(r, p) + 0 <= MaxOffset
    BY <2>1, BrokerAssumption
  <2>3. /\ DOMAIN contexts' = Reactors
        /\ \A s \in Reactors : /\ DOMAIN contexts'[s] \subseteq Hosted \cup Stray
                              /\ \A q \in DOMAIN contexts'[s] : contexts'[s][q] \in 0..MaxOffset
        /\ p \in Hosted => Home(p)' = Home(p) + 0
        /\ \A q \in Hosted : q # p => Home(q)' = Home(q)
    BY <1>2, <2>2, Advanced DEF Inv
  <2>4. \A q \in Hosted : Home(q) \in Nat /\ Home(q)' = Home(q)
    BY <2>3, HomeIsNat DEF Inv
  <2>5. Typed'
    BY <2>3 DEF Inv, Typed, TypeOK
  <2>6. Written'
    BY <2>4 DEF Inv, Written
  <2>7. Acknowledged'
    BY <2>4 DEF Inv, Acknowledged
  <2>8. \A q \in Hosted : Home(q) <= Home(q)'
    BY <2>4
  <2>9. Requests'
    BY <2>5, <2>8, RequestsStay
  <2> QED  BY <2>5, <2>6, <2>7, <2>9 DEF Inv, OffsetsUnique
<1> QED  BY <1>1, <1>2

LEMMA ListInv ==
  ASSUME Inv, NEW r \in Reactors, ListEntry(r)
  PROVE  Inv'
<1> DEFINE p == current[r].entries[1].partition
<1>1. Good(current[r]) /\ current[r].target = r /\ current' = [current EXCEPT ![r] = Idle]
  BY ProceedIsDone DEF ListEntry
<1>2. p \in Partitions /\ (p \in Hosted => r = route[p])
  BY <1>1 DEF Good
<1>3. contexts' = contexts \/ (p \in Hosted \cup Stray /\ contexts' = AdvanceContext(r, p, 0))
  BY DEF ListEntry
<1>4. UNCHANGED <<route, pending, file, submitted, acked>>
  BY DEF ListEntry
<1>5. LatestCoversAcked'
  <2>1. CASE p \in Hosted
    <3>1. listed' = [partition |-> p, offset |-> Context(r, p), floor |-> current[r].floor[p]]
      BY <2>1 DEF ListEntry
    <3>2. Context(r, p) = Home(p) /\ Home(p) \in Nat
      BY <1>2, <2>1, HomeIsNat DEF Home, Inv
    <3>3. current[r].floor[p] \in Nat /\ current[r].floor[p] <= Home(p)
      BY <1>1, <2>1 DEF Good
    <3> QED  BY <3>1, <3>2, <3>3 DEF LatestCoversAcked
  <2>2. CASE p \notin Hosted
    BY <2>2 DEF ListEntry, LatestCoversAcked
  <2> QED  BY <2>1, <2>2
<1> HIDE DEF p
<1>6. (Typed /\ Requests /\ Written /\ Acknowledged /\ OffsetsUnique)'
  BY <1>1, <1>2, <1>3, <1>4, ContextMade
<1> QED  BY <1>5, <1>6 DEF Inv

LEMMA FetchInv ==
  ASSUME Inv, NEW r \in Reactors, FetchEntry(r)
  PROVE  Inv'
<1> DEFINE p == current[r].entries[1].partition
<1>1. Good(current[r]) /\ current[r].target = r /\ current' = [current EXCEPT ![r] = Idle]
  BY ProceedIsDone DEF FetchEntry
<1>2. p \in Partitions /\ (p \in Hosted => r = route[p])
  BY <1>1 DEF Good
<1>3. contexts' = contexts \/ (p \in Hosted \cup Stray /\ contexts' = AdvanceContext(r, p, 0))
  BY <1>2 DEF FetchEntry, Partitions
<1>4. UNCHANGED <<route, pending, file, submitted, acked>>
  BY DEF FetchEntry
<1>5. LatestCoversAcked'
  <2>1. CASE p \in Hosted
    <3>1. listed' = [partition |-> p, floor |-> current[r].floor[p],
                     offset |-> Max({0} \cup {b.base + b.count : b \in Range(file[p])})]
      BY <2>1 DEF FetchEntry
    <3>2. Max({0} \cup {b.base + b.count : b \in Range(file[p])}) = Home(p) /\ Home(p) \in Nat
      BY <2>1, FileEndIsHome, HomeIsNat DEF Inv
    <3>3. current[r].floor[p] \in Nat /\ current[r].floor[p] <= Home(p)
      BY <1>1, <2>1 DEF Good
    <3> QED  BY <3>1, <3>2, <3>3 DEF LatestCoversAcked
  <2>2. CASE p \notin Hosted
    BY <2>2 DEF FetchEntry, LatestCoversAcked
  <2> QED  BY <2>1, <2>2
<1> HIDE DEF p
<1>6. (Typed /\ Requests /\ Written /\ Acknowledged /\ OffsetsUnique)'
  BY <1>1, <1>2, <1>3, <1>4, ContextMade
<1> QED  BY <1>5, <1>6 DEF Inv

\* A log that is extended by a batch based at its end.
LEMMA LogGrows ==
  ASSUME NEW B, \A b \in B : b.base \in Nat /\ b.count \in Nat,
         NEW s \in Seq(B), NEW e \in B, NEW h \in Nat, NEW n \in Nat,
         e.base = h, e.count = n, \A i \in DOMAIN s : s[i].base + s[i].count <= h,
         NEW t, t = Append(s, e)
  PROVE  /\ t \in Seq(B) /\ t # <<>> /\ h + n = t[Len(t)].base + t[Len(t)].count
         /\ \A i \in DOMAIN t : t[i].base + t[i].count <= h + n
<1>1. /\ t \in Seq(B) /\ t # <<>> /\ Len(t) = Len(s) + 1 /\ t[Len(t)] = e
      /\ DOMAIN t = DOMAIN s \cup {Len(t)}
      /\ \A i \in DOMAIN s : t[i] = s[i]
  BY AppendedTo
<1>2. ASSUME NEW i \in DOMAIN s
      PROVE  s[i].base + s[i].count <= h + n
  <2>1. s[i] \in B
    BY ElementOf
  <2>2. s[i].base \in Nat /\ s[i].count \in Nat
    BY <2>1
  <2>3. s[i].base + s[i].count <= h
    OBVIOUS
  <2> QED  BY <2>2, <2>3
<1>3. ASSUME NEW i \in DOMAIN t
      PROVE  t[i].base + t[i].count <= h + n
  BY <1>1, <1>2
<1> QED  BY <1>1, <1>3

\* The partition's log and Home move on together.
LEMMA WrittenGrows ==
  ASSUME Written, NEW p \in Hosted, NEW n \in Counts, NEW h \in 0..MaxOffset, h = Home(p),
         file' = [file EXCEPT ![p] = Append(@, [base |-> h, count |-> n])],
         Home(p)' = h + n, \A q \in Hosted : q # p => Home(q)' = Home(q)
  PROVE  Written'
<1>1. PICK B, e : B = [base: 0..MaxOffset, count: Counts] /\ e = [base |-> h, count |-> n]
  OBVIOUS
<1>2. /\ \A b \in B : b.base \in Nat /\ b.count \in Nat
      /\ e \in B /\ e.base = h /\ e.count = n /\ h \in Nat /\ n \in Nat
  BY <1>1, BatchIsNat, CountIsNat
<1>3. file \in [Hosted -> Seq(B)]
  BY <1>1 DEF Written
<1>4. PICK s, t : s = file[p] /\ t = file'[p]
  OBVIOUS
<1>5. s \in Seq(B) /\ t = Append(s, e)
  BY <1>1, <1>3, <1>4
<1>6. \A i \in DOMAIN s : s[i].base + s[i].count <= h
  BY <1>4 DEF Written
<1>7. /\ t \in Seq(B) /\ t # <<>> /\ h + n = t[Len(t)].base + t[Len(t)].count
      /\ \A i \in DOMAIN t : t[i].base + t[i].count <= h + n
  BY <1>5, <1>6, <1>2, LogGrows
<1>8. file' \in [Hosted -> Seq(B)] /\ \A q \in Hosted : q # p => file'[q] = file[q]
  <2>1. file' = [file EXCEPT ![p] = t]
    BY <1>3, <1>4
  <2> QED  BY <1>3, <1>7, <2>1
<1>9. ASSUME NEW q \in Hosted
      PROVE  /\ file'[q] = <<>> => Home(q)' = 0
             /\ file'[q] # <<>> =>
                  Home(q)' = file'[q][Len(file'[q])].base + file'[q][Len(file'[q])].count
             /\ \A i \in DOMAIN file'[q] : file'[q][i].base + file'[q][i].count <= Home(q)'
  <2>1. CASE q = p
    BY <1>4, <1>7, <2>1
  <2>2. CASE q # p
    BY <1>8, <2>2 DEF Written
  <2> QED  BY <2>1, <2>2
<1> QED  BY <1>1, <1>8, <1>9 DEF Written

\* What producers are told lies behind everything they were told before.
LEMMA AcknowledgedGrows ==
  ASSUME Acknowledged, OffsetsUnique, NEW p \in Hosted, NEW n \in Counts, NEW told,
         \A q \in Hosted : Home(q) \in Nat,
         told.partition = p, told.base = Home(p), told.count = n, acked' = acked \cup {told},
         Home(p)' = Home(p) + n, \A q \in Hosted : q # p => Home(q)' = Home(q)
  PROVE  (Acknowledged /\ OffsetsUnique)'
<1>1. n \in Nat /\ n > 0
  BY CountIsNat
<1>2. \A a \in acked : /\ a.partition \in Hosted /\ a.base \in Nat /\ a.count \in Counts
                       /\ a.count \in Nat /\ a.count > 0
                       /\ a.base + a.count <= Home(a.partition)
  BY CountIsNat DEF Acknowledged
<1>3. told.base \in Nat /\ told.base + told.count = Home(p)'
      /\ told.base + told.count <= Home(p)'
  BY <1>1
<1>4. \A a \in acked : a.base + a.count <= Home(a.partition)'
  BY <1>1, <1>2
<1>5. Acknowledged'
  <2>1. \A a \in acked' : /\ a.partition \in Hosted /\ a.base \in Nat /\ a.count \in Counts
                          /\ a.base + a.count <= Home(a.partition)'
    BY <1>2, <1>3, <1>4
  <2>2. ASSUME NEW q \in Hosted
        PROVE  Home(q)' = 0 \/ \E a \in acked' : a.partition = q /\ a.base + a.count = Home(q)'
    BY <1>3 DEF Acknowledged
  <2> QED  BY <2>1, <2>2 DEF Acknowledged
<1>6. OffsetsUnique'
  <2>1. \A a \in acked : a.partition = p => ~ (told.base < a.base + a.count)
    BY <1>2
  <2> SUFFICES ASSUME NEW a \in acked', NEW b \in acked', a.partition = b.partition,
                      a.base < b.base + b.count, b.base < a.base + a.count
               PROVE  a = b
    BY DEF OffsetsUnique
  <2>2. CASE a \in acked /\ b \in acked
    BY <2>2 DEF OffsetsUnique
  <2>3. CASE a = told \/ b = told
    BY <2>1, <2>3
  <2> QED  BY <2>2, <2>3
<1> QED  BY <1>5, <1>6

LEMMA ProduceInv ==
  ASSUME Inv, NEW r \in Reactors, ProduceEntry(r)
  PROVE  Inv'
<1>1. Good(current[r]) /\ current[r].target = r /\ current' = [current EXCEPT ![r] = Idle]
  BY ProceedIsDone DEF ProduceEntry
<1> PICK p \in Partitions, n \in Counts :
      p = current[r].entries[1].partition /\ n = current[r].entries[1].count
  BY <1>1 DEF Good, ProduceEntry
<1>2. p \in Hosted => r = route[p]
  BY <1>1 DEF Good
<1>3. UNCHANGED <<route, pending, submitted>> /\ LatestCoversAcked'
  BY DEF ProduceEntry, LatestCoversAcked
<1>4. CASE p \notin Hosted
  <2>1. UNCHANGED <<contexts, file, acked>>
    BY <1>4 DEF ProduceEntry
  <2>2. (Typed /\ Requests /\ Written /\ Acknowledged /\ OffsetsUnique)'
    BY <1>1, <1>2, <1>3, <2>1, ContextMade
  <2> QED  BY <1>3, <2>2 DEF Inv
<1>5. CASE p \in Hosted
  <2>1. PICK h, told :
          /\ h = Context(r, p) /\ h + n <= MaxOffset
          /\ told.partition = p /\ told.base = h /\ told.count = n
          /\ contexts' = AdvanceContext(r, p, n)
          /\ file' = [file EXCEPT ![p] = Append(@, [base |-> h, count |-> n])]
          /\ acked' = acked \cup {told}
    BY <1>5 DEF ProduceEntry
  <2>2. n \in Nat
    BY CountIsNat
  <2>3. /\ h \in 0..MaxOffset
        /\ DOMAIN contexts' = Reactors
        /\ \A s \in Reactors : /\ DOMAIN contexts'[s] \subseteq Hosted \cup Stray
                              /\ \A q \in DOMAIN contexts'[s] : contexts'[s][q] \in 0..MaxOffset
        /\ Home(p) = h /\ Home(p)' = h + n
        /\ \A q \in Hosted : q # p => Home(q)' = Home(q)
    BY <1>2, <1>3, <1>5, <2>1, <2>2, Advanced DEF Inv
  <2>4. \A q \in Hosted : Home(q) \in Nat /\ Home(q) <= Home(q)'
    BY <2>2, <2>3, HomeIsNat DEF Inv
  <2>5. Written'
    BY <1>5, <2>1, <2>3, WrittenGrows DEF Inv
  <2>6. (Acknowledged /\ OffsetsUnique)'
    BY <1>5, <2>1, <2>3, <2>4, AcknowledgedGrows DEF Inv
  <2>7. Typed'
    <3>1. TypeOK'
      <4>1. PICK B : B = [base: 0..MaxOffset, count: Counts]
        OBVIOUS
      <4>2. \A q \in Hosted : file'[q] \in Seq(B)
        BY <2>5, <4>1 DEF Written
      <4>3. \A q \in Hosted : Range(file'[q]) \subseteq B
        BY <4>2, RangeOf
      <4>4. route' \in [Partitions -> Reactors] /\ submitted' \in 0..MaxRequests
        BY <1>3 DEF Inv, Typed, TypeOK
      <4> QED  BY <2>3, <4>1, <4>3, <4>4 DEF TypeOK
    <3> QED  BY <1>1, <2>3, <3>1 DEF Inv, Typed
  <2>8. Requests'
    BY <1>1, <1>3, <2>4, <2>7, RequestsStay
  <2> QED  BY <1>3, <2>5, <2>6, <2>7, <2>8 DEF Inv
<1> QED  BY <1>4, <1>5

-----------------------------------------------------------------------------
LEMMA NextInv ==
  ASSUME Inv, MaxEntries = 1, [Next]_vars
  PROVE  Inv'
<1>1. CASE UNCHANGED vars
  <2>1. UNCHANGED <<route, pending, current, contexts, file, submitted, acked, listed>>
    BY <1>1 DEF vars
  <2>2. \A p \in Hosted : Home(p)' = Home(p) /\ Home(p) \in Nat
    BY <2>1, HomeStays, HomeIsNat DEF Inv
  <2>3. \A q : Good(q) => Good(q)'
    BY <2>1, <2>2, GoodStays
  <2>4. Requests'
    BY <2>1, <2>3 DEF Inv, Requests
  <2>5. submitted' \in 0..MaxRequests
    BY <2>1 DEF Inv, Typed, TypeOK
  <2> QED  BY <2>1, <2>4, <2>5, StorageStays DEF Inv, Typed, LatestCoversAcked
<1>2. ASSUME NEW source \in Reactors,
             NEW entries \in Lists([partition: Partitions, count: Counts]),
             Submit(source, "produce", entries)
      PROVE  Inv'
  BY <1>2, SubmitInv
<1>3. ASSUME NEW source \in Reactors, NEW entries \in Lists([partition: Partitions]),
             NEW api \in {"list", "fetch"}, Submit(source, api, entries)
      PROVE  Inv'
  BY <1>3, SubmitInv
<1>4. ASSUME NEW r \in Reactors,
             ProduceEntry(r) \/ ListEntry(r) \/ FetchEntry(r) \/ \E req \in pending : Begin(r, req)
      PROVE  Inv'
  BY <1>4, ProduceInv, ListInv, FetchInv, BeginInv
<1> QED  BY <1>1, <1>2, <1>3, <1>4 DEF Next

\* Produce requests that list one partition are never acknowledged at
\* overlapping offsets, and ListOffsets and Fetch are never stale, however
\* many reactors there are and whichever of them clients are connected to:
\* extract_partition_key sends all requests for a partition to one context.
THEOREM OneContextPerPartition ==
  ASSUME MaxEntries = 1
  PROVE  Spec => [](TypeOK /\ OffsetsUnique /\ LatestCoversAcked)
<1>1. Init => Inv
  BY InitInv
<1>2. Inv /\ [Next]_vars => Inv'
  BY NextInv
<1>3. Inv => TypeOK /\ OffsetsUnique /\ LatestCoversAcked
  BY DEF Inv, Typed
<1> QED  BY <1>1, <1>2, <1>3, PTL DEF Spec

\* A file changes only in handle_produce, and there by the batch that is based
\* where the file ends.
LEMMA StepAppends ==
  ASSUME Inv, [Next]_vars
  PROVE  \A p \in Hosted : [LogOf(p)!AppendBatch]_(file[p])
<1> SUFFICES ASSUME NEW p \in Hosted
             PROVE  LogOf(p)!AppendBatch \/ file'[p] = file[p]
  OBVIOUS
<1>1. CASE UNCHANGED file
  BY <1>1
<1>2. ASSUME NEW r \in Reactors, ProduceEntry(r), ~UNCHANGED file
      PROVE  LogOf(p)!AppendBatch \/ file'[p] = file[p]
  <2>1. Good(current[r]) /\ current[r].target = r
    BY <1>2, ProceedIsDone DEF ProduceEntry
  <2> PICK q \in Hosted, n \in Counts :
        q = current[r].entries[1].partition /\ n = current[r].entries[1].count
    BY <1>2, <2>1 DEF Good, ProduceEntry
  <2>2. file' = [file EXCEPT ![q] = Append(@, [base |-> Context(r, q), count |-> n])]
    BY <1>2 DEF ProduceEntry
  <2>3. Context(r, q) = Home(q)
    BY <2>1 DEF Good, Home
  <2>4. Home(q) = LogOf(q)!End(file[q])
    BY DEF Inv, Written, LogOf!End
  <2>5. q \in DOMAIN file
    BY DEF Inv, Written
  <2>6. CASE p = q
    <3>1. file'[q] = Append(file[q], [base |-> LogOf(q)!End(file[q]), count |-> n])
      BY <2>2, <2>3, <2>4, <2>5
    <3> QED  BY <2>6, <3>1 DEF LogOf!AppendBatch
  <2>7. CASE p # q
    BY <2>2, <2>7
  <2> QED  BY <2>6, <2>7
<1>3. CASE Next
  <2>1. UNCHANGED file \/ \E r \in Reactors : ProduceEntry(r)
    BY <1>3 DEF Next, Submit, Begin, ListEntry, FetchEntry
  <2> QED  BY <1>1, <1>2, <2>1
<1> QED  BY <1>1, <1>3 DEF vars

\* The file that all reactors open for a partition is one append-only log,
\* each batch based where the one before it ends.
THEOREM FilesAreLogs ==
  ASSUME MaxEntries = 1
  PROVE  Spec => PartitionsAreLogs
<1>1. Init => Inv
  BY InitInv
<1>2. Inv /\ [Next]_vars => Inv'
  BY NextInv
<1>3. Inv /\ [Next]_vars => [\A p \in Hosted : [LogOf(p)!AppendBatch]_(file[p])]_vars
  BY StepAppends
<1> QED  BY <1>1, <1>2, <1>3, PTL DEF Spec, PartitionsAreLogs
=============================================================================
