----------------------- MODULE PartitionContextProofs -----------------------
(***************************************************************************)
(* What producers are told, whatever happens to the writes: any segment    *)
(* size, any batches, opens that fail, writes that are dropped or carried  *)
(* out in any order.                                                       *)
(*                                                                         *)
(* produce() takes its offsets from next_offset_ alone and moves it only   *)
(* once the segment is open, so the argument needs no more of the files    *)
(* than that every descriptor and every write under way has its segment.   *)
(***************************************************************************)
EXTENDS PartitionContext, TLAPS

\* TypeOK with the variables known to be sequences and functions.
Typed ==
  /\ next_offset \in Offsets /\ current_segment_base_offset \in Offsets
  /\ current_segment_bytes \in Nat
  /\ current_segment_index \in Seq([offset: Offsets, position: Nat])
  /\ write_fd \in DOMAIN files \cup {NoFd} /\ read_fd \in DOMAIN files \cup {NoFd}
  /\ files = [s \in DOMAIN files |-> files[s]]
  /\ \A s \in DOMAIN files : s \in Offsets /\ files[s] \in Seq(Batches)
  /\ inflight \in Seq([fd: DOMAIN files, batch: Batches])
  /\ intact \in BOOLEAN /\ acked \in Seq(Batches)

-----------------------------------------------------------------------------
LEMMA RemoveAtType ==
  ASSUME NEW S, NEW s \in Seq(S), NEW i \in DOMAIN s
  PROVE  RemoveAt(s, i) \in Seq(S)
BY DEF RemoveAt

LEMMA SeqWiden ==
  ASSUME NEW S, NEW T, S \subseteq T, NEW s \in Seq(S)
  PROVE  s \in Seq(T)
OBVIOUS

LEMMA ElementOf ==
  ASSUME NEW S, NEW s \in Seq(S), NEW i \in DOMAIN s
  PROVE  s[i] \in S
OBVIOUS

LEMMA AppendType ==
  ASSUME NEW S, NEW s \in Seq(S), NEW e \in S
  PROVE  Append(s, e) \in Seq(S)
OBVIOUS

LEMMA AtMostNext ==
  ASSUME NEW n \in Counts, Typed
  PROVE  n \in Nat /\ n > 0 /\ Size(n) \in Nat /\ next_offset \in Nat
<1>1. n \in Nat /\ n > 0
  BY PartitionAssumption
<1>2. next_offset \in Nat
  BY DEF Typed, Offsets
<1> QED  BY <1>1, <1>2, PartitionAssumption DEF Size

LEMMA SegmentType ==
  ASSUME NEW n \in Counts, Typed
  PROVE  /\ SegmentBase(n) \in Offsets /\ SegmentPosition(n) \in Nat
         /\ SegmentIndex(n) \in Seq([offset: Offsets, position: Nat])
BY DEF Typed, SegmentBase, SegmentPosition, SegmentIndex

LEMMA InitTyped ==
  ASSUME Init
  PROVE  Typed /\ OffsetsDense
<1>1. Typed
  BY PartitionAssumption DEF Init, Typed, Offsets
<1>2. OffsetsDense
  BY DEF Init, OffsetsDense, Log!End
<1> QED  BY <1>1, <1>2

-----------------------------------------------------------------------------
\* Opening the segment keeps every other one, and the writes under way.
LEMMA OpenedType ==
  ASSUME Typed, NEW base \in Offsets, NEW onDisk, onDisk = Opened(base)
  PROVE  /\ onDisk = [s \in DOMAIN onDisk |-> onDisk[s]]
         /\ DOMAIN onDisk = DOMAIN files \cup {base}
         /\ \A s \in DOMAIN onDisk : s \in Offsets /\ onDisk[s] \in Seq(Batches)
         /\ inflight \in Seq([fd: DOMAIN onDisk, batch: Batches])
<1>1. DOMAIN onDisk = DOMAIN files \cup {base} /\ onDisk = [s \in DOMAIN onDisk |-> onDisk[s]]
  BY DEF Opened
<1>2. \A s \in DOMAIN onDisk : s \in Offsets /\ onDisk[s] \in Seq(Batches)
  BY DEF Opened, Typed
<1>3. [fd: DOMAIN files, batch: Batches] \subseteq [fd: DOMAIN onDisk, batch: Batches]
  BY <1>1
<1>4. inflight \in Seq([fd: DOMAIN onDisk, batch: Batches])
  <2>1. PICK S, T : /\ S = [fd: DOMAIN files, batch: Batches]
                    /\ T = [fd: DOMAIN onDisk, batch: Batches]
    OBVIOUS
  <2>2. S \subseteq T /\ inflight \in Seq(S)
    BY <1>3, <2>1 DEF Typed
  <2>3. inflight \in Seq(T)
    BY <2>2, SeqWiden
  <2> QED  BY <2>1, <2>3
<1> QED  BY <1>1, <1>2, <1>4

\* Through the ring or straight to the file.
LEMMA SubmitType ==
  ASSUME Typed, NEW base \in Offsets, NEW batch \in Batches, Submit(base, batch, Opened(base))
  PROVE  /\ files' = [s \in DOMAIN files' |-> files'[s]]
         /\ DOMAIN files' = DOMAIN files \cup {base}
         /\ \A s \in DOMAIN files' : s \in Offsets /\ files'[s] \in Seq(Batches)
         /\ inflight' \in Seq([fd: DOMAIN files', batch: Batches])
         /\ intact' \in BOOLEAN
<1>1. PICK onDisk : onDisk = Opened(base)
  OBVIOUS
<1>2. /\ onDisk = [s \in DOMAIN onDisk |-> onDisk[s]]
      /\ DOMAIN onDisk = DOMAIN files \cup {base}
      /\ \A s \in DOMAIN onDisk : s \in Offsets /\ onDisk[s] \in Seq(Batches)
      /\ inflight \in Seq([fd: DOMAIN onDisk, batch: Batches])
  BY <1>1, OpenedType
<1>3. CASE /\ inflight' = Append(inflight, [fd |-> base, batch |-> batch])
           /\ files' = onDisk /\ UNCHANGED intact
  <2>1. [fd |-> base, batch |-> batch] \in [fd: DOMAIN onDisk, batch: Batches]
    BY <1>2
  <2>2. inflight' \in Seq([fd: DOMAIN onDisk, batch: Batches])
    BY <1>2, <1>3, <2>1, AppendType
  <2>3. files' = onDisk /\ intact' \in BOOLEAN
    BY <1>3 DEF Typed
  <2> QED  BY <1>2, <2>2, <2>3
<1>4. CASE /\ files' = [onDisk EXCEPT ![base] = Append(@, batch)]
           /\ intact' = (intact /\ inflight = <<>>) /\ UNCHANGED inflight
  <2>1. base \in DOMAIN onDisk /\ Append(onDisk[base], batch) \in Seq(Batches)
    BY <1>2, AppendType
  <2>2. DOMAIN files' = DOMAIN onDisk /\ files' = [s \in DOMAIN files' |-> files'[s]]
    BY <1>2, <1>4
  <2>3. \A s \in DOMAIN files' : s \in Offsets /\ files'[s] \in Seq(Batches)
    BY <1>2, <1>4, <2>1, <2>2
  <2>4. intact' \in BOOLEAN
    BY <1>4
  <2> QED  BY <1>2, <1>4, <2>2, <2>3, <2>4
<1> QED  BY <1>1, <1>3, <1>4 DEF Submit

LEMMA ProduceTyped ==
  ASSUME Typed, NEW n \in Counts, Produce(n)
  PROVE  Typed'
<1>1. PICK base, batch : base = SegmentBase(n) /\ batch = [base |-> next_offset, count |-> n]
  OBVIOUS
<1>2. base \in Offsets /\ SegmentPosition(n) \in Nat
      /\ SegmentIndex(n) \in Seq([offset: Offsets, position: Nat])
  BY <1>1, SegmentType
<1>3. n \in Nat /\ Size(n) \in Nat /\ next_offset \in Nat
  BY AtMostNext
<1>4. next_offset' \in Offsets
  BY <1>3, PartitionAssumption DEF Produce, Offsets
<1>5. batch \in Batches
  BY <1>1 DEF Typed, Batches
<1>6. /\ files' = [s \in DOMAIN files' |-> files'[s]]
      /\ DOMAIN files' = DOMAIN files \cup {base}
      /\ \A s \in DOMAIN files' : s \in Offsets /\ files'[s] \in Seq(Batches)
      /\ inflight' \in Seq([fd: DOMAIN files', batch: Batches])
      /\ intact' \in BOOLEAN
  <2>1. Submit(base, batch, Opened(base))
    BY <1>1 DEF Produce
  <2> QED  BY <1>2, <1>5, <2>1, SubmitType
<1>7. current_segment_base_offset' = base /\ write_fd' = base
      /\ read_fd' \in {NoFd, read_fd}
  BY <1>1 DEF Produce
<1>8. current_segment_index' \in Seq([offset: Offsets, position: Nat])
  <2>1. [offset |-> next_offset, position |-> SegmentPosition(n)] \in [offset: Offsets, position: Nat]
    BY <1>2 DEF Typed
  <2> QED  BY <1>2, <2>1, AppendType DEF Produce
<1>9. current_segment_bytes' \in Nat
  BY <1>2, <1>3 DEF Produce
<1>10. acked' \in Seq(Batches)
  BY <1>1, <1>5, AppendType DEF Produce, Typed
<1>11. write_fd' \in DOMAIN files' \cup {NoFd} /\ read_fd' \in DOMAIN files' \cup {NoFd}
  BY <1>6, <1>7 DEF Typed
<1> QED  BY <1>2, <1>4, <1>6, <1>7, <1>8, <1>9, <1>10, <1>11 DEF Typed

LEMMA UnopenedTyped ==
  ASSUME Typed, NEW n \in Counts, ProduceUnopened(n)
  PROVE  Typed'
<1>1. /\ SegmentBase(n) \in Offsets /\ SegmentPosition(n) \in Nat
      /\ SegmentIndex(n) \in Seq([offset: Offsets, position: Nat])
  BY SegmentType
<1> QED  BY <1>1 DEF Typed, ProduceUnopened

LEMMA LandTyped ==
  ASSUME Typed, NEW i \in DOMAIN inflight, Land(i)
  PROVE  Typed'
<1>1. PICK w : w = inflight[i] /\ w \in [fd: DOMAIN files, batch: Batches]
  <2>1. inflight \in Seq([fd: DOMAIN files, batch: Batches])
    BY DEF Typed
  <2> QED  BY <2>1, ElementOf
<1>2. Append(files[w.fd], w.batch) \in Seq(Batches)
  BY <1>1, AppendType DEF Typed
<1>3. files' = files \/ files' = [files EXCEPT ![w.fd] = Append(@, w.batch)]
  BY <1>1 DEF Land
<1>4. /\ DOMAIN files' = DOMAIN files /\ files' = [s \in DOMAIN files' |-> files'[s]]
      /\ \A s \in DOMAIN files' : s \in Offsets /\ files'[s] \in Seq(Batches)
  BY <1>1, <1>2, <1>3 DEF Typed
<1>5. inflight' \in Seq([fd: DOMAIN files, batch: Batches])
  BY RemoveAtType DEF Land, Typed
<1>6. intact' \in BOOLEAN
  BY DEF Land
<1> QED  BY <1>4, <1>5, <1>6 DEF Land, Typed, contextVars

LEMMA FetchTyped ==
  ASSUME Typed, NEW offset, NEW max, Fetch(offset, max)
  PROVE  Typed'
<1>1. read_fd' \in DOMAIN files \cup {NoFd}
  BY DEF Fetch, ReadFd, Typed
<1> QED  BY <1>1 DEF Fetch, Typed, contextVars

-----------------------------------------------------------------------------
\* A batch based where the last one ends makes the list of batches longer and
\* keeps it dense.
LEMMA DenseGrows ==
  ASSUME NEW B, NEW s \in Seq(B), NEW e \in B, NEW t, t = Append(s, e),
         \A i \in DOMAIN s : s[i].base = IF i = 1 THEN 0 ELSE s[i - 1].base + s[i - 1].count,
         e.base = IF s = <<>> THEN 0 ELSE s[Len(s)].base + s[Len(s)].count
  PROVE  /\ \A i \in DOMAIN t : t[i].base = IF i = 1 THEN 0 ELSE t[i - 1].base + t[i - 1].count
         /\ t # <<>> /\ t[Len(t)] = e
<1>1. /\ Len(t) = Len(s) + 1 /\ Len(s) \in Nat /\ t[Len(s) + 1] = e /\ t # <<>>
      /\ DOMAIN s = 1..Len(s) /\ DOMAIN t = 1..(Len(s) + 1)
      /\ \A i \in 1..Len(s) : t[i] = s[i]
  OBVIOUS
<1>2. ASSUME NEW i \in 1..Len(s)
      PROVE  t[i].base = IF i = 1 THEN 0 ELSE t[i - 1].base + t[i - 1].count
  <2>1. CASE i = 1
    BY <1>1, <2>1
  <2>2. CASE i # 1
    <3>1. i - 1 \in 1..Len(s)
      BY <1>1, <2>2
    <3> QED  BY <1>1, <2>2, <3>1
  <2> QED  BY <2>1, <2>2
<1>3. t[Len(s) + 1].base =
        IF Len(s) + 1 = 1 THEN 0 ELSE t[Len(s) + 1 - 1].base + t[Len(s) + 1 - 1].count
  <2>1. CASE s = <<>>
    BY <1>1, <2>1
  <2>2. CASE s # <<>>
    <3>1. Len(s) \in 1..Len(s) /\ Len(s) + 1 - 1 = Len(s) /\ Len(s) + 1 # 1
      BY <1>1, <2>2
    <3> QED  BY <1>1, <2>2, <3>1
  <2> QED  BY <2>1, <2>2
<1>4. \A i \in DOMAIN t : t[i].base = IF i = 1 THEN 0 ELSE t[i - 1].base + t[i - 1].count
  <2>1. \A i \in DOMAIN t : i \in 1..Len(s) \/ i = Len(s) + 1
    BY <1>1
  <2> QED  BY <1>2, <1>3, <2>1
<1>5. t # <<>> /\ t[Len(t)] = e
  BY <1>1
<1> QED  BY <1>4, <1>5

LEMMA ProduceDense ==
  ASSUME Typed, OffsetsDense, NEW n \in Counts, Produce(n)
  PROVE  OffsetsDense'
<1>1. PICK e, s, t : /\ e = [base |-> next_offset, count |-> n] /\ s = acked /\ t = acked'
                     /\ t = Append(s, e) /\ next_offset' = next_offset + n
  BY DEF Produce
<1>2. e \in Batches /\ s \in Seq(Batches) /\ e.base = next_offset /\ e.count = n
  BY <1>1 DEF Typed, Batches
<1>3. /\ \A i \in DOMAIN s : s[i].base = IF i = 1 THEN 0 ELSE s[i - 1].base + s[i - 1].count
      /\ e.base = IF s = <<>> THEN 0 ELSE s[Len(s)].base + s[Len(s)].count
  BY <1>1, <1>2 DEF OffsetsDense, Log!End
<1>4. /\ \A i \in DOMAIN t : t[i].base = IF i = 1 THEN 0 ELSE t[i - 1].base + t[i - 1].count
      /\ t # <<>> /\ t[Len(t)] = e
  <2>1. PICK B : B = Batches
    OBVIOUS
  <2>2. s \in Seq(B) /\ e \in B /\ t = Append(s, e)
    BY <1>1, <1>2, <2>1
  <2> QED  BY <1>3, <2>2, DenseGrows
<1>5. next_offset' = t[Len(t)].base + t[Len(t)].count
  BY <1>1, <1>2, <1>4
<1> QED  BY <1>1, <1>4, <1>5 DEF OffsetsDense, Log!End

\* One step per action.
LEMMA NextTyped ==
  ASSUME Typed, OffsetsDense, [Next]_vars
  PROVE  (Typed /\ OffsetsDense)'
<1>1. ASSUME UNCHANGED <<next_offset, acked>>
      PROVE  OffsetsDense'
  BY <1>1 DEF OffsetsDense, Log!End
<1>2. CASE UNCHANGED vars
  <2>1. Typed'
    BY <1>2 DEF vars, contextVars, Typed
  <2> QED  BY <1>1, <1>2, <2>1 DEF vars, contextVars
<1>3. ASSUME NEW n \in Counts, Produce(n)
      PROVE  (Typed /\ OffsetsDense)'
  BY <1>3, ProduceTyped, ProduceDense
<1>4. ASSUME NEW n \in Counts, ProduceUnopened(n)
      PROVE  (Typed /\ OffsetsDense)'
  <2>1. UNCHANGED <<next_offset, acked>>
    BY <1>4 DEF ProduceUnopened
  <2> QED  BY <1>1, <1>4, <2>1, UnopenedTyped
<1>5. ASSUME NEW i \in DOMAIN inflight, Land(i)
      PROVE  (Typed /\ OffsetsDense)'
  <2>1. UNCHANGED <<next_offset, acked>>
    BY <1>5 DEF Land, contextVars
  <2> QED  BY <1>1, <1>5, <2>1, LandTyped
<1>6. ASSUME NEW offset \in Offsets, NEW max \in MaxBytes, Fetch(offset, max)
      PROVE  (Typed /\ OffsetsDense)'
  <2>1. UNCHANGED <<next_offset, acked>>
    BY <1>6 DEF Fetch, contextVars
  <2> QED  BY <1>1, <1>6, <2>1, FetchTyped
<1> QED  BY <1>2, <1>3, <1>4, <1>5, <1>6 DEF Next

LEMMA TypedIsTypeOK ==
  ASSUME Typed
  PROVE  TypeOK
<1>1. \A i \in DOMAIN current_segment_index :
        current_segment_index[i] \in [offset: Offsets, position: Nat]
  BY ElementOf DEF Typed
<1>2. \A s \in DOMAIN files : s \in Offsets /\ Range(files[s]) \subseteq Batches
  BY ElementOf DEF Typed, Range
<1>3. \A i \in DOMAIN inflight : inflight[i] \in [fd: DOMAIN files, batch: Batches]
  <2>1. PICK W : W = [fd: DOMAIN files, batch: Batches]
    OBVIOUS
  <2>2. inflight \in Seq(W)
    BY <2>1 DEF Typed
  <2>3. \A i \in DOMAIN inflight : inflight[i] \in W
    BY <2>2, ElementOf
  <2> QED  BY <2>1, <2>3
<1>4. Range(acked) \subseteq Batches
  BY ElementOf DEF Typed, Range
<1> QED  BY <1>1, <1>2, <1>3, <1>4 DEF Typed, TypeOK

\* Descriptors and writes under way always name a segment that exists, and
\* producers are never told overlapping offsets nor offsets with a gap:
\* produce() moves next_offset_ only once the segment is open.
THEOREM OffsetsStayDense == Spec => [](TypeOK /\ OffsetsDense)
<1>1. Init => Typed /\ OffsetsDense
  BY InitTyped
<1>2. (Typed /\ OffsetsDense) /\ [Next]_vars => (Typed /\ OffsetsDense)'
  BY NextTyped
<1>3. Typed => TypeOK
  BY TypedIsTypeOK
<1> QED  BY <1>1, <1>2, <1>3, PTL DEF Spec
=============================================================================
