-------------------------------- MODULE Wire --------------------------------
(***************************************************************************)
(* The bytes of the protocol: varints, big-endian integers, and the reader *)
(* (ByteReader) through which every request and record batch is decoded.   *)
(*                                                                         *)
(* A parser of the source is a straight line of reads, each of which       *)
(* returns from the parser when it fails.  Here it is the sequence of what *)
(* it reads: each element is a field, with the name of the request's       *)
(* member it ends up in, or "" when the value is dropped.                  *)
(***************************************************************************)
EXTENDS Integers, SequencesExt

\* varint_encoded_size
RECURSIVE VarintSize(_)
VarintSize(v) == IF v < 128 THEN 1 ELSE 1 + VarintSize(v \div 128)

\* write_unsigned_varint: seven bits a byte, the lowest first.
RECURSIVE Varint(_)
Varint(v) == IF v > 127 THEN <<128 + (v % 128)>> \o Varint(v \div 128) ELSE <<v>>

ZigzagEncode(v) == IF v >= 0 THEN 2 * v ELSE -2 * v - 1
ZigzagDecode(e) == IF e % 2 = 0 THEN e \div 2 ELSE -(e \div 2) - 1

\* encode_int*_be: two's complement in w bytes, the highest first.
RECURSIVE BigEndian(_, _)
BigEndian(v, w) == IF w = 0 THEN <<>> ELSE Append(BigEndian(v \div 256, w - 1), v % 256)

\* decode_int*_be
Decoded(bytes) ==
  FoldLeft(LAMBDA acc, b : 256 * acc + b, IF bytes[1] > 127 THEN -1 ELSE 0, bytes)

-----------------------------------------------------------------------------
(***************************************************************************)
(* ByteReader.  pos is offset_, ok turns FALSE at the first read that      *)
(* returns an error, val holds the members read so far.                    *)
(***************************************************************************)
Reader(buf) == [buf |-> buf, pos |-> 0, ok |-> TRUE, val |-> <<>>]

Remaining(rd) == Len(rd.buf) - rd.pos
Failed(rd) == [rd EXCEPT !.ok = FALSE]
Ahead(rd, n) == SubSeq(rd.buf, rd.pos + 1, rd.pos + n)

\* The read succeeds: n bytes on, with the value v for the member name.
Kept(rd, name, v, n) ==
  [rd EXCEPT !.pos = @ + n, !.val = IF name = "" THEN @ ELSE (name :> v) @@ @]

\* read_unsigned_varint, at the reader's offset: where the first byte without
\* a continuation bit is.  A fifth byte is refused (0 here), and so is a
\* buffer that ends before.
VarintEnd(rd) ==
  LET ends == {i \in 1..Min({4, Remaining(rd)}) : rd.buf[rd.pos + i] < 128}
  IN  IF ends = {} THEN 0 ELSE Min(ends)

\* The value: the low seven bits of the bytes up to there.
VarintValue(rd) ==
  FoldRight(LAMBDA b, acc : (128 * acc) + (b % 128), Ahead(rd, VarintEnd(rd)), 0)

\* Mutant: the reader moves by one byte, whatever the length takes.
VarintStepByOne(v) == 1

\* read_varint moves by the size the value needs, not by the bytes it found.
VarintStep(v) == VarintSize(v)

\* Mutant: the bytes of a string or blob are taken as they come.
TakeShort(rd, name, n) ==
  LET some == Min({n, Remaining(rd)})
  IN  Kept(rd, name, Ahead(rd, some), some)

\* read_bytes and skip.
Take(rd, name, n) == IF Remaining(rd) < n THEN Failed(rd) ELSE Kept(rd, name, Ahead(rd, n), n)

\* A length that was read; what it is the length of is next.
Past(rd, n) == Kept(rd, "", 0, n)

-----------------------------------------------------------------------------
(***************************************************************************)
(* What the parsers read.                                                  *)
(***************************************************************************)
Num(name, w)     == [type |-> "int", name |-> name, w |-> w]      \* read_int8 .. read_int64
Loose(name, w)   == [type |-> "loose", name |-> name, w |-> w]    \* ... the result not looked at
Flag(name)       == [type |-> "flag", name |-> name]              \* read_int8, then != 0
Raw(name, w)     == [type |-> "raw", name |-> name, w |-> w]      \* read_bytes, or skip
Str(name)        == [type |-> "str", name |-> name]               \* read_compact_string
Blob(name)       == [type |-> "blob", name |-> name]              \* varint, then read_bytes
OldStr           == [type |-> "oldstr", name |-> ""]              \* read_int16, then skip
Arr(name, of)    == [type |-> "arr", name |-> name, of |-> of]    \* varint, then a loop
BareArr(name, of) == [type |-> "bare", name |-> name, of |-> of]  \* ... without a test for null
OldNames(name)   == [type |-> "names", name |-> name]             \* read_int32, then a loop
Unless(flag, of) == [type |-> "unless", flag |-> flag, of |-> of] \* read_int8, then maybe more
Unsigned(name)   == [type |-> "varint", name |-> name]            \* read_varint
Signed(name)     == [type |-> "signed", name |-> name]            \* read_signed_varint
SignedBlob(name) == [type |-> "signedblob", name |-> name]        \* ..., then read_bytes
Tag              == Raw("", 1)                                    \* TAG_BUFFER

ReadInt(rd, f) ==
  IF Remaining(rd) < f.w THEN Failed(rd) ELSE Kept(rd, f.name, Decoded(Ahead(rd, f.w)), f.w)

\* A result that is used without a look at whether it holds a value: when it
\* does not, the member is whatever the error leaves there.
ReadLoose(rd, f) ==
  IF Remaining(rd) < f.w THEN Kept(rd, f.name, "undefined", 0) ELSE ReadInt(rd, f)

\* Length 0 is null: an error in a string, the same as empty in a blob.
ReadStr(rd, f) ==
  LET n == VarintValue(rd)
  IN  IF VarintEnd(rd) = 0 \/ n < 1 THEN Failed(rd) ELSE Take(Past(rd, VarintStep(n)), f.name, n - 1)

ReadBlob(rd, f) ==
  LET n == VarintValue(rd)
  IN  IF VarintEnd(rd) = 0 THEN Failed(rd)
      ELSE IF n > 1 THEN Take(Past(rd, VarintStep(n)), f.name, n - 1)
      ELSE Kept(rd, f.name, <<>>, VarintStep(n))

ReadSignedBlob(rd, f) ==
  LET e == VarintValue(rd)
      n == ZigzagDecode(e)
  IN  IF VarintEnd(rd) = 0 THEN Failed(rd)
      ELSE IF n > 0 THEN Take(Past(rd, VarintStep(e)), f.name, n)
      ELSE Kept(rd, f.name, <<>>, VarintStep(e))

\* client_id: a length of 0 or -1 is followed by nothing.
ReadOldStr(rd) ==
  LET n == Decoded(Ahead(rd, 2))
  IN  IF Remaining(rd) < 2 THEN Failed(rd)
      ELSE IF n > 0 THEN Take(Past(rd, 2), "", n) ELSE Past(rd, 2)

\* The topics of a Metadata request; a name without a byte is left out.
RECURSIVE ReadNames(_, _, _, _)
ReadNames(rd, f, n, names) ==
  LET len == Decoded(Ahead(rd, 2))
      nxt == Take(Past(rd, 2), "", Max({len, 0}))
  IN  IF n <= 0 THEN Kept(rd, f.name, names, 0)
      ELSE IF Remaining(rd) < 2 \/ ~nxt.ok THEN Failed(rd)
      ELSE ReadNames(nxt, f, n - 1,
                     IF len > 0 THEN Append(names, SubSeq(rd.buf, rd.pos + 3, nxt.pos)) ELSE names)

RECURSIVE ReadAll(_, _)
RECURSIVE ReadTimes(_, _, _, _)

\* The body of a loop, n times over; each turn makes one element.
ReadTimes(rd, f, n, elements) ==
  LET turn == ReadAll([rd EXCEPT !.val = <<>>], f.of)
  IN  IF n = 0 THEN Kept(rd, f.name, elements, 0)
      ELSE IF ~turn.ok THEN Failed(rd)
      ELSE ReadTimes([turn EXCEPT !.val = rd.val], f, n - 1, Append(elements, turn.val))

\* A null array has no elements.  Without the test, its count is 2^32 - 1
\* (0 - 1, unsigned), and the loop fails when it runs out of bytes.
ReadArr(rd, f) ==
  LET n == VarintValue(rd)
      rest == Past(rd, VarintStep(n))
  IN  IF VarintEnd(rd) = 0 \/ (n = 0 /\ f.type = "bare") THEN Failed(rd)
      ELSE ReadTimes(rest, f, Max({n - 1, 0}), <<>>)

ReadUnless(rd, f) ==
  IF Remaining(rd) < 1 THEN Failed(rd)
  ELSE IF Ahead(rd, 1) = <<f.flag>> THEN Past(rd, 1)
  ELSE ReadAll(Past(rd, 1), f.of)

ReadField(rd, f) ==
  CASE f.type = "int"    -> ReadInt(rd, f)
    [] f.type = "loose"  -> ReadLoose(rd, f)
    [] f.type = "flag"   -> IF Remaining(rd) < 1 THEN Failed(rd)
                            ELSE Kept(rd, f.name, Ahead(rd, 1) # <<0>>, 1)
    [] f.type = "raw"    -> Take(rd, f.name, f.w)
    [] f.type = "str"    -> ReadStr(rd, f)
    [] f.type = "blob"   -> ReadBlob(rd, f)
    [] f.type = "oldstr" -> ReadOldStr(rd)
    [] f.type = "names"  -> IF Remaining(rd) < 4 THEN Failed(rd)
                            ELSE ReadNames(Past(rd, 4), f, Decoded(Ahead(rd, 4)), <<>>)
    [] f.type = "unless" -> ReadUnless(rd, f)
    [] f.type = "varint" -> IF VarintEnd(rd) = 0 THEN Failed(rd)
                            ELSE Kept(rd, f.name, VarintValue(rd), VarintStep(VarintValue(rd)))
    [] f.type = "signed" -> IF VarintEnd(rd) = 0 THEN Failed(rd)
                            ELSE Kept(rd, f.name, ZigzagDecode(VarintValue(rd)),
                                      VarintStep(VarintValue(rd)))
    [] f.type = "signedblob" -> ReadSignedBlob(rd, f)
    [] f.type \in {"arr", "bare"} -> ReadArr(rd, f)

ReadAll(rd, fields) ==
  IF fields = <<>> \/ ~rd.ok THEN rd ELSE ReadAll(ReadField(rd, Head(fields)), Tail(fields))
=============================================================================
