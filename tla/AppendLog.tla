----------------------------- MODULE AppendLog ------------------------------
(***************************************************************************)
(* What a partition promises its producers: one log of batches, to which   *)
(* batches are only ever appended, each based at the offset where the one  *)
(* before it ends.                                                         *)
(***************************************************************************)
EXTENDS Naturals, Sequences

CONSTANT Counts  \* how many records a batch may hold

VARIABLE log

End(s) == IF s = <<>> THEN 0 ELSE s[Len(s)].base + s[Len(s)].count

Init == log = <<>>

AppendBatch ==
  LET base == End(log)
  IN  \E n \in Counts : log' = Append(log, [base |-> base, count |-> n])

Spec == Init /\ [][AppendBatch]_log
=============================================================================
