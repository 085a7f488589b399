-------------------------- MODULE MCWorkerReactor ---------------------------
(***************************************************************************)
(* WorkerReactor for TLC: reactors are alike, so their ids may be permuted *)
(* in the runs that check invariants only.                                 *)
(***************************************************************************)
EXTENDS WorkerReactor

ReactorSymmetry == Permutations(Reactors)

=============================================================================
