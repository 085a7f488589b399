------------------------- MODULE MCGroupCoordinator -------------------------
(***************************************************************************)
(* The coordinator with one group, two clients that choose their ids and   *)
(* one that asks for an id, against every request.  Clients' names are     *)
(* interchangeable: no handler orders or compares them but for equality.   *)
(***************************************************************************)
EXTENDS GroupCoordinator, TLC

NamesSymmetry == Permutations(Names)
=============================================================================
