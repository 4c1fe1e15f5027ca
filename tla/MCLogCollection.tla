-------------------------- MODULE MCLogCollection --------------------------
(* A small instance of LogCollection for TLC. *)
EXTENDS LogCollection

(* All lines but the first, all (0), the last one, the last three at most. *)
SmallCounts == {-1, 0, 1, 3}
=============================================================================
