---------------------------- MODULE MCBulkRunner ----------------------------
(* Small instances of BulkRunner: as many items as workers. The faults are not *)
(* bounded; the calls of runMutations are, by MaxStarts.                     *)
EXTENDS BulkRunner, TLC

Symmetry == Permutations(Item) \cup Permutations(Worker)
=============================================================================
