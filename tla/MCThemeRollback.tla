-------------------------- MODULE MCThemeRollback --------------------------
(* A small instance of ThemeRollback: one operation that two rollbacks undo   *)
(* at once, or one rollback of any strategy that may be cut off by a crash.   *)
EXTENDS ThemeRollback, TLC

VARIABLE mix

MCInit == RollbackInit /\ mix \in {"race", "ends"}
MCNext ==
  /\ RollbackNext /\ UNCHANGED mix
  /\ mix = "race" => /\ deaths' = 0
                     /\ \A o \in Op : /\ info'[o].strategy \in {"none", "files", "resource"}
                                      /\ info'[o].marked = info'[o].changed
  /\ mix = "ends" => \A r, q \in Rollback : r = q \/ at'[r] = "idle" \/ at'[q] = "idle"
MCSpec == MCInit /\ [][MCNext]_<<rollbackVars, mix>>

Symmetry == Permutations(File) \cup Permutations(Content) \cup Permutations(Rollback)
=============================================================================
