---------------------------- MODULE MCManualRuns ----------------------------
(* ManualRuns for TLC: two process ids, two requests, two selected items.     *)
EXTENDS ManualRuns, TLC

MCSymmetry == Permutations(Pid) \cup Permutations(Request) \cup Permutations(Item)
=============================================================================
