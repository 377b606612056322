---------------------------- MODULE MCDoneAction ----------------------------
(* DoneAction for TLC: two server processes, two keys, and two proposals on  *)
(* one message id (one message seen through two copies).                     *)
EXTENDS DoneAction, TLC

CONSTANTS s1, s2, m1, p1, p2, k1, k2

MCTargetOf == (p1 :> m1) @@ (p2 :> m1)
MCProposedAt == (p1 :> 0) @@ (p2 :> 1)
MCSeenVersion == (p1 :> 0) @@ (p2 :> 1)
MCTime == 0 .. 1

MCSymmetry == Permutations({s1, s2}) \cup Permutations({k1, k2})
=============================================================================
