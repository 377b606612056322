------------------------------- MODULE Pages --------------------------------
(* External: how Spark lists a mailbox, as live-inbox.server.ts and            *)
(* open-work.server.ts use it: numbered pages of a given size, newest message   *)
(* first. A message is on the page its rank falls on.                          *)
EXTENDS Integers, FiniteSets

Newer(listed, m) == {n \in listed : n > m}

PageOf(listed, p, size) ==
  {m \in listed : /\ (p - 1) * size <= Cardinality(Newer(listed, m))
                  /\ Cardinality(Newer(listed, m)) < p * size}
=============================================================================
