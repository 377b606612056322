------------------------------ MODULE DoneLock ------------------------------
(***************************************************************************)
(* What the Done journal promises, without processes, rows or mailboxes: a  *)
(* message id is held by at most one key, a key is used for one attempt,    *)
(* sends one command while it holds, and lets go only after sending it.     *)
(***************************************************************************)
EXTENDS Naturals

CONSTANTS Message, Key

VARIABLES
  holder,   \* the keys whose attempt on a message id is unresolved
  used,     \* keys that ever claimed
  sent      \* commands sent under each key

vars == <<holder, used, sent>>

Init ==
  /\ holder = [m \in Message |-> {}]
  /\ used = {}
  /\ sent = [k \in Key |-> 0]

Acquire(m, k) ==
  /\ holder[m] = {}
  /\ k \notin used
  /\ holder' = [holder EXCEPT ![m] = {k}]
  /\ used' = used \cup {k}
  /\ UNCHANGED sent

Send(m, k) ==
  /\ holder[m] = {k}
  /\ sent[k] = 0
  /\ sent' = [sent EXCEPT ![k] = 1]
  /\ UNCHANGED <<holder, used>>

Release(m, k) ==
  /\ holder[m] = {k}
  /\ sent[k] = 1
  /\ holder' = [holder EXCEPT ![m] = {}]
  /\ UNCHANGED <<used, sent>>

Next == \E m \in Message, k \in Key : Acquire(m, k) \/ Send(m, k) \/ Release(m, k)

Spec == Init /\ [][Next]_vars
=============================================================================
