------------------------------- MODULE MCDesk -------------------------------
(* Two parts of the desk that share no state, checked in one run: reviews and  *)
(* recorded work. A behaviour is one of them, while the other stands still.    *)
EXTENDS Reviews, OpenWork, TLC

VARIABLE part   \* the part that acts

MCSymmetry == Permutations(Field) \union Permutations(Value) \union Permutations(Handler)

Row(c, k) == [copy |-> c, version |-> 1, kind |-> k, request |-> Nothing]

\* Copy 1 was closed, and copy 2 was decided about last. Copy 3 never was: it
\* fills a page of the scan.
MCDecided == {<<Row(1, "handled_in_spark"), Row(2, "reply_needed")>>}
MCPlaced == {<<"unread", "elsewhere", "unread">>}
MCChoice == {[request |-> "w1", copy |-> 1, kind |-> "reopen"],
             [request |-> "w2", copy |-> 1, kind |-> "reply_needed"]}

DeskInit ==
  /\ ReviewsInit /\ WorkInit
  /\ part \in {"reviews", "work"}
  /\ inForce = CHOOSE s \in Subject : TRUE   \* which one is first is all the same

\* A new build and a clock set back come one without the other, and the list is
\* read a second time only while the mailbox stands still.
DeskNext ==
  /\ UNCHANGED part
  /\ \/ /\ part = "reviews" /\ ReviewsNext /\ UNCHANGED workVars
        /\ setBack' => moves' = 0
     \/ /\ part = "work" /\ WorkNext /\ UNCHANGED vars
        /\ section'.current <= 1 \/ moved' = 0

DeskSpec == DeskInit /\ [][DeskNext]_<<vars, workVars, part>>
=============================================================================
