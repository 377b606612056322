----------------------------- MODULE MCLiveInbox -----------------------------
(* One mailbox of three messages on pages of one, and two handlers: a reading  *)
(* takes up to three pages, and another one fits between any two of them. The  *)
(* second message has no date; a third one arrives above it, dated in order.   *)
(* The third reading begins only where all three are of one view.              *)
EXTENDS LiveInbox
MCMailbox == {"studio"}
MCMessage == 1..3
MCDate    == <<1, None, 3>>
MCInitial == {[b \in MCMailbox |-> <<"unread", "unread", "elsewhere">>]}
MCAccess  == {{"studio"}}
MCView    == {"all", "unread"}
MCQuery   == {"q"}
MCMatches == [s \in MCQuery |-> {1}]

Untouched(v) == readings[v] = NoReading /\ \A q \in Request : ops[q].view # v
MCReads == reads < 3 \/ \E v \in View : Untouched(v)

MCSymmetry == Permutations(Request)
=============================================================================
