------------------------------- MODULE MCPage -------------------------------
(* Two parts of the browser page that share no state, checked in one run: the  *)
(* workbench and the controller of Jev runs. A behaviour is one of them, while *)
(* the other stands still.                                                     *)
EXTENDS Workbench, TriageRunClient

CONSTANT Effort   \* bound: what a behaviour of the workbench does in all

VARIABLE part   \* the part that acts

\* One thread: a message that arrives moves every row.
MCThread == [m \in Message |-> "t"]

\* What adds up: readings begun, proposals, arrivals, saves and judgments. Jev
\* judges the first message only.
MCEffort ==
  /\ sequence - 1 + proposals + arrived - Initially + Cardinality(saved)
       + Cardinality({m \in Message : store[m].tried # 0}) <= Effort
  /\ \A m \in Message : store[m].tried # 0 => m = 1

\* The campaign's properties speak of what comes before the first late answer.
MCBounds == MCEffort /\ inOrder

PageInit == WorkbenchInit /\ ClientInit /\ part \in {"desk", "runs"}

PageNext ==
  /\ UNCHANGED part
  /\ \/ part = "desk" /\ WorkbenchNext /\ UNCHANGED clientVars
     \/ part = "runs" /\ ClientNext /\ UNCHANGED workbenchVars

PageSpec == PageInit /\ [][PageNext]_<<workbenchVars, clientVars, part>>
=============================================================================
