-------------------------- MODULE MCShadowPipeline --------------------------
(* ShadowPipeline for TLC: two process ids, two runs and two threads, in two  *)
(* ways of being busy that together are small enough to check.                *)
EXTENDS ShadowPipeline, TLC

One  == CHOOSE t \in Thread : TRUE
Rows == {r \in Run : runs[r] # NoRow}

\* A job of one group and of budget 2, before, in and after its run.
Single(j, place) ==
  /\ j.budget = 2
  /\ \/ j.groups = 1 /\ j.left = 2 /\ place = "group"
     \/ j.groups = 0 /\ (j.left = 2 \/ place = "group")

\* Processes that die and come back work on one thread, which may grow.
Rivals ==
  /\ \A p \in Pid : at[p] # "idle" => Single(job[p], at[p])
  /\ \A t \in Thread \ {One} : version[t] = 1
  /\ \A r \in Run : \A m \in Message : m.thread # One => outcome[r][m] = "unlisted"

\* One job goes through two groups of two threads, with calls that overlap.
Grouped ==
  /\ \A p \in Pid : alive[p]
  /\ \A t \in Thread : version[t] = 1
  /\ \A p \in Pid : at[p] # "idle" =>
       /\ \A q \in Pid \ {p} : at[q] = "idle"
       /\ \A r \in Rows : runs[r].pid = p
       /\ job[p].groups + Cardinality(Rows) >= IF at[p] = "scope" THEN 1 ELSE 2
  /\ (\A p \in Pid : at[p] = "idle") => Rows = {}

MCBounds == Rivals \/ Grouped

MCSymmetry == Permutations(Pid) \cup Permutations(Run)
=============================================================================
