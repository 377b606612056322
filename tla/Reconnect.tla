------------------------------ MODULE Reconnect ------------------------------
(***************************************************************************)
(* The browser's wait for Spark (app/reconnect.ts): a poller that asks       *)
(* whether Spark answers, reads the inbox once when it does, and follows the  *)
(* page's visibility, its network and its mounting.  The answer of a request   *)
(* may come after anything else has happened, a stop and a new start included. *)
(***************************************************************************)
EXTENDS Integers

CONSTANT MaxStops   \* bound on the number of stops, and so on generations

ASSUME ReconnectAssumption == MaxStops \in Nat

VARIABLES
  started,     \* between start and stop
  generation,  \* moves on at every stop
  reason,      \* why the page waits
  activity,    \* what runs now
  timer,       \* the 10 second timer
  request,     \* the request of each generation that has not settled
  visible,     \* the page's visibility, as the environment reports it
  online,      \* the browser's network, as the environment reports it
  offline      \* the network as the snapshot shows it

vars == <<started, generation, reason, activity, timer, request, visible, online, offline>>

\* UnavailableReason, and the reason for a server that does not answer.
Unavailable == {"missing", "failed", "malformed", "local-only"}
Reason == Unavailable \cup {"unreachable"}
Generation == 0 .. MaxStops
Polling == {"missing", "failed", "unreachable"}

CanPoll == started /\ reason \in Polling /\ visible /\ online

-----------------------------------------------------------------------------
Init ==
  /\ started = FALSE /\ generation = 0
  /\ reason \in Reason
  /\ activity = "waiting" /\ timer = "none"
  /\ request = [g \in Generation |-> "none"]
  /\ visible \in BOOLEAN /\ online \in BOOLEAN
  /\ offline = FALSE

\* schedule: the timer is set again, or not at all.
Scheduled == IF CanPoll' /\ activity' = "waiting" THEN "set" ELSE "none"

\* The probe goes out.
Begin ==
  /\ activity' = "checking" /\ timer' = "none"
  /\ request' = [request EXCEPT ![generation] = "probe"]

\* check: one request at a time, and none for a reason that is never checked.
Check ==
  IF started /\ activity = "waiting" /\ reason # "local-only"
  THEN Begin
  ELSE UNCHANGED <<activity, timer, request>>

\* The page mounts.
Start ==
  /\ ~started
  /\ started' = TRUE /\ offline' = ~online
  /\ UNCHANGED <<generation, reason, visible, online>>
  /\ IF CanPoll' THEN Begin ELSE UNCHANGED <<activity, timer, request>>

\* The page unmounts: a request that still runs is given up, not ended.
Stop ==
  /\ started /\ generation < MaxStops
  /\ started' = FALSE /\ generation' = generation + 1
  /\ activity' = "waiting" /\ timer' = "none"
  /\ UNCHANGED <<reason, request, visible, online, offline>>

\* The timer's callback.
Fire ==
  /\ timer = "set"
  /\ IF started /\ activity = "waiting" /\ reason # "local-only"
     THEN Begin
     ELSE timer' = "none" /\ UNCHANGED <<activity, request>>
  /\ UNCHANGED <<started, generation, reason, visible, online, offline>>

CheckNow ==
  /\ Check
  /\ UNCHANGED <<started, generation, reason, visible, online, offline>>

-----------------------------------------------------------------------------
(* A request settles.                                                       *)

\* Mutant of Outlived: a late answer is taken for the current one.
OutlivedBroken(g) == FALSE

\* The check was overtaken by a stop.
Outlived(g) == g # generation

\* Mutant of AnswerReasons: no answer leaves no reason.
AnswerReasonsBroken == Unavailable \cup {"none"}

\* The reasons a settled probe may leave: the server's, or that it did not answer.
AnswerReasons == Unavailable \cup {"unreachable"}

\* The answer to the probe: ready, a reason, or none at all.
Answered(g) ==
  /\ request[g] = "probe"
  /\ UNCHANGED <<started, generation, visible, online, offline>>
  /\ \/ /\ Outlived(g)
        /\ request' = [request EXCEPT ![g] = "none"]
        /\ UNCHANGED <<activity, reason, timer>>
     \/ /\ ~Outlived(g)
        /\ request' = [request EXCEPT ![g] = "load"]
        /\ activity' = "loading"
        /\ UNCHANGED <<reason, timer>>
     \/ /\ ~Outlived(g)
        /\ request' = [request EXCEPT ![g] = "none"]
        /\ activity' = "waiting"
        /\ reason' \in AnswerReasons
        /\ timer' = Scheduled

\* The inbox read is done, with mail or without.
Loaded(g) ==
  /\ request[g] = "load"
  /\ request' = [request EXCEPT ![g] = "none"]
  /\ UNCHANGED <<started, generation, reason, visible, online, offline>>
  /\ \/ Outlived(g) /\ UNCHANGED <<activity, timer>>
     \/ ~Outlived(g) /\ activity' = "waiting" /\ timer' = Scheduled

-----------------------------------------------------------------------------
(* The page and its environment.                                            *)

\* wake, for the environment as it is now.
Wake ==
  /\ offline' = ~online'
  /\ IF CanPoll' THEN Check ELSE UNCHANGED <<activity, timer, request>>

\* Mutant of Pause: the timer is left running.
PauseBroken == offline' = ~online' /\ UNCHANGED timer

\* pause.
Pause == offline' = ~online' /\ timer' = "none"

\* The listeners exist only while the page is mounted.
Show ==
  /\ ~visible /\ visible' = TRUE
  /\ UNCHANGED <<started, generation, reason, online>>
  /\ IF started THEN Wake ELSE UNCHANGED <<activity, timer, request, offline>>

Hide ==
  /\ visible /\ visible' = FALSE
  /\ UNCHANGED <<started, generation, reason, activity, request, online>>
  /\ IF started THEN Pause ELSE UNCHANGED <<timer, offline>>

GoOnline ==
  /\ ~online /\ online' = TRUE
  /\ UNCHANGED <<started, generation, reason, visible>>
  /\ IF started THEN Wake ELSE UNCHANGED <<activity, timer, request, offline>>

GoOffline ==
  /\ online /\ online' = FALSE
  /\ UNCHANGED <<started, generation, reason, activity, request, visible>>
  /\ IF started THEN Pause ELSE UNCHANGED <<timer, offline>>

Focus ==
  /\ started
  /\ UNCHANGED <<started, generation, reason, visible, online>>
  /\ Wake

\* Mutant of Rescheduled: a reason that polls starts no timer of its own.
RescheduledBroken == IF reason' \in Polling THEN timer ELSE "none"

\* What setReason does to the timer.
Rescheduled ==
  IF reason' \notin Polling THEN "none" ELSE IF timer = "set" THEN timer ELSE Scheduled

\* The page learned another reason.
SetReason ==
  /\ reason' \in Reason \ {reason}
  /\ UNCHANGED <<started, generation, activity, request, visible, online, offline>>
  /\ timer' = Rescheduled

Next ==
  \/ Start \/ Stop \/ Fire \/ CheckNow \/ SetReason
  \/ Show \/ Hide \/ GoOnline \/ GoOffline \/ Focus
  \/ \E g \in Generation : Answered(g) \/ Loaded(g)

Spec == Init /\ [][Next]_vars

\* A timer fires, the probe times out on the server, and the inbox read ends.
Fairness ==
  /\ WF_vars(Fire)
  /\ \A g \in Generation : WF_vars(Answered(g)) /\ WF_vars(Loaded(g))

-----------------------------------------------------------------------------
(* Properties.                                                              *)

\* The types of the poller's state.
TypeOK ==
  /\ started \in BOOLEAN /\ generation \in Generation
  /\ reason \in Reason
  /\ activity \in {"waiting", "checking", "loading"}
  /\ timer \in {"set", "none"}
  /\ request \in [Generation -> {"none", "probe", "load"}]
  /\ visible \in BOOLEAN /\ online \in BOOLEAN /\ offline \in BOOLEAN

\* What the page shows as running is exactly the request this mounting has out,
\* whatever an earlier mounting left behind.
OneRequest ==
  /\ activity = "waiting" <=> request[generation] = "none"
  /\ activity = "checking" <=> request[generation] = "probe"
  /\ activity = "loading" <=> request[generation] = "load"

\* The timer is set exactly while a check is due: the page never polls hidden,
\* offline, unmounted or beside a request, and never forgets to poll.
TimerWhenDue == timer = "set" <=> CanPoll /\ activity = "waiting"

\* A request that outlived its mounting settles without a trace.
LateAnswersIgnored ==
  [][\A g \in Generation : g # generation /\ request'[g] # request[g] =>
        UNCHANGED <<activity, reason, timer>>]_vars

\* No generation to come has a request, and a page that is not mounted shows none.
Fresh ==
  /\ \A g \in Generation : g > generation => request[g] = "none"
  /\ ~started => activity = "waiting"

\* The inductive invariant: Fresh is what lets a new mounting start clean.
IInv == TypeOK /\ Fresh /\ OneRequest /\ TimerWhenDue

\* A page that stays mounted, visible and online, with a reason that polls, keeps
\* asking.
KeepsChecking == <>[]CanPoll => []<>(activity = "checking")

=============================================================================
