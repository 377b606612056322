--------------------------- MODULE ReconnectProofs ---------------------------
(***************************************************************************)
(* Proofs about Reconnect, for any number of mountings: what the page shows   *)
(* is what it has out, the timer is set exactly while a check is due, and a    *)
(* late answer changes nothing.  IInv carries them: a new mounting finds no    *)
(* request of its own generation (Fresh).                                      *)
(***************************************************************************)
EXTENDS Reconnect, TLAPS

\* The page starts with no request out and no timer, before it is mounted.
LEMMA InitIInv == Init => IInv
<1> SUFFICES ASSUME Init PROVE IInv
  OBVIOUS
<1> USE ReconnectAssumption DEF Init, Generation
<1>1. TypeOK
  <2>1. started \in BOOLEAN /\ offline \in BOOLEAN /\ visible \in BOOLEAN /\ online \in BOOLEAN
    BY Zenon
  <2>2. 0 \in 0 .. MaxStops
    BY ReconnectAssumption
  <2>3. generation \in Generation /\ request \in [Generation -> {"none", "probe", "load"}]
    BY <2>2
  <2> QED
    BY <2>1, <2>3 DEF TypeOK
<1>2. Fresh /\ OneRequest
  BY DEF Fresh, OneRequest
<1>3. TimerWhenDue
  BY DEF TimerWhenDue, CanPoll
<1> QED
  BY <1>1, <1>2, <1>3 DEF IInv

\* A stuttering step keeps the inductive invariant.
LEMMA StutterIInv == IInv /\ UNCHANGED vars => IInv'
  BY DEF vars, IInv, TypeOK, Fresh, OneRequest, TimerWhenDue, CanPoll

\* Mounting and unmounting keep the inductive invariant: a start checks at once when
\* it may, a stop moves on to a generation that has no request.
LEMMA MountIInv == IInv /\ (Start \/ Stop) => IInv'
<1> SUFFICES ASSUME IInv, Start \/ Stop PROVE IInv'
  OBVIOUS
<1> USE ReconnectAssumption DEF IInv, TypeOK, Fresh, OneRequest, TimerWhenDue, CanPoll, Generation
<1>1. CASE Start
  BY <1>1 DEF Start, Begin
<1>2. CASE Stop
  <2>1. generation' = generation + 1 /\ generation' \in Generation
    BY <1>2 DEF Stop
  <2>2. request[generation'] = "none"
    BY <2>1
  <2>3. TypeOK'
    BY <1>2, <2>1 DEF Stop
  <2>4. Fresh'
    BY <1>2, <2>1 DEF Stop
  <2>5. OneRequest' /\ TimerWhenDue'
    BY <1>2, <2>2 DEF Stop
  <2> QED
    BY <2>3, <2>4, <2>5
<1> QED
  BY <1>1, <1>2

\* A check asked for, by the timer or by a person, keeps the inductive invariant.
LEMMA CheckIInv == IInv /\ (Fire \/ CheckNow) => IInv'
<1> SUFFICES ASSUME IInv, Fire \/ CheckNow PROVE IInv'
  OBVIOUS
<1> USE ReconnectAssumption DEF IInv, TypeOK, Fresh, OneRequest, TimerWhenDue, CanPoll, Generation
<1>1. CASE Fire
  BY <1>1 DEF Fire, Begin, Polling
<1>2. CASE CheckNow
  BY <1>2 DEF CheckNow, Check, Begin
<1> QED
  BY <1>1, <1>2

\* A request that settles keeps the inductive invariant, whichever mounting it is of.
LEMMA SettleIInv ==
  ASSUME NEW g \in Generation, IInv, Answered(g) \/ Loaded(g) PROVE IInv'
<1> USE ReconnectAssumption
    DEF IInv, TypeOK, Fresh, OneRequest, TimerWhenDue, CanPoll, Generation, Outlived, Scheduled
<1>1. CASE Answered(g)
  BY <1>1 DEF Answered, AnswerReasons, Reason, Unavailable
<1>2. CASE Loaded(g)
  BY <1>2 DEF Loaded
<1> QED
  BY <1>1, <1>2

\* Visibility, network, focus and a new reason keep the inductive invariant.
LEMMA PageIInv ==
  IInv /\ (Show \/ Hide \/ GoOnline \/ GoOffline \/ Focus \/ SetReason) => IInv'
<1> SUFFICES ASSUME IInv, Show \/ Hide \/ GoOnline \/ GoOffline \/ Focus \/ SetReason PROVE IInv'
  OBVIOUS
<1> USE ReconnectAssumption DEF IInv, TypeOK, Fresh, OneRequest, TimerWhenDue, CanPoll, Generation
<1>1. CASE Show
  BY <1>1 DEF Show, Wake, Check, Begin, Polling
<1>2. CASE Hide
  BY <1>2 DEF Hide, Pause
<1>3. CASE GoOnline
  BY <1>3 DEF GoOnline, Wake, Check, Begin, Polling
<1>4. CASE GoOffline
  BY <1>4 DEF GoOffline, Pause
<1>5. CASE Focus
  BY <1>5 DEF Focus, Wake, Check, Begin, Polling
<1>6. CASE SetReason
  BY <1>6 DEF SetReason, Rescheduled, Scheduled
<1> QED
  BY <1>1, <1>2, <1>3, <1>4, <1>5, <1>6

\* The inductive invariant holds in every reachable state.
THEOREM IInvHolds == Spec => []IInv
<1>1. IInv /\ [Next]_vars => IInv'
  BY MountIInv, CheckIInv, SettleIInv, PageIInv, StutterIInv DEF Next
<1> QED
  BY <1>1, InitIInv, PTL DEF Spec

\* The types of the poller's state hold for any number of mountings.
THEOREM TypeCorrect == Spec => []TypeOK
  BY IInvHolds, PTL DEF IInv

\* What the page shows as running is the one request its mounting has out.
THEOREM OneRequestHolds == Spec => []OneRequest
  BY IInvHolds, PTL DEF IInv

\* The timer is set exactly while a check is due (reconnect.ts, schedule and pause).
THEOREM TimerWhenDueHolds == Spec => []TimerWhenDue
  BY IInvHolds, PTL DEF IInv

\* A request that outlived its mounting settles without a trace (the generation test
\* after each await of check).
THEOREM LateAnswersIgnoredHolds == Spec => LateAnswersIgnored
<1> DEFINE Ignored ==
      \A g \in Generation : g # generation /\ request'[g] # request[g] =>
        UNCHANGED <<activity, reason, timer>>
<1>1. IInv /\ [Next]_vars => [Ignored]_vars
  <2> SUFFICES ASSUME IInv, Next, NEW g \in Generation, g # generation, request'[g] # request[g]
               PROVE UNCHANGED <<activity, reason, timer>>
    OBVIOUS
  <2> USE DEF IInv, TypeOK, Generation
  <2>1. ASSUME Start \/ Stop \/ Fire \/ CheckNow \/ SetReason \/ Show \/ Hide \/ GoOnline
               \/ GoOffline \/ Focus
        PROVE FALSE
    BY <2>1 DEF Start, Stop, Fire, CheckNow, SetReason, Show, Hide, GoOnline, GoOffline, Focus,
                Wake, Check, Begin
  <2>2. ASSUME NEW h \in Generation, Answered(h) \/ Loaded(h)
        PROVE UNCHANGED <<activity, reason, timer>>
    <3>1. CASE h = g
      <4>1. Outlived(h)
        BY <3>1 DEF Outlived
      <4> QED
        BY <2>2, <4>1 DEF Answered, Loaded
    <3>2. CASE h # g
      <4>1. request'[g] = request[g]
        BY <2>2, <3>2 DEF Answered, Loaded
      <4> QED
        BY <4>1
    <3> QED
      BY <3>1, <3>2
  <2> QED
    BY <2>1, <2>2 DEF Next
<1> QED
  BY <1>1, IInvHolds, PTL DEF Spec, LateAnswersIgnored
=============================================================================
