------------------------ MODULE ShadowPipelineProofs ------------------------
(***************************************************************************)
(* Proofs about ShadowPipeline for any number of processes, runs, threads,  *)
(* groups and messages of a thread, any budgets and any pool size.          *)
(***************************************************************************)
EXTENDS ShadowPipeline, FiniteSetTheorems, TLAPS

USE ShadowPipelineAssumption

\* The empty tables satisfy the invariant.
LEMMA InitIInv == Init => IInv
  <1> SUFFICES ASSUME Init PROVE IInv
    OBVIOUS
  <1> USE DEF Init, NoJob, NoRow, Working, Looking
  <1>1. TypeOK
    BY DEF TypeOK, Job
  <1>2. Places /\ WorkIsOwned /\ Sequenced /\ Unlisted /\ CompletedCovers
    BY DEF Places, WorkIsOwned, Sequenced, Unlisted, CompletedCovers
  <1>3. OpenListed /\ CallsCover /\ Accounted
    BY DEF OpenListed, CallsCover, Accounted
  <1>4. Budgeted
    BY DEF Budgeted
  <1>5. QED
    BY <1>1, <1>2, <1>3, <1>4 DEF IInv

-----------------------------------------------------------------------------
(* Types.                                                                    *)

\* The memory of a job after one of its fields has moved.
LEMMA JobFields ==
  ASSUME NEW j \in Job
  PROVE  /\ \A g \in Nat : [j EXCEPT !.groups = g] \in Job
         /\ \A s \in SUBSET Message : [j EXCEPT !.todo = s] \in Job
         /\ \A c \in Call \cup {NoCall} : [j EXCEPT !.next = c] \in Job
         /\ \A b \in BOOLEAN : [j EXCEPT !.stop = b] \in Job /\ [j EXCEPT !.thrown = b] \in Job
         /\ \A l \in Int : [j EXCEPT !.left = l] \in Job
         /\ \A r \in Run \cup {"none"} : [j EXCEPT !.run = r] \in Job
         /\ \A s \in SUBSET Thread : [j EXCEPT !.seen = s] \in Job
         /\ \A n \in Nat : [j EXCEPT !.calls = n] \in Job
  BY DEF Job

\* The memory of a new job.
LEMMA NewJobType ==
  ASSUME NEW budget \in Budget, NEW groups \in Groups
  PROVE  NewJob(budget, groups) \in Job
  BY DEF NewJob, Job

\* The calls, and the versions they name.
LEMMA CallType ==
  ASSUME NEW m \in Message, NEW v \in Version
  PROVE  /\ m.thread \in Thread /\ m.n \in Version
         /\ [message |-> m, version |-> v] \in Call
  BY DEF Call, Message

\* A running row that ends is a row.
LEMMA RowType ==
  ASSUME runs \in [Run -> RunRow \cup {NoRow}], NEW r \in Run, runs[r].status = "running",
         NEW status \in {"completed", "partial", "failed", "interrupted"}
  PROVE  [runs[r] EXCEPT !.status = status] \in RunRow
  BY DEF RunRow, NoRow

\* A process at work works alone, on a running row of its own.
LEMMA Alone ==
  ASSUME Places, WorkIsOwned, NEW p \in Pid, at[p] \in Working
  PROVE  /\ alive[p] /\ job[p].run \in Run
         /\ runs[job[p].run] = [status |-> "running", pid |-> p]
         /\ runs[job[p].run].status = "running"
         /\ \A q \in Pid \ {p} : at[q] \in {"idle", "group", "scope"} /\ flight[q] = {}
  BY DEF WorkIsOwned, Working, Places

\* What TypeOK says of the memories of the jobs.
JobsOK == job \in [Pid -> Job \cup {NoJob}] /\ \A p \in Pid : at[p] # "idle" => job[p] \in Job

\* Memory written for one process at work.
LEMMA JobWritten ==
  ASSUME TypeOK, NEW p \in Pid, NEW x \in Job, job' = [job EXCEPT ![p] = x],
         NEW l, at' = [at EXCEPT ![p] = l] \/ at' = at
  PROVE  JobsOK'
  BY DEF TypeOK, JobsOK

\* Memory given up by one process.
LEMMA JobDropped ==
  ASSUME TypeOK, NEW p \in Pid, job' = [job EXCEPT ![p] = NoJob], at' = [at EXCEPT ![p] = "idle"]
  PROVE  JobsOK'
  BY DEF TypeOK, JobsOK

\* The outcome of one message of the run at hand.
LEMMA Observed ==
  ASSUME TypeOK, NEW p \in Pid, NEW m, NEW status \in Failure \cup Settled, Observe(p, m, status)
  PROVE  outcome' \in [Run -> [Message -> {"unlisted", "listed"} \cup Failure \cup Settled]]
  BY DEF TypeOK, Observe

\* A step of a process at work keeps the types.
LEMMA StepTypes ==
  ASSUME TypeOK, Places, WorkIsOwned, Budgeted, NEW p \in Pid, Step(p)
  PROVE  TypeOK'
  <1> USE DEF TypeOK
  <1>1. CASE Resolve(p)
    <2>1. job[p] \in Job /\ job[p].groups \in Nat /\ job[p].groups # 0
      BY <1>1 DEF Resolve, LoopOver, Job
    <2>2. [job[p] EXCEPT !.groups = @ - 1] \in Job
      <3>1. job[p].groups - 1 \in Nat
        BY <2>1
      <3>2. QED
        BY <2>1, <3>1, JobFields
    <2>3. JobsOK'
      BY <1>1, <2>2, JobWritten DEF Resolve
    <2>4. QED
      BY <1>1, <2>3 DEF Resolve, JobsOK
  <1>2. CASE NotStarted(p)
    BY <1>2 DEF NotStarted
  <1>3. CASE End(p)
    BY <1>3 DEF End
  <1>4. CASE List(p)
    <2>1. PICK listed \in SUBSET {m \in Message : m.n <= version[m.thread]} :
            /\ job' = [job EXCEPT ![p].todo = listed]
            /\ outcome' = [outcome EXCEPT ![job[p].run] =
                             [m \in Message |-> IF m \in listed THEN "listed" ELSE "unlisted"]]
      BY <1>4 DEF List
    <2>2. job[p] \in Job /\ listed \in SUBSET Message
      BY <1>4 DEF List
    <2>3. [job[p] EXCEPT !.todo = listed] \in Job
      BY <2>2, JobFields
    <2>4. JobsOK'
      BY <1>4, <2>1, <2>3, JobWritten DEF List
    <2>5. outcome' \in [Run -> [Message -> {"unlisted", "listed"} \cup Failure \cup Settled]]
      BY <2>1
    <2>6. QED
      BY <1>4, <2>4, <2>5 DEF List, JobsOK
  <1>5. CASE ListFails(p)
    <2>1. at[p] \in Working
      BY <1>5 DEF ListFails, Working
    <2>2. job[p].run \in Run /\ runs[job[p].run].status = "running"
      BY <2>1, Alone
    <2>3. [runs[job[p].run] EXCEPT !.status = "failed"] \in RunRow
      BY <2>2, RowType
    <2>4. QED
      BY <1>5, <2>2, <2>3 DEF ListFails
  <1>6. CASE ThreadRead(p)
    <2> DEFINE m == job[p].next.message
               t == m.thread
               v == version[t]
               mem == [job[p] EXCEPT !.seen = @ \cup {t}]
    <2>1. job[p] \in Job /\ job[p].next \in Call
      BY <1>6 DEF ThreadRead, Places
    <2>2. m \in Message /\ t \in Thread /\ v \in Version
      BY <2>1 DEF Call, Message
    <2>3. mem \in Job
      <3>1. job[p].seen \cup {t} \in SUBSET Thread
        BY <2>1, <2>2 DEF Job
      <3>2. QED
        BY <2>1, <3>1, JobFields
    <2>4. CASE at' = [at EXCEPT ![p] = "next"]
      <3>1. [mem EXCEPT !.next = NoCall] \in Job
        BY <2>3, JobFields
      <3>2. job' = [job EXCEPT ![p] = [mem EXCEPT !.next = NoCall]]
        BY <1>6, <2>4 DEF ThreadRead
      <3>3. JobsOK'
        BY <3>1, <3>2, <2>4, JobWritten
      <3>4. PICK status \in {"duplicate", "already_current", "deferred"} : Observe(p, m, status)
        BY <1>6, <2>4 DEF ThreadRead
      <3>5. outcome' \in [Run -> [Message -> {"unlisted", "listed"} \cup Failure \cup Settled]]
        BY <3>4, Observed DEF Failure, Settled
      <3>6. QED
        BY <1>6, <2>4, <3>3, <3>5 DEF ThreadRead, JobsOK
    <2>5. CASE at' = [at EXCEPT ![p] = "add"]
      <3> DEFINE mem2 == [mem EXCEPT !.calls = @ + 1]
      <3>1. mem2 \in Job
        <4>1. mem.calls + 1 \in Nat
          BY <2>3 DEF Job
        <4>2. QED
          BY <2>3, <4>1, JobFields
      <3>2. [message |-> m, version |-> v] \in Call
        BY <2>2 DEF Call
      <3>3. [mem2 EXCEPT !.next = [message |-> m, version |-> v]] \in Job
        BY <3>1, <3>2, JobFields
      <3>4. job' = [job EXCEPT ![p] = [mem2 EXCEPT !.next = [message |-> m, version |-> v]]]
        BY <1>6, <2>5 DEF ThreadRead
      <3>5. JobsOK'
        BY <3>3, <3>4, <2>5, JobWritten
      <3>6. QED
        BY <1>6, <2>5, <3>5 DEF ThreadRead, JobsOK
    <2>6. QED
      BY <1>6, <2>4, <2>5 DEF ThreadRead
  <1>7. CASE ThreadUnread(p)
    <2>1. [job[p] EXCEPT !.next = NoCall] \in Job
      BY <1>7, JobFields DEF ThreadUnread
    <2>2. JobsOK'
      BY <1>7, <2>1, JobWritten DEF ThreadUnread, Onward
    <2>3. outcome' \in [Run -> [Message -> {"unlisted", "listed"} \cup Failure \cup Settled]]
      BY <1>7, Observed DEF ThreadUnread, Failure
    <2>4. QED
      BY <1>7, <2>2, <2>3 DEF ThreadUnread, Onward, JobsOK
  <1>8. CASE Add(p)
    <2>1. job[p] \in Job /\ job[p].next \in Call
      BY <1>8 DEF Add, Places
    <2>2. [job[p] EXCEPT !.next = NoCall] \in Job
      BY <2>1, JobFields
    <2>3. CASE at' = [at EXCEPT ![p] = "settle"] /\ UNCHANGED <<job, flight, outcome, paid>>
      BY <1>8, <2>3 DEF Add
    <2>4. CASE /\ Observe(p, job[p].next.message, "deferred") /\ Onward(p)
               /\ UNCHANGED <<flight, paid>>
      <3>1. JobsOK'
        BY <2>4, <2>2, JobWritten DEF Onward
      <3>2. outcome' \in [Run -> [Message -> {"unlisted", "listed"} \cup Failure \cup Settled]]
        BY <2>4, Observed DEF Failure
      <3>3. QED
        BY <1>8, <2>4, <3>1, <3>2 DEF Add, Onward, JobsOK
    <2>5. CASE /\ flight' = [flight EXCEPT ![p] = @ \cup {job[p].next}]
               /\ paid' = [paid EXCEPT ![p] = @ + 1]
               /\ Onward(p)
               /\ UNCHANGED outcome
      <3>1. JobsOK'
        BY <2>5, <2>2, JobWritten DEF Onward
      <3>2. flight' \in [Pid -> SUBSET Call] /\ paid' \in [Pid -> Nat]
        BY <2>1, <2>5
      <3>3. QED
        BY <1>8, <2>5, <3>1, <3>2 DEF Add, Onward, JobsOK
    <2>6. CASE /\ at' = [at EXCEPT ![p] = "next"]
               /\ job' = [job EXCEPT ![p].next = NoCall, ![p].thrown = TRUE]
               /\ UNCHANGED <<outcome, flight, paid>>
      <3>1. [[job[p] EXCEPT !.next = NoCall] EXCEPT !.thrown = TRUE] \in Job
        BY <2>2, JobFields
      <3>2. JobsOK'
        BY <2>6, <3>1, JobWritten
      <3>3. QED
        BY <1>8, <2>6, <3>2 DEF Add, JobsOK
    <2>7. QED
      BY <1>8, <2>3, <2>4, <2>5, <2>6 DEF Add
  <1>9. CASE Drain(p)
    BY <1>9 DEF Drain
  <1>10. CASE Finish(p)
    <2>1. job[p] \in Job /\ at[p] \in Working
      BY <1>10 DEF Finish, Working
    <2>2. job[p].run \in Run /\ runs[job[p].run].status = "running"
      BY <2>1, Alone
    <2>3. CASE job' = [job EXCEPT ![p] = NoJob] /\ at' = [at EXCEPT ![p] = "idle"]
      <3>1. JobsOK'
        BY <2>3, JobDropped
      <3>2. [runs[job[p].run] EXCEPT !.status = FinalStatus(p)] \in RunRow
        BY <2>2, RowType DEF FinalStatus
      <3>3. runs' \in [Run -> RunRow \cup {NoRow}]
        BY <1>10, <2>2, <3>2 DEF Finish
      <3>4. QED
        BY <1>10, <2>3, <3>1, <3>3 DEF Finish, JobsOK
    <2>4. ASSUME ~job[p].thrown, runs' = [runs EXCEPT ![job[p].run].status = FinalStatus(p)],
                 at' = [at EXCEPT ![p] = "group"],
                 job' = [job EXCEPT ![p].left = @ - Used(job[p].run), ![p].run = "none"]
          PROVE  TypeOK'
      <3>1. job[p].left - Used(job[p].run) \in Int
        <4>1. Used(job[p].run) \in Nat
          BY <1>10, FS_CardinalityType DEF Finish, Budgeted, Within, Working, Used, Count, Charged
        <4>2. QED
          BY <2>1, <4>1 DEF Job
      <3>4. [job[p] EXCEPT !.left = @ - Used(job[p].run), !.run = "none"] \in Job
        BY <2>1, <3>1 DEF Job
      <3> DEFINE mem == [job[p] EXCEPT !.left = job[p].left - Used(job[p].run), !.run = "none"]
      <3>2. job' = [job EXCEPT ![p] = mem]
        BY <2>4
      <3>3. mem \in Job
        BY <3>4
      <3> HIDE DEF mem
      <3>5. JobsOK'
        BY <3>2, <3>3, <2>4, JobWritten
      <3>6. [runs[job[p].run] EXCEPT !.status = FinalStatus(p)] \in RunRow
        BY <2>2, RowType DEF FinalStatus
      <3>7. QED
        BY <1>10, <2>4, <2>2, <3>5, <3>6 DEF Finish, JobsOK
    <2>5. QED
      BY <1>10, <2>3, <2>4 DEF Finish
  <1>11. ASSUME NEW m \in Message, Candidate(p, m)
         PROVE  TypeOK'
    <2>1. job[p] \in Job /\ job[p].todo \ {m} \in SUBSET Message
      BY <1>11 DEF Candidate, Job
    <2> DEFINE mem == [job[p] EXCEPT !.todo = @ \ {m}]
               status == IF job[p].stop THEN "deferred" ELSE "already_current"
    <2>2. mem \in Job
      BY <2>1, JobFields
    <2>3. CASE Observe(p, m, status) /\ job' = [job EXCEPT ![p].todo = @ \ {m}] /\ UNCHANGED at
      <3>1. JobsOK'
        BY <2>3, <2>2, JobWritten
      <3>2. outcome' \in [Run -> [Message -> {"unlisted", "listed"} \cup Failure \cup Settled]]
        BY <2>3, Observed DEF Failure, Settled
      <3>3. QED
        BY <1>11, <2>3, <3>1, <3>2 DEF Candidate, JobsOK
    <2>4. CASE /\ at' = [at EXCEPT ![p] = "read"] /\ UNCHANGED outcome
               /\ job' = [job EXCEPT ![p].todo = @ \ {m},
                                    ![p].next = [message |-> m, version |-> m.n]]
      <3>1. [message |-> m, version |-> m.n] \in Call
        BY CallType DEF Message
      <3>2. [job[p] EXCEPT !.todo = @ \ {m}, !.next = [message |-> m, version |-> m.n]] \in Job
        BY <2>1, <3>1 DEF Job
      <3> DEFINE read == [job[p] EXCEPT !.todo = job[p].todo \ {m},
                                        !.next = [message |-> m, version |-> m.n]]
      <3>5. job' = [job EXCEPT ![p] = read]
        BY <2>4
      <3>6. read \in Job
        BY <3>2
      <3> HIDE DEF read
      <3>3. JobsOK'
        BY <2>4, <3>5, <3>6, JobWritten
      <3>4. QED
        BY <1>11, <2>4, <3>3 DEF Candidate, JobsOK
    <2>5. QED
      BY <1>11, <2>3, <2>4 DEF Candidate
  <1>12. ASSUME NEW c \in flight[p], Return(p, c)
         PROVE  TypeOK'
    <2>1. at[p] \in Working /\ c \in Call /\ c.message.thread \in Thread /\ c.version \in Version
      BY DEF Places, Working, Looking, Call, Message
    <2>2. job[p] \in Job
      BY <2>1 DEF Working
    <2>3. [job[p] EXCEPT !.thrown = TRUE] \in Job
      BY <2>2, JobFields
    <2>4. JobsOK'
      <3>1. CASE UNCHANGED job
        BY <1>12, <3>1 DEF Return, JobsOK
      <3>2. CASE job' = [job EXCEPT ![p].thrown = TRUE]
        BY <1>12, <3>2, <2>3, JobWritten DEF Return
      <3>3. QED
        BY <1>12, <3>1, <3>2 DEF Return
    <2>5. outcome' \in [Run -> [Message -> {"unlisted", "listed"} \cup Failure \cup Settled]]
      BY <1>12, Observed DEF Return, Failure, Settled
    <2>6. judged' \in [Thread -> [Version -> {"none", "provider_failure", "classified"}]]
      <3>1. CASE UNCHANGED judged
        BY <3>1
      <3>2. ASSUME NEW status \in {"classified", "provider_failure"}, judged' = Recorded(c, status)
            PROVE  judged' \in [Thread -> [Version -> {"none", "provider_failure", "classified"}]]
        BY <2>1, <3>2 DEF Recorded
      <3>3. QED
        BY <1>12, <3>1, <3>2 DEF Return
    <2>7. QED
      BY <1>12, <2>4, <2>5, <2>6 DEF Return, JobsOK
  <1>13. CASE Quit(p)
    BY <1>13 DEF Quit
  <1>14. CASE Throw(p)
    <2>1. [job[p] EXCEPT !.todo = {}] \in Job
      BY <1>14, JobFields DEF Throw
    <2>2. [[job[p] EXCEPT !.todo = {}] EXCEPT !.next = NoCall] \in Job
      BY <2>1, JobFields
    <2>3. [[[job[p] EXCEPT !.todo = {}] EXCEPT !.next = NoCall] EXCEPT !.thrown = TRUE] \in Job
      BY <2>2, JobFields
    <2>4. JobsOK'
      BY <1>14, <2>3, JobWritten DEF Throw
    <2>5. QED
      BY <1>14, <2>4 DEF Throw, JobsOK
  <1>15. QED
    BY <1>1, <1>2, <1>3, <1>4, <1>5, <1>6, <1>7, <1>8, <1>9, <1>10, <1>11, <1>12, <1>13, <1>14
       DEF Step

\* A step keeps the types.
LEMMA NextTypes == IInv /\ [Next]_vars => TypeOK'
  <1> SUFFICES ASSUME TypeOK, Places, WorkIsOwned, Budgeted, [Next]_vars PROVE TypeOK'
    BY DEF IInv
  <1> USE DEF TypeOK
  <1>1. ASSUME NEW p \in Pid, NEW budget \in Budget, NEW groups \in Groups, Start(p, budget, groups)
        PROVE  TypeOK'
    <2>1. JobsOK'
      BY <1>1, NewJobType, JobWritten DEF Start
    <2>2. QED
      BY <1>1, <2>1 DEF Start, JobsOK
  <1>2. ASSUME NEW p \in Pid, NEW r \in Run, Begin(p, r)
        PROVE  TypeOK'
    <2>1. runs' \in [Run -> RunRow \cup {NoRow}]
      BY <1>2 DEF Begin, Begun, RunRow, NoRow
    <2>2. JobsOK'
      <3>1. CASE /\ at' = [at EXCEPT ![p] = "list"]
                 /\ job' = [job EXCEPT ![p].run = r, ![p].seen = {}, ![p].calls = 0]
        <4>1. job[p] \in Job
          BY <1>2 DEF Begin
        <4>2. [job[p] EXCEPT !.run = r] \in Job
          BY <4>1, JobFields
        <4>3. [[job[p] EXCEPT !.run = r] EXCEPT !.seen = {}] \in Job
          BY <4>2, JobFields
        <4>4. [[[job[p] EXCEPT !.run = r] EXCEPT !.seen = {}] EXCEPT !.calls = 0] \in Job
          BY <4>3, JobFields
        <4>5. QED
          BY <3>1, <4>4, JobWritten
      <3>2. CASE at' = [at EXCEPT ![p] = "idle"] /\ job' = [job EXCEPT ![p] = NoJob]
        BY <3>2, JobDropped
      <3>3. QED
        BY <1>2, <3>1, <3>2 DEF Begin
    <2>3. QED
      BY <1>2, <2>1, <2>2 DEF Begin, JobsOK
  <1>3. ASSUME NEW p \in Pid, Step(p)
        PROVE  TypeOK'
    BY <1>3, StepTypes
  <1>4. ASSUME NEW p \in Pid, Stop(p)
        PROVE  TypeOK'
    <2>1. [job[p] EXCEPT !.stop = TRUE] \in Job
      BY <1>4, JobFields DEF Stop
    <2>2. JobsOK'
      BY <1>4, <2>1, JobWritten DEF Stop
    <2>3. QED
      BY <1>4, <2>2 DEF Stop, JobsOK
  <1>5. ASSUME NEW p \in Pid, Crash(p) \/ Respawn(p)
        PROVE  TypeOK'
    BY <1>5 DEF Crash, Respawn
  <1>6. ASSUME NEW t \in Thread, Arrive(t)
        PROVE  TypeOK'
    BY <1>6 DEF Arrive, Version
  <1>7. CASE UNCHANGED vars
    BY <1>7 DEF vars
  <1>8. QED
    BY <1>1, <1>2, <1>3, <1>4, <1>5, <1>6, <1>7 DEF Next

-----------------------------------------------------------------------------
(* What the steps of a process looking at its messages do, field by field.   *)

\* No other process is touched.
Others(p) ==
  \A q \in Pid \ {p} : /\ at'[q] = at[q] /\ job'[q] = job[q]
                       /\ flight'[q] = flight[q] /\ paid'[q] = paid[q]

\* The parts of the memory that no step on a message touches.
Alike(p) ==
  /\ job'[p].run = job[p].run /\ job'[p].budget = job[p].budget
  /\ job'[p].left = job[p].left

\* One message of p's run gets a status, no other outcome changes.
Gets(p, m, status) ==
  \A r \in Run, k \in Message :
    outcome'[r][k] = IF r = job[p].run /\ k = m THEN status ELSE outcome[r][k]

\* What Observe means, message by message.
LEMMA ObserveGets ==
  ASSUME TypeOK, NEW p \in Pid, NEW m \in Message, NEW status, job[p].run \in Run,
         Observe(p, m, status)
  PROVE  Gets(p, m, status)
  BY DEF TypeOK, Observe, Gets

\* Candidate takes a message off the list: its outcome is settled or it is read.
LEMMA CandidateEffect ==
  ASSUME TypeOK, Places, NEW p \in Pid, NEW m \in Message, Candidate(p, m)
  PROVE  /\ Others(p) /\ Alike(p)
         /\ at[p] = "next" /\ m \in job[p].todo /\ job'[p].todo = job[p].todo \ {m}
         /\ job'[p].seen = job[p].seen /\ job'[p].calls = job[p].calls
         /\ job'[p].thrown = job[p].thrown
         /\ flight' = flight /\ paid' = paid /\ judged' = judged /\ version' = version
         /\ runs' = runs /\ alive' = alive
         /\ \/ /\ at'[p] = "next"
               /\ \E status \in {"deferred", "already_current"} :
                    /\ Gets(p, m, status)
                    /\ status = "already_current" => MessageJudged(m)
            \/ /\ at'[p] = "read" /\ outcome' = outcome
               /\ job'[p].next.message = m /\ job'[p].next \in Call
  <1> USE DEF TypeOK
  <1>1. job[p] \in Job /\ job[p].run \in Run
    BY DEF Candidate, Places, Working
  <1>2. m.n \in Version /\ [message |-> m, version |-> m.n] \in Call
    BY DEF Message, Call
  <1>3. CASE /\ job[p].stop \/ MessageJudged(m)
             /\ Observe(p, m, IF job[p].stop THEN "deferred" ELSE "already_current")
             /\ job' = [job EXCEPT ![p].todo = @ \ {m}]
             /\ UNCHANGED at
    <2>1. Gets(p, m, IF job[p].stop THEN "deferred" ELSE "already_current")
      BY <1>1, <1>3, ObserveGets
    <2>2. job'[p] = [job[p] EXCEPT !.todo = @ \ {m}]
      BY <1>1, <1>3
    <2>3. QED
      BY <1>1, <1>3, <2>1, <2>2 DEF Candidate, Others, Alike, Job
  <1>4. CASE /\ at' = [at EXCEPT ![p] = "read"] /\ UNCHANGED outcome
             /\ job' = [job EXCEPT ![p].todo = @ \ {m},
                                  ![p].next = [message |-> m, version |-> m.n]]
    <2>1. job'[p] = [job[p] EXCEPT !.todo = @ \ {m}, !.next = [message |-> m, version |-> m.n]]
      BY <1>1, <1>4
    <2>2. job'[p].next = [message |-> m, version |-> m.n]
      BY <1>1, <2>1 DEF Job
    <2>3. QED
      BY <1>1, <1>2, <1>4, <2>1, <2>2 DEF Candidate, Others, Alike, Job
  <1>5. QED
    BY <1>3, <1>4 DEF Candidate

\* ThreadRead settles the message or readies a call for its thread as it is now.
LEMMA ReadEffect ==
  ASSUME TypeOK, Places, NEW p \in Pid, ThreadRead(p),
         NEW m, m = job[p].next.message
  PROVE  /\ Others(p) /\ Alike(p) /\ m \in Message
         /\ at[p] = "read" /\ job'[p].todo = job[p].todo
         /\ job'[p].seen = job[p].seen \cup {m.thread}
         /\ job'[p].thrown = job[p].thrown
         /\ flight' = flight /\ paid' = paid /\ judged' = judged /\ version' = version
         /\ runs' = runs /\ alive' = alive
         /\ \/ /\ at'[p] = "next" /\ job'[p].calls = job[p].calls
               /\ \E status \in {"duplicate", "already_current", "deferred"} :
                    /\ Gets(p, m, status)
                    /\ status = "duplicate" => m.thread \in job[p].seen
                    /\ status = "already_current" => ThreadJudged(m.thread, version[m.thread])
            \/ /\ at'[p] = "add" /\ outcome' = outcome
               /\ m.thread \notin job[p].seen
               /\ ~ThreadJudged(m.thread, version[m.thread])
               /\ job[p].calls < MaxJevCalls(p) /\ job'[p].calls = job[p].calls + 1
               /\ job'[p].next \in Call
               /\ job'[p].next.message = m /\ job'[p].next.version = version[m.thread]
  <1> USE DEF TypeOK
  <1> DEFINE v == version[m.thread]
             mem == [job[p] EXCEPT !.seen = @ \cup {m.thread}]
             status == IF Duplicate(p, m.thread) THEN "duplicate"
                       ELSE IF ThreadJudged(m.thread, v) THEN "already_current" ELSE "deferred"
  <1>1. job[p] \in Job /\ job[p].run \in Run /\ job[p].next \in Call
    BY DEF ThreadRead, Places, Working
  <1>2. m \in Message /\ m.thread \in Thread /\ v \in Version
    BY <1>1 DEF Call, Message
  <1>3. mem \in Job /\ job[p].seen \in SUBSET Thread
    <2>1. job[p].seen \in SUBSET Thread
      BY ONLY <1>1 DEF Job
    <2>2. job[p].seen \cup {m.thread} \in SUBSET Thread
      BY ONLY <2>1, <1>2
    <2>3. \A s \in SUBSET Thread : [job[p] EXCEPT !.seen = s] \in Job
      BY ONLY <1>1, JobFields
    <2>4. QED
      BY ONLY <2>1, <2>2, <2>3
  <1>4. /\ mem.seen = job[p].seen \cup {m.thread}
        /\ mem.run = job[p].run /\ mem.budget = job[p].budget /\ mem.left = job[p].left
        /\ mem.stop = job[p].stop /\ mem.todo = job[p].todo /\ mem.calls = job[p].calls
        /\ mem.thrown = job[p].thrown
    BY <1>1 DEF Job
  <1>5. at[p] = "read" /\ UNCHANGED <<alive, flight, runs, judged, version, paid>>
    BY DEF ThreadRead
  <1>6. CASE /\ Observe(p, m, status)
             /\ at' = [at EXCEPT ![p] = "next"]
             /\ job' = [job EXCEPT ![p] = [mem EXCEPT !.next = NoCall]]
    <2>1. Gets(p, m, status)
      BY <1>1, <1>2, <1>6, ObserveGets
    <2>2. job'[p] = [mem EXCEPT !.next = NoCall] /\ Others(p)
      BY <1>1, <1>5, <1>6 DEF Others
    <2> HIDE DEF mem
    <2>3. Alike(p) /\ job'[p].seen = mem.seen /\ job'[p].calls = mem.calls
          /\ job'[p].todo = mem.todo /\ job'[p].thrown = mem.thrown
      BY <1>3, <1>4, <2>2 DEF Alike, Job
    <2>4. /\ status \in {"duplicate", "already_current", "deferred"}
          /\ status = "duplicate" => m.thread \in job[p].seen
          /\ status = "already_current" => ThreadJudged(m.thread, v)
      BY DEF Duplicate
    <2>5. at'[p] = "next"
      BY <1>6
    <2> HIDE DEF status
    <2>6. QED
      BY <1>2, <1>4, <1>5, <2>1, <2>2, <2>3, <2>4, <2>5
  <1>7. CASE /\ ~Duplicate(p, m.thread) /\ ~ThreadJudged(m.thread, v)
             /\ ~(job[p].calls >= MaxJevCalls(p))
             /\ at' = [at EXCEPT ![p] = "add"]
             /\ job' = [job EXCEPT ![p] = [mem EXCEPT !.calls = @ + 1,
                                                      !.next = [message |-> m, version |-> v]]]
             /\ UNCHANGED outcome
    <2> DEFINE c == [message |-> m, version |-> v]
    <2>1. c \in Call /\ c.message = m /\ c.version = v
      BY <1>2 DEF Call
    <2>2. job'[p] = [mem EXCEPT !.calls = @ + 1, !.next = c] /\ Others(p)
      BY <1>1, <1>5, <1>7 DEF Others
    <2> HIDE DEF mem, c
    <2>3. Alike(p) /\ job'[p].seen = mem.seen /\ job'[p].calls = mem.calls + 1
          /\ job'[p].todo = mem.todo /\ job'[p].thrown = mem.thrown /\ job'[p].next = c
      BY <1>3, <1>4, <2>2 DEF Alike, Job
    <2>4. m.thread \notin job[p].seen
      BY <1>7 DEF Duplicate
    <2>5. job[p].calls < MaxJevCalls(p)
      BY <1>1, <1>7 DEF Job, MaxJevCalls
    <2>6. QED
      BY <1>2, <1>4, <1>5, <1>7, <2>1, <2>2, <2>3, <2>4, <2>5
  <1>8. QED
    BY <1>6, <1>7 DEF ThreadRead

\* ThreadUnread gives the message up.
LEMMA UnreadEffect ==
  ASSUME TypeOK, Places, NEW p \in Pid, ThreadUnread(p)
  PROVE  /\ Others(p) /\ Alike(p)
         /\ at[p] = "read" /\ at'[p] = "next" /\ job'[p].todo = job[p].todo
         /\ job'[p].seen = job[p].seen /\ job'[p].calls = job[p].calls
         /\ job'[p].thrown = job[p].thrown
         /\ flight' = flight /\ paid' = paid /\ judged' = judged /\ version' = version
         /\ runs' = runs /\ alive' = alive
         /\ Gets(p, job[p].next.message, "read_error")
  <1> USE DEF TypeOK
  <1>1. job[p] \in Job /\ job[p].run \in Run /\ job[p].next.message \in Message
    BY DEF ThreadUnread, Places, Working, Call
  <1>2. Gets(p, job[p].next.message, "read_error")
    BY <1>1, ObserveGets DEF ThreadUnread
  <1>3. job'[p] = [job[p] EXCEPT !.next = NoCall] /\ at'[p] = "next"
    BY <1>1 DEF ThreadUnread, Onward
  <1>4. QED
    BY <1>1, <1>2, <1>3 DEF ThreadUnread, Onward, Others, Alike, Job

\* Throw leaves the rest of the run.
LEMMA ThrowEffect ==
  ASSUME TypeOK, Places, NEW p \in Pid, Throw(p)
  PROVE  /\ Others(p) /\ Alike(p)
         /\ at[p] \in {"list", "next", "read"} /\ at'[p] = "settle"
         /\ job'[p].todo = {} /\ job'[p].thrown
         /\ job'[p].seen = job[p].seen /\ job'[p].calls = job[p].calls
         /\ flight' = flight /\ paid' = paid /\ judged' = judged /\ version' = version
         /\ runs' = runs /\ alive' = alive /\ outcome' = outcome
  <1>1. job[p] \in Job
    BY DEF Throw, TypeOK
  <1>2. job'[p] = [job[p] EXCEPT !.todo = {}, !.next = NoCall, !.thrown = TRUE]
    BY <1>1 DEF Throw, TypeOK
  <1>3. QED
    BY <1>1, <1>2 DEF Throw, Others, Alike, Job, TypeOK

\* Add ends the loop, defers the message, or lets its call go out.
LEMMA AddEffect ==
  ASSUME TypeOK, Places, NEW p \in Pid, Add(p)
  PROVE  /\ Others(p) /\ Alike(p) /\ job[p].next \in Call
         /\ at[p] = "add" /\ job'[p].todo = job[p].todo
         /\ job'[p].seen = job[p].seen /\ job'[p].calls = job[p].calls
         /\ job[p].thrown => job'[p].thrown
         /\ judged' = judged /\ version' = version /\ runs' = runs /\ alive' = alive
         /\ \/ /\ at'[p] \in {"next", "settle"} /\ job'[p].thrown /\ outcome' = outcome
               /\ at'[p] = "settle" => job[p].thrown
               /\ flight' = flight /\ paid' = paid
            \/ /\ at'[p] = "next" /\ Gets(p, job[p].next.message, "deferred")
               /\ job'[p].thrown = job[p].thrown /\ flight' = flight /\ paid' = paid
            \/ /\ at'[p] = "next" /\ outcome' = outcome /\ job'[p].thrown = job[p].thrown
               /\ flight'[p] = flight[p] \cup {job[p].next} /\ paid'[p] = paid[p] + 1
  <1> USE DEF TypeOK
  <1>1. /\ job[p] \in Job /\ job[p].run \in Run
        /\ job[p].next \in Call /\ job[p].next.message \in Message
    BY DEF Add, Places, Working, Call
  <1>2. CASE job[p].thrown
    BY <1>1, <1>2 DEF Add, Others, Alike
  <1>3. CASE ~job[p].thrown /\ Onward(p)
    <2>1. job'[p] = [job[p] EXCEPT !.next = NoCall] /\ at'[p] = "next"
      BY <1>1, <1>3 DEF Onward
    <2>2. /\ Alike(p) /\ job'[p].seen = job[p].seen /\ job'[p].calls = job[p].calls
          /\ job'[p].todo = job[p].todo /\ job'[p].thrown = job[p].thrown
      BY <1>1, <2>1 DEF Alike, Job
    <2>3. CASE Observe(p, job[p].next.message, "deferred") /\ UNCHANGED <<flight, paid>>
      <3>1. Gets(p, job[p].next.message, "deferred")
        BY <1>1, <2>3, ObserveGets
      <3>2. QED
        BY <1>1, <1>3, <2>1, <2>2, <2>3, <3>1 DEF Add, Others, Onward
    <2>4. CASE /\ flight' = [flight EXCEPT ![p] = @ \cup {job[p].next}]
               /\ paid' = [paid EXCEPT ![p] = @ + 1] /\ UNCHANGED outcome
      BY <1>1, <1>3, <2>1, <2>2, <2>4 DEF Add, Others, Onward
    <2>5. CASE /\ job' = [job EXCEPT ![p].next = NoCall, ![p].thrown = TRUE]
               /\ UNCHANGED <<outcome, flight, paid>>
      <3>1. job'[p] = [job[p] EXCEPT !.next = NoCall, !.thrown = TRUE]
        BY <1>1, <2>5
      <3>2. job'[p].thrown
        BY <1>1, <3>1 DEF Job
      <3>3. QED
        BY <1>3, <2>2, <3>2
    <2>6. QED
      BY <1>3, <2>3, <2>4, <2>5 DEF Add
  <1>4. CASE /\ at' = [at EXCEPT ![p] = "next"]
             /\ job' = [job EXCEPT ![p].next = NoCall, ![p].thrown = TRUE]
             /\ UNCHANGED <<outcome, flight, paid>>
    <2>1. job'[p] = [job[p] EXCEPT !.next = NoCall, !.thrown = TRUE]
      BY <1>1, <1>4
    <2>2. QED
      BY <1>1, <1>4, <2>1 DEF Add, Others, Alike, Job
  <1>5. QED
    BY <1>2, <1>3, <1>4 DEF Add

\* Return takes a call back; its message gets a status that tells, or the run is
\* known to have failed.
LEMMA ReturnEffect ==
  ASSUME TypeOK, Places, NEW p \in Pid, NEW c \in flight[p], Return(p, c)
  PROVE  /\ Others(p) /\ Alike(p) /\ at[p] \in Looking /\ at'[p] = at[p]
         /\ c \in Call /\ flight'[p] = flight[p] \ {c} /\ paid' = paid
         /\ job'[p].todo = job[p].todo /\ job'[p].next = job[p].next
         /\ job'[p].seen = job[p].seen /\ job'[p].calls = job[p].calls
         /\ version' = version /\ runs' = runs /\ alive' = alive
         /\ \A t \in Thread, v \in Version :
              \/ judged'[t][v] = judged[t][v]
              \/ t = c.message.thread /\ v = c.version /\ judged[t][v] # "classified"
         /\ \/ /\ job'[p].thrown = job[p].thrown
               /\ \E status \in {"classified", "provider_failure", "store_error"} :
                    /\ Gets(p, c.message, status)
                    /\ status = "classified" =>
                         judged'[c.message.thread][c.version] = "classified"
            \/ job'[p].thrown /\ outcome' = outcome
  <1> USE DEF TypeOK
  <1>1. /\ job[p] \in Job /\ job[p].run \in Run /\ at[p] \in Looking
        /\ c \in Call /\ c.message \in Message
        /\ c.message.thread \in Thread /\ c.version \in Version
    BY DEF Places, Working, Looking, Call, Message
  <1>2. Others(p) /\ at' = at /\ flight'[p] = flight[p] \ {c}
    BY DEF Return, Others
  <1>3. \/ job' = job
        \/ job'[p] = [job[p] EXCEPT !.thrown = TRUE]
    BY <1>1 DEF Return
  <1>4. /\ Alike(p) /\ job'[p].seen = job[p].seen /\ job'[p].calls = job[p].calls
        /\ job'[p].todo = job[p].todo /\ job'[p].next = job[p].next
    BY <1>1, <1>3 DEF Alike, Job
  <1>5. \A t \in Thread, v \in Version :
              \/ judged'[t][v] = judged[t][v]
              \/ t = c.message.thread /\ v = c.version /\ judged[t][v] # "classified"
    BY <1>1 DEF Return, Recorded
  <1>6. \/ /\ job' = job
           /\ \E status \in {"classified", "provider_failure", "store_error"} :
                /\ Observe(p, c.message, status)
                /\ status = "classified" => judged' = Recorded(c, "classified")
        \/ /\ job' = [job EXCEPT ![p].thrown = TRUE] /\ outcome' = outcome
    BY DEF Return
  <1>7. \/ /\ job'[p].thrown = job[p].thrown
           /\ \E status \in {"classified", "provider_failure", "store_error"} :
                /\ Gets(p, c.message, status)
                /\ status = "classified" => judged'[c.message.thread][c.version] = "classified"
        \/ job'[p].thrown /\ outcome' = outcome
    <2>1. CASE job' = [job EXCEPT ![p].thrown = TRUE] /\ outcome' = outcome
      BY <1>1, <2>1 DEF Job
    <2>2. ASSUME job' = job, NEW status \in {"classified", "provider_failure", "store_error"},
                 Observe(p, c.message, status),
                 status = "classified" => judged' = Recorded(c, "classified")
          PROVE  /\ Gets(p, c.message, status)
                 /\ status = "classified" => judged'[c.message.thread][c.version] = "classified"
      <3>1. Gets(p, c.message, status)
        BY <1>1, <2>2, ObserveGets
      <3>2. Recorded(c, "classified")[c.message.thread][c.version] = "classified"
        BY <1>1 DEF Recorded
      <3>3. QED
        BY <2>2, <3>1, <3>2
    <2>3. QED
      BY <1>6, <2>1, <2>2
  <1>8. paid' = paid /\ version' = version /\ runs' = runs /\ alive' = alive
    BY DEF Return
  <1>9. QED
    BY <1>1, <1>2, <1>4, <1>5, <1>7, <1>8

-----------------------------------------------------------------------------
(* Where processes are.                                                      *)

\* A process is where its memory says.
LEMMA NextPlaces == IInv /\ [Next]_vars => Places'
  <1> SUFFICES ASSUME TypeOK, Places, WorkIsOwned, TypeOK', [Next]_vars PROVE Places'
    BY NextTypes DEF IInv
  <1> USE DEF TypeOK, Places, Working, Looking, Job, NoJob
  <1>1. ASSUME NEW p \in Pid, NEW budget \in Budget, NEW groups \in Groups, Start(p, budget, groups)
        PROVE  Places'
    BY <1>1 DEF Start, NewJob
  <1>2. ASSUME NEW p \in Pid, NEW r \in Run, Begin(p, r)
        PROVE  Places'
    BY <1>2 DEF Begin
  <1>3. ASSUME NEW p \in Pid, Step(p)
        PROVE  Places'
    <2>1. CASE Resolve(p)
      BY <2>1 DEF Resolve
    <2>2. CASE NotStarted(p)
      BY <2>2 DEF NotStarted
    <2>3. CASE End(p)
      BY <2>3 DEF End
    <2>4. CASE List(p)
      BY <2>4 DEF List
    <2>5. CASE ListFails(p)
      BY <2>5 DEF ListFails
    <2>6. CASE ThreadRead(p)
      <3>1. job[p] \in Job /\ job[p].next \in Call /\ alive[p] /\ job[p].run \in Run
        BY <2>6 DEF ThreadRead
      <3>2. at' = [at EXCEPT ![p] = at'[p]]
        BY <2>6 DEF ThreadRead
      <3>3. /\ Others(p) /\ Alike(p) /\ job'[p].thrown = job[p].thrown /\ at[p] = "read"
            /\ flight' = flight /\ alive' = alive
            /\ at'[p] \in {"next", "add"} /\ (at'[p] = "add" => job'[p].next \in Call)
        BY <2>6, ReadEffect
      <3>4. QED
        BY <3>1, <3>2, <3>3 DEF Others, Alike
    <2>7. CASE ThreadUnread(p)
      BY <2>7 DEF ThreadUnread, Onward
    <2>8. CASE Add(p)
      BY <2>8 DEF Add, Onward
    <2>9. CASE Drain(p)
      BY <2>9 DEF Drain
    <2>10. CASE Finish(p)
      BY <2>10 DEF Finish
    <2>11. ASSUME NEW m \in Message, Candidate(p, m)
           PROVE  Places'
      <3>1. job[p] \in Job /\ alive[p] /\ job[p].run \in Run
        BY <2>11 DEF Candidate
      <3>2. at' = [at EXCEPT ![p] = at'[p]]
        BY <2>11 DEF Candidate
      <3>3. /\ Others(p) /\ Alike(p) /\ job'[p].thrown = job[p].thrown /\ at[p] = "next"
            /\ flight' = flight /\ alive' = alive
            /\ at'[p] \in {"next", "read"} /\ (at'[p] = "read" => job'[p].next \in Call)
        BY <2>11, CandidateEffect
      <3>4. QED
        BY <3>1, <3>2, <3>3 DEF Others, Alike
    <2>12. ASSUME NEW c \in flight[p], Return(p, c)
           PROVE  Places'
      <3>1. at[p] \in Looking /\ job[p] \in Job
        OBVIOUS
      <3>2. /\ \A q \in Pid \ {p} : job'[q] = job[q] /\ flight'[q] = flight[q]
            /\ job'[p] = job[p] \/ job'[p] = [job[p] EXCEPT !.thrown = TRUE]
            /\ at' = at /\ alive' = alive
        BY <2>12 DEF Return
      <3>3. /\ job'[p].run = job[p].run /\ job'[p].seen = job[p].seen
            /\ job'[p].next = job[p].next /\ job'[p].todo = job[p].todo
            /\ job[p].thrown => job'[p].thrown
        BY <3>1, <3>2
      <3>4. QED
        BY <3>1, <3>2, <3>3
    <2>13. CASE Quit(p)
      BY <2>13 DEF Quit
    <2>14. CASE Throw(p)
      <3>1. at' = [at EXCEPT ![p] = "settle"]
        BY <2>14 DEF Throw
      <3>2. QED
        BY <2>14, <3>1, ThrowEffect DEF Others, Alike
    <2>15. QED
      BY <1>3, <2>1, <2>2, <2>3, <2>4, <2>5, <2>6, <2>7, <2>8, <2>9, <2>10, <2>11, <2>12, <2>13,
         <2>14 DEF Step
  <1>4. ASSUME NEW p \in Pid, Stop(p)
        PROVE  Places'
    BY <1>4 DEF Stop
  <1>5. ASSUME NEW p \in Pid, Crash(p)
        PROVE  Places'
    BY <1>5 DEF Crash
  <1>6. ASSUME NEW p \in Pid, Respawn(p)
        PROVE  Places'
    BY <1>6 DEF Respawn
  <1>7. ASSUME NEW t \in Thread, Arrive(t)
        PROVE  Places'
    BY <1>7 DEF Arrive
  <1>8. CASE UNCHANGED vars
    BY <1>8 DEF vars
  <1>9. QED
    BY <1>1, <1>2, <1>3, <1>4, <1>5, <1>6, <1>7, <1>8 DEF Next

\* List gives every listed message of the new run the outcome "listed".
LEMMA ListEffect ==
  ASSUME TypeOK, Places, NEW p \in Pid, List(p)
  PROVE  /\ Others(p) /\ Alike(p)
         /\ at[p] = "list" /\ at'[p] = "next" /\ flight'[p] = {}
         /\ job'[p].todo \in SUBSET {m \in Message : m.n <= version[m.thread]}
         /\ job'[p].seen = {} /\ job'[p].calls = job[p].calls /\ ~job'[p].thrown
         /\ flight' = flight /\ paid' = paid /\ judged' = judged /\ version' = version
         /\ runs' = runs /\ alive' = alive
         /\ \A r \in Run, k \in Message :
              outcome'[r][k] = IF r = job[p].run
                                 THEN IF k \in job'[p].todo THEN "listed" ELSE "unlisted"
                                 ELSE outcome[r][k]
  <1> USE DEF TypeOK
  <1>1. PICK listed \in SUBSET {m \in Message : m.n <= version[m.thread]} :
          /\ job' = [job EXCEPT ![p].todo = listed]
          /\ outcome' = [outcome EXCEPT ![job[p].run] =
                           [m \in Message |-> IF m \in listed THEN "listed" ELSE "unlisted"]]
    BY DEF List
  <1>2. job[p] \in Job /\ job[p].run \in Run /\ job[p].seen = {} /\ flight[p] = {} /\ ~job[p].thrown
    BY DEF List, Places, Working, Looking
  <1>3. job'[p] = [job[p] EXCEPT !.todo = listed]
    BY <1>1, <1>2
  <1>4. /\ Alike(p) /\ job'[p].seen = job[p].seen /\ job'[p].calls = job[p].calls
        /\ job'[p].todo = listed /\ job'[p].thrown = job[p].thrown
    BY <1>2, <1>3 DEF Alike, Job
  <1>5. QED
    BY <1>1, <1>2, <1>4 DEF List, Others

\* Begin opens a run of its own on a table without a run in progress, or fails to.
LEMMA BeginEffect ==
  ASSUME TypeOK, Places, NEW p \in Pid, NEW r \in Run, Begin(p, r)
  PROVE  /\ Others(p) /\ at[p] = "scope" /\ flight[p] = {} /\ runs[r] = NoRow
         /\ flight' = flight /\ paid' = paid /\ judged' = judged /\ version' = version
         /\ outcome' = outcome /\ alive' = alive
         /\ ~RunInProgress
         /\ runs'[r] = [status |-> "running", pid |-> p]
         /\ \A q \in Run \ {r} : \/ runs'[q] = runs[q]
                                 \/ /\ runs[q].status = "running"
                                    /\ runs'[q].status = "interrupted"
                                    /\ runs'[q] # NoRow
         /\ \/ at'[p] = "idle"
            \/ /\ at'[p] = "list" /\ job[p] \in Job
               /\ job'[p].run = r /\ job'[p].seen = {} /\ job'[p].calls = 0
               /\ job'[p].budget = job[p].budget /\ job'[p].left = job[p].left
               /\ job'[p].todo = job[p].todo /\ job'[p].thrown = job[p].thrown
  <1> USE DEF TypeOK
  <1>1. /\ at[p] = "scope" /\ flight[p] = {} /\ runs[r] = NoRow /\ ~RunInProgress
        /\ runs' = Begun(p, r)
        /\ UNCHANGED <<alive, flight, outcome, judged, version, paid>>
    BY DEF Begin, Places, Looking, Working
  <1>2. job[p] \in Job
    BY <1>1
  <1>3. \A q \in Run \ {r} : \/ runs'[q] = runs[q]
                             \/ /\ runs[q].status = "running"
                                /\ runs'[q].status = "interrupted"
                                /\ runs'[q] # NoRow
    <2> SUFFICES ASSUME NEW q \in Run \ {r}, runs[q].status = "running"
                 PROVE  runs'[q].status = "interrupted" /\ runs'[q] # NoRow
      BY <1>1 DEF Begun
    <2>1. runs'[q] = [runs[q] EXCEPT !.status = "interrupted"]
      BY <1>1 DEF Begun
    <2>2. runs[q] \in RunRow
      BY DEF NoRow
    <2>3. runs'[q].status = "interrupted"
      BY <2>1, <2>2 DEF RunRow
    <2>4. QED
      BY <2>3 DEF NoRow
  <1>4. CASE /\ at' = [at EXCEPT ![p] = "list"]
             /\ job' = [job EXCEPT ![p].run = r, ![p].seen = {}, ![p].calls = 0]
    <2>1. job'[p] = [job[p] EXCEPT !.run = r, !.seen = {}, !.calls = 0]
      BY <1>2, <1>4
    <2>2. QED
      BY <1>1, <1>2, <1>3, <1>4, <2>1 DEF Others, Begun, Job
  <1>5. CASE at' = [at EXCEPT ![p] = "idle"] /\ job' = [job EXCEPT ![p] = NoJob]
    BY <1>1, <1>3, <1>5 DEF Others, Begun
  <1>6. QED
    BY <1>4, <1>5 DEF Begin

\* The memory of a process that begins a run.
LEMMA BeginMemory ==
  ASSUME TypeOK, Places, NEW p \in Pid, NEW r \in Run, Begin(p, r), at'[p] # "idle"
  PROVE  /\ at'[p] = "list" /\ job[p] \in Job
         /\ job'[p].run = r /\ job'[p].seen = {} /\ job'[p].calls = 0
         /\ job'[p].budget = job[p].budget /\ job'[p].left = job[p].left
         /\ job'[p].todo = job[p].todo /\ job'[p].thrown = job[p].thrown
  BY BeginEffect

\* Finish ends the run, unless its last write is refused, and leaves it.
LEMMA FinishEffect ==
  ASSUME TypeOK, Places, NEW p \in Pid, Finish(p)
  PROVE  /\ Others(p) /\ at[p] = "settle" /\ flight[p] = {} /\ job[p].run \in Run
         /\ flight' = flight /\ paid' = paid /\ judged' = judged /\ version' = version
         /\ outcome' = outcome /\ alive' = alive
         /\ \/ runs' = runs
            \/ runs' = [runs EXCEPT ![job[p].run].status = FinalStatus(p)]
         /\ at'[p] \in {"group", "idle"}
         /\ at'[p] = "group" =>
              /\ ~job[p].thrown /\ runs' = [runs EXCEPT ![job[p].run].status = FinalStatus(p)]
              /\ job'[p] = [job[p] EXCEPT !.left = @ - Used(job[p].run), !.run = "none"]
  <1> USE DEF TypeOK
  <1>1. at[p] = "settle" /\ flight[p] = {} /\ job[p].run \in Run /\ job[p] \in Job
    BY DEF Finish, Places, Working
  <1>2. CASE /\ ~job[p].thrown
             /\ runs' = [runs EXCEPT ![job[p].run].status = FinalStatus(p)]
             /\ at' = [at EXCEPT ![p] = "group"]
             /\ job' = [job EXCEPT ![p].left = @ - Used(job[p].run), ![p].run = "none"]
    BY <1>1, <1>2 DEF Finish, Others
  <1>3. CASE /\ \/ job[p].thrown /\ runs' = [runs EXCEPT ![job[p].run].status = FinalStatus(p)]
                \/ StoreFails /\ UNCHANGED runs
             /\ at' = [at EXCEPT ![p] = "idle"]
             /\ job' = [job EXCEPT ![p] = NoJob]
    BY <1>1, <1>3 DEF Finish, Others
  <1>4. QED
    BY <1>2, <1>3 DEF Finish

-----------------------------------------------------------------------------
(* Who moves a process at work: the process itself, or nobody.               *)

\* A step of p's run: its listing, or one on its messages and calls.
LookStep(p) ==
  \/ List(p) \/ ThreadRead(p) \/ ThreadUnread(p) \/ Throw(p) \/ Add(p) \/ Drain(p)
  \/ \E m \in Message : Candidate(p, m)
  \/ \E c \in flight[p] : Return(p, c)

\* Nothing of p's run moves, but for a stop that reaches it and mail that arrives.
Kept(p) ==
  /\ at[p] \in Working /\ at'[p] = at[p] /\ Alike(p)
  /\ flight'[p] = flight[p] /\ paid'[p] = paid[p]
  /\ job'[p].todo = job[p].todo /\ job'[p].seen = job[p].seen /\ job'[p].next = job[p].next
  /\ job'[p].calls = job[p].calls /\ job'[p].thrown = job[p].thrown
  /\ runs'[job[p].run] = runs[job[p].run] /\ outcome' = outcome /\ judged' = judged
  /\ \A t \in Thread : version[t] <= version'[t]

\* No run can begin beside a process at work.
LEMMA Busy ==
  ASSUME TypeOK, Places, WorkIsOwned, NEW p \in Pid, at[p] \in Working
  PROVE  RunInProgress
  <1>1. /\ job[p].run \in Run /\ alive[p]
        /\ runs[job[p].run] = [status |-> "running", pid |-> p]
    BY Alone
  <1>2. runs[job[p].run].status = "running" /\ runs[job[p].run].pid = p
    BY <1>1
  <1>3. QED
    BY <1>1, <1>2 DEF RunInProgress

\* A process found at work after a step began its run, moved in it, or kept still.
LEMMA Movers ==
  ASSUME TypeOK, Places, WorkIsOwned, [Next]_vars, NEW p \in Pid, at'[p] \in Working
  PROVE  (\E r \in Run : Begin(p, r)) \/ LookStep(p) \/ Kept(p)
  <1>1. ASSUME NEW q \in Pid, NEW budget \in Budget, NEW groups \in Groups, Start(q, budget, groups)
        PROVE  Kept(p)
    <2>1. q # p /\ at' = [at EXCEPT ![q] = "group"] /\ at \in [Pid -> {"idle", "group", "scope", "list", "next", "read", "add", "settle"}]
      BY <1>1 DEF Start, Working, TypeOK
    <2>2. at'[p] = at[p] /\ job'[p] = job[p] /\ paid'[p] = paid[p]
      BY <1>1, <2>1 DEF Start, TypeOK
    <2>3. QED
      BY <1>1, <2>2 DEF Start, Kept, Alike, TypeOK, Version
  <1>2. ASSUME NEW q \in Pid, NEW r \in Run, Begin(q, r)
        PROVE  Begin(p, r)
    <2>1. CASE q = p
      BY <1>2, <2>1
    <2>2. CASE q # p
      <3>1. Others(q) /\ ~RunInProgress
        BY <1>2, BeginEffect
      <3>2. at[p] \in Working
        BY <2>2, <3>1 DEF Others
      <3>3. QED
        BY <3>1, <3>2, Busy
    <2>3. QED
      BY <2>1, <2>2
  <1>3. ASSUME NEW q \in Pid, Step(q)
        PROVE  LookStep(p) \/ Kept(p)
    <2>1. CASE q = p
      <3>1. ~(Resolve(p) \/ NotStarted(p) \/ End(p) \/ Quit(p) \/ ListFails(p) \/ Finish(p))
        BY DEF Resolve, NotStarted, End, Quit, ListFails, Finish, Working, TypeOK
      <3>2. QED
        BY <1>3, <2>1, <3>1 DEF Step, LookStep
    <2>2. CASE q # p
      <3>1. CASE at[p] \in Working
        <4>1. at[q] \in {"idle", "group", "scope"} /\ flight[q] = {}
          BY <2>2, <3>1, Alone
        <4>2. Resolve(q) \/ NotStarted(q) \/ End(q) \/ Quit(q)
          BY <1>3, <4>1 DEF Step, List, ListFails, ThreadRead, ThreadUnread, Throw, Add, Drain, Finish,
                            Candidate
        <4>3. /\ at'[p] = at[p] /\ job'[p] = job[p]
              /\ UNCHANGED <<flight, paid, runs, outcome, judged, version>>
          BY <2>2, <4>2 DEF Resolve, NotStarted, End, Quit, TypeOK
        <4>4. QED
          BY <3>1, <4>3 DEF Kept, Alike, TypeOK, Version
      <3>2. CASE at[p] \notin Working
        <4>1. at'[p] = at[p]
          BY <1>3, <2>2 DEF Step, Resolve, NotStarted, End, Quit, List, ListFails, ThreadRead,
               ThreadUnread, Throw, Add, Drain, Finish, Candidate, Return, Onward, TypeOK
        <4>2. QED
          BY <3>2, <4>1
      <3>3. QED
        BY <3>1, <3>2
    <2>3. QED
      BY <2>1, <2>2
  <1>4. ASSUME NEW q \in Pid, Stop(q)
        PROVE  Kept(p)
    <2>1. at[p] \in Working /\ job[p] \in Job
      BY <1>4 DEF Stop, Working, TypeOK
    <2>2. job'[p] = job[p] \/ job'[p] = [job[p] EXCEPT !.stop = TRUE]
      BY <1>4, <2>1 DEF Stop, TypeOK
    <2>3. /\ Alike(p) /\ job'[p].todo = job[p].todo /\ job'[p].seen = job[p].seen
          /\ job'[p].next = job[p].next /\ job'[p].calls = job[p].calls
          /\ job'[p].thrown = job[p].thrown
      BY <2>1, <2>2 DEF Alike, Job
    <2>4. QED
      BY <1>4, <2>1, <2>3 DEF Stop, Kept, TypeOK, Version
  <1>5. ASSUME NEW q \in Pid, Crash(q) \/ Respawn(q)
        PROVE  Kept(p)
    <2>1. /\ at'[p] = at[p] /\ job'[p] = job[p] /\ flight'[p] = flight[p]
          /\ UNCHANGED <<runs, outcome, judged, version, paid>>
      BY <1>5 DEF Crash, Respawn, Working, TypeOK
    <2>2. QED
      BY <2>1 DEF Kept, Alike, TypeOK, Version
  <1>6. ASSUME NEW u \in Thread, Arrive(u)
        PROVE  Kept(p)
    BY <1>6 DEF Arrive, Kept, Alike, TypeOK, Version
  <1>7. CASE UNCHANGED vars
    BY <1>7 DEF vars, Kept, Alike, TypeOK, Version
  <1>8. QED
    BY <1>1, <1>2, <1>3, <1>4, <1>5, <1>6, <1>7 DEF Next

\* What a step of p's run leaves alone.
LEMMA LookKeeps ==
  ASSUME TypeOK, Places, NEW p \in Pid, LookStep(p)
  PROVE  Others(p) /\ Alike(p) /\ runs' = runs /\ alive' = alive /\ version' = version /\ at[p] \in Working
  <1>1. CASE List(p)
    BY <1>1, ListEffect DEF Working
  <1>2. CASE ThreadRead(p)
    BY <1>2, ReadEffect DEF Working
  <1>3. CASE ThreadUnread(p)
    BY <1>3, UnreadEffect DEF Working
  <1>4. CASE Add(p)
    BY <1>4, AddEffect DEF Working
  <1>5. CASE Drain(p)
    BY <1>5 DEF Drain, Others, Alike, TypeOK, Working
  <1>6. ASSUME NEW m \in Message, Candidate(p, m)
        PROVE  Others(p) /\ Alike(p) /\ runs' = runs /\ alive' = alive /\ version' = version /\ at[p] \in Working
    BY <1>6, CandidateEffect DEF Working
  <1>7. ASSUME NEW c \in flight[p], Return(p, c)
        PROVE  Others(p) /\ Alike(p) /\ runs' = runs /\ alive' = alive /\ version' = version /\ at[p] \in Working
    BY <1>7, ReturnEffect DEF Looking
  <1>8. CASE Throw(p)
    BY <1>8, ThrowEffect DEF Working
  <1>9. QED
    BY <1>1, <1>2, <1>3, <1>4, <1>5, <1>6, <1>7, <1>8 DEF LookStep

\* Two processes are never at work, and the one that is owns its running row.
LEMMA NextOwned == IInv /\ [Next]_vars => WorkIsOwned'
  <1> SUFFICES ASSUME TypeOK, Places, WorkIsOwned, TypeOK', Places', [Next]_vars PROVE WorkIsOwned'
    BY NextTypes, NextPlaces DEF IInv
  <1>1. ASSUME NEW p \in Pid, at'[p] \in Working, NEW q \in Pid \ {p}, at'[q] \in Working
        PROVE  FALSE
    <2>1. at[p] \in Working => at[q] \notin Working
      BY Alone DEF Working
    <2>2. ASSUME NEW x \in Pid, NEW y \in Pid \ {x}, at'[y] \in Working, NEW r \in Run, Begin(x, r)
          PROVE  FALSE
      <3>1. Others(x) /\ ~RunInProgress
        BY <2>2, BeginEffect
      <3>2. at[y] \in Working
        BY <2>2, <3>1 DEF Others
      <3>3. QED
        BY <3>1, <3>2, Busy
    <2>3. ASSUME NEW x \in Pid, at'[x] \in Working, NEW y \in Pid \ {x}, at'[y] \in Working
          PROVE  at[x] \in Working
      BY <2>2, <2>3, Movers, LookKeeps DEF Kept
    <2>4. QED
      BY <1>1, <2>1, <2>3
  <1>2. ASSUME NEW p \in Pid, at'[p] \in Working
        PROVE  runs'[job'[p].run] = [status |-> "running", pid |-> p]
    <2>1. ASSUME NEW r \in Run, Begin(p, r)
          PROVE  runs'[job'[p].run] = [status |-> "running", pid |-> p]
      BY <1>2, <2>1, BeginEffect DEF Working
    <2>2. CASE LookStep(p)
      BY <2>2, LookKeeps, Alone DEF Alike
    <2>3. CASE Kept(p)
      BY <2>3, Alone DEF Kept, Alike
    <2>4. QED
      BY <1>2, <2>1, <2>2, <2>3, Movers
  <1>3. \A p \in Pid : at'[p] \notin {"idle", "group", "scope"} \/ flight'[p] # {} => at'[p] \in Working
    BY DEF TypeOK, Places, Working, Looking
  <1>4. \A p \in Pid : at'[p] \notin Working => at'[p] \in {"idle", "group", "scope"} /\ flight'[p] = {}
    BY DEF TypeOK, Places, Working, Looking
  <1>5. \A p \in Pid : at'[p] \in Working => alive'[p]
    BY DEF Places, Working
  <1>6. QED
    BY <1>1, <1>2, <1>3, <1>4, <1>5 DEF WorkIsOwned

\* A step of p's run touches no other run, and no classified judgment.
LEMMA LookTouches ==
  ASSUME TypeOK, Places, NEW p \in Pid, LookStep(p)
  PROVE  /\ \A r \in Run \ {job[p].run}, m \in Message : outcome'[r][m] = outcome[r][m]
         /\ \A t \in Thread, v \in Version :
              judged[t][v] = "classified" => judged'[t][v] = "classified"
         /\ at'[p] \in Looking
  <1> DEFINE Goal == /\ \A r \in Run \ {job[p].run}, m \in Message : outcome'[r][m] = outcome[r][m]
                     /\ \A t \in Thread, v \in Version :
                          judged[t][v] = "classified" => judged'[t][v] = "classified"
                     /\ at'[p] \in Looking
  <1>1. CASE List(p)
    BY <1>1, ListEffect DEF Looking, Working
  <1>2. CASE ThreadRead(p)
    BY <1>2, ReadEffect DEF Gets, Looking, Working
  <1>3. CASE ThreadUnread(p)
    BY <1>3, UnreadEffect DEF Gets, Looking, Working
  <1>4. CASE Add(p)
    BY <1>4, AddEffect DEF Gets, Looking, Working
  <1>5. CASE Drain(p)
    BY <1>5 DEF Drain, TypeOK, Looking, Working
  <1>6. ASSUME NEW m \in Message, Candidate(p, m)
        PROVE  Goal
    BY <1>6, CandidateEffect DEF Gets, Looking, Working
  <1>7. ASSUME NEW c \in flight[p], Return(p, c)
        PROVE  Goal
    BY <1>7, ReturnEffect DEF Gets
  <1>8. CASE Throw(p)
    BY <1>8, ThrowEffect DEF Looking, Working
  <1>9. QED
    BY <1>1, <1>2, <1>3, <1>4, <1>5, <1>6, <1>7, <1>8 DEF LookStep

\* The tables of the runs and of what became of their messages change by these steps only.
LEMMA TableSteps ==
  ASSUME [Next]_vars
  PROVE  \/ \E p \in Pid : LookStep(p) \/ ListFails(p) \/ Finish(p)
         \/ \E p \in Pid, r \in Run : Begin(p, r)
         \/ UNCHANGED <<runs, outcome, judged>>
  <1>1. ASSUME NEW p \in Pid, Step(p)
        PROVE  \/ LookStep(p) \/ ListFails(p) \/ Finish(p)
               \/ UNCHANGED <<runs, outcome, judged>>
    BY <1>1 DEF Step, LookStep, Resolve, NotStarted, End, Quit
  <1>2. ASSUME NEW p \in Pid, Stop(p) \/ Crash(p) \/ Respawn(p)
        PROVE  UNCHANGED <<runs, outcome, judged>>
    BY <1>2 DEF Stop, Crash, Respawn
  <1>3. QED
    BY <1>1, <1>2 DEF Next, Start, Arrive, vars

\* A run ends by a status in its row.
LEMMA RowEnds ==
  ASSUME TypeOK, Places, WorkIsOwned, NEW p \in Pid, at[p] \in Working,
         NEW status \in {"completed", "partial", "failed", "interrupted"},
         runs' = [runs EXCEPT ![job[p].run].status = status]
  PROVE  /\ runs'[job[p].run].status = status /\ runs'[job[p].run] # NoRow
         /\ \A r \in Run \ {job[p].run} : runs'[r] = runs[r]
  <1>0. job[p].run \in Run /\ runs[job[p].run].status = "running"
    BY Alone
  <1>1. job[p].run \in Run /\ runs[job[p].run] \in RunRow
    BY <1>0 DEF TypeOK, NoRow
  <1>2. runs'[job[p].run] = [runs[job[p].run] EXCEPT !.status = status]
    BY <1>1 DEF TypeOK
  <1>3. runs'[job[p].run].status = status
    BY <1>1, <1>2 DEF RunRow
  <1>4. QED
    BY <1>1, <1>3 DEF NoRow, TypeOK

-----------------------------------------------------------------------------
(* The run at hand, one part of the invariant at a time.                     *)

\* A run that has listed nothing yet has no outcomes.
LEMMA NextUnlisted == IInv /\ [Next]_vars => Unlisted'
  <1> SUFFICES ASSUME TypeOK, Places, WorkIsOwned, Unlisted, TypeOK', Places', [Next]_vars
               PROVE  Unlisted'
    BY NextTypes, NextPlaces DEF IInv
  <1>1. ASSUME NEW r \in Run, runs'[r] = NoRow, NEW m \in Message
        PROVE  outcome'[r][m] = "unlisted"
    <2>1. ASSUME NEW p \in Pid, LookStep(p)
          PROVE  outcome'[r][m] = "unlisted"
      <3>0. runs' = runs /\ at[p] \in Working
        BY <2>1, LookKeeps
      <3>1. runs[r] = NoRow /\ runs[job[p].run] # NoRow
        <4>1. runs[job[p].run].status = "running"
          BY <3>0, Alone
        <4>2. QED
          BY <1>1, <3>0, <4>1 DEF NoRow
      <3>2. QED
        BY <2>1, <3>1, LookTouches DEF Unlisted
    <2>2. ASSUME NEW p \in Pid, ListFails(p) \/ Finish(p)
          PROVE  outcome'[r][m] = "unlisted"
      <3>1. at[p] \in Working /\ outcome' = outcome
        BY <2>2 DEF ListFails, Finish, Working
      <3>2. \/ runs' = runs
            \/ runs' = [runs EXCEPT ![job[p].run].status = "failed"]
            \/ runs' = [runs EXCEPT ![job[p].run].status = FinalStatus(p)]
        BY <2>2 DEF ListFails, Finish
      <3>3. FinalStatus(p) \in {"completed", "partial", "failed"}
        BY DEF FinalStatus
      <3>4. runs[r] = NoRow
        BY <1>1, <3>1, <3>2, <3>3, RowEnds
      <3>5. QED
        BY <3>1, <3>4 DEF Unlisted
    <2>3. ASSUME NEW p \in Pid, NEW q \in Run, Begin(p, q)
          PROVE  outcome'[r][m] = "unlisted"
      <3>1. runs[r] = NoRow /\ outcome' = outcome
        BY <1>1, <2>3, BeginEffect DEF NoRow
      <3>2. QED
        BY <3>1 DEF Unlisted
    <2>4. CASE UNCHANGED <<runs, outcome, judged>>
      BY <1>1, <2>4 DEF Unlisted
    <2>5. QED
      BY <2>1, <2>2, <2>3, <2>4, TableSteps
  <1>2. ASSUME NEW p \in Pid, at'[p] = "list", NEW m \in Message
        PROVE  outcome'[job'[p].run][m] = "unlisted"
    <2>1. ASSUME NEW r \in Run, Begin(p, r)
          PROVE  outcome'[job'[p].run][m] = "unlisted"
      <3>1. runs[r] = NoRow /\ outcome' = outcome
        BY <2>1 DEF Begin
      <3>2. job'[p].run = r
        BY <1>2, <2>1, BeginMemory
      <3>3. QED
        BY <3>1, <3>2 DEF Unlisted
    <2>2. ~LookStep(p)
      BY <1>2, LookTouches DEF Looking
    <2>3. CASE Kept(p)
      BY <1>2, <2>3 DEF Kept, Alike, Unlisted
    <2>4. QED
      BY <1>2, <2>1, <2>2, <2>3, Movers DEF Working
  <1>3. QED
    BY <1>1, <1>2 DEF Unlisted

\* The calls in flight and the one to come are for threads seen, each for its own.
LEMMA NextSequenced == IInv /\ [Next]_vars => Sequenced'
  <1> SUFFICES ASSUME TypeOK, Places, WorkIsOwned, Sequenced, TypeOK', Places', [Next]_vars,
                      NEW p \in Pid
               PROVE  /\ \A c \in flight'[p] : c.message.thread \in job'[p].seen
                      /\ \A c, d \in flight'[p] : c.message.thread = d.message.thread => c = d
                      /\ at'[p] = "add" =>
                           /\ job'[p].next.message.thread \in job'[p].seen
                           /\ judged'[job'[p].next.message.thread][job'[p].next.version] # "classified"
                           /\ \A c \in flight'[p] : c.message.thread # job'[p].next.message.thread
    BY NextTypes, NextPlaces DEF IInv, Sequenced
  <1> DEFINE Seq == /\ \A c \in flight[p] : c.message.thread \in job[p].seen
                    /\ \A c, d \in flight[p] : c.message.thread = d.message.thread => c = d
                    /\ at[p] = "add" =>
                         /\ job[p].next.message.thread \in job[p].seen
                         /\ judged[job[p].next.message.thread][job[p].next.version] # "classified"
                         /\ \A c \in flight[p] : c.message.thread # job[p].next.message.thread
  <1>1. Seq
    BY DEF Sequenced
  <1>2. CASE at'[p] \notin Looking
    BY <1>2 DEF Places, Looking, Working
  <1>3. CASE at'[p] \in Looking
    <2>1. ASSUME NEW r \in Run, Begin(p, r)
          PROVE  FALSE
      BY <1>3, <2>1, BeginEffect DEF Looking, Working
    <2>2. CASE List(p)
      BY <2>2, ListEffect
    <2>3. CASE ThreadRead(p)
      BY <1>1, <2>3, ReadEffect DEF ThreadJudged
    <2>4. CASE ThreadUnread(p)
      BY <1>1, <2>4, UnreadEffect
    <2>5. CASE Add(p)
      BY <1>1, <2>5, AddEffect
    <2>6. CASE Drain(p)
      BY <1>1, <2>6 DEF Drain, TypeOK
    <2>7. ASSUME NEW m \in Message, Candidate(p, m)
          PROVE  Seq'
      BY <1>1, <2>7, CandidateEffect
    <2>8. ASSUME NEW c \in flight[p], Return(p, c)
          PROVE  Seq'
      <3>1. at[p] = "add" => c.message.thread # job[p].next.message.thread /\ job[p].next \in Call
        BY <1>1 DEF Places
      <3>2. at[p] = "add" => job[p].next.message.thread \in Thread /\ job[p].next.version \in Version
        BY <3>1 DEF Call, Message
      <3>3. QED
        BY <1>1, <2>8, <3>1, <3>2, ReturnEffect
    <2>9. CASE Kept(p)
      BY <1>1, <2>9 DEF Kept
    <2>10. CASE Throw(p)
      BY <1>1, <2>10, ThrowEffect
    <2>11. QED
      BY <1>3, <2>1, <2>2, <2>3, <2>4, <2>5, <2>6, <2>7, <2>8, <2>9, <2>10, Movers
         DEF LookStep, Looking
  <1>4. QED
    BY <1>2, <1>3

\* What the types say of a process looking at its messages.
LEMMA LookTypes ==
  ASSUME TypeOK, Places, NEW p \in Pid, at[p] \in Looking
  PROVE  /\ job[p] \in Job /\ job[p].run \in Run
         /\ job[p].todo \subseteq Message /\ job[p].seen \subseteq Thread
         /\ job[p].left \in Int /\ job[p].calls \in Nat /\ job[p].budget \in Nat
         /\ \A c \in flight[p] : c \in Call /\ c.message \in Message /\ c.version \in Version
         /\ at[p] \in {"read", "add"} =>
              job[p].next \in Call /\ job[p].next.message \in Message /\ job[p].next.version \in Version
  <1>1. job[p] \in Job /\ job[p].run \in Run /\ flight[p] \subseteq Call
    BY DEF TypeOK, Places, Looking, Working
  <1>2. at[p] \in {"read", "add"} => job[p].next \in Call
    BY DEF Places
  <1>3. \A c \in Call : c.message \in Message /\ c.version \in Version
    BY DEF Call
  <1>4. QED
    BY <1>1, <1>2, <1>3 DEF Job

\* A message is open exactly where the code still holds it.
LEMMA NextOpen == IInv /\ [Next]_vars => OpenListed'
  <1> SUFFICES ASSUME TypeOK, Places, WorkIsOwned, Sequenced, Unlisted, OpenListed, TypeOK', Places', [Next]_vars,
                      NEW p \in Pid, at'[p] \in Looking
               PROVE  /\ \A m \in Open(p)' : outcome'[job'[p].run][m] = "listed"
                      /\ \A m \in Message : outcome'[job'[p].run][m] = "listed"
                                             => m \in Open(p)' \/ job'[p].thrown
                      /\ \A c \in flight'[p] : c.message \notin job'[p].todo
                      /\ at'[p] \in {"read", "add"} =>
                           /\ job'[p].next.message \notin job'[p].todo
                           /\ \A c \in flight'[p] : c.message # job'[p].next.message
    BY NextTypes, NextPlaces DEF IInv, OpenListed
  <1> DEFINE Holds == /\ \A m \in Open(p) : outcome[job[p].run][m] = "listed"
                      /\ \A m \in Message : outcome[job[p].run][m] = "listed"
                                             => m \in Open(p) \/ job[p].thrown
                      /\ \A c \in flight[p] : c.message \notin job[p].todo
                      /\ at[p] \in {"read", "add"} =>
                           /\ job[p].next.message \notin job[p].todo
                           /\ \A c \in flight[p] : c.message # job[p].next.message
  <1>1. at[p] \in Looking => Holds
    BY DEF OpenListed
  <1>2. ASSUME NEW r \in Run, Begin(p, r)
        PROVE  FALSE
    BY <1>2, BeginEffect DEF Looking, Working
  <1>3. CASE List(p)
    <2>1. /\ at'[p] = "next" /\ flight'[p] = {}
          /\ job'[p].run = job[p].run /\ job'[p].todo \subseteq Message
          /\ \A k \in Message :
               outcome'[job[p].run][k] = IF k \in job'[p].todo THEN "listed" ELSE "unlisted"
      <3>1. job[p].run \in Run
        BY <1>3 DEF List, Places, Working
      <3>2. QED
        BY <1>3, <3>1, ListEffect DEF Alike
    <2>2. Open(p)' = job'[p].todo
      BY <2>1 DEF Open
    <2>3. QED
      BY <2>1, <2>2
  <1>4. CASE ThreadRead(p)
    <2>1. at[p] = "read" /\ Holds
      BY <1>1, <1>4 DEF ThreadRead, Looking, Working
    <2>2. QED
      BY <1>4, <2>1, LookTypes, ReadEffect DEF Gets, Alike, Open, Looking, Working
  <1>5. CASE ThreadUnread(p)
    <2>1. at[p] = "read" /\ Holds
      BY <1>1, <1>5 DEF ThreadUnread, Looking, Working
    <2>2. QED
      BY <1>5, <2>1, LookTypes, UnreadEffect DEF Gets, Alike, Open, Looking, Working
  <1>6. CASE Add(p)
    <2>1. at[p] = "add" /\ Holds
      BY <1>1, <1>6 DEF Add, Looking, Working
    <2>2. QED
      BY <1>6, <2>1, LookTypes, AddEffect DEF Gets, Alike, Open, Looking, Working
  <1>7. CASE Drain(p)
    BY <1>1, <1>7 DEF Drain, TypeOK, Open, Looking, Working
  <1>8. ASSUME NEW m \in Message, Candidate(p, m)
        PROVE  Holds'
    <2>1. at[p] = "next" /\ Holds
      BY <1>1, <1>8 DEF Candidate, Looking, Working
    <2>2. QED
      BY <1>8, <2>1, LookTypes, CandidateEffect DEF Gets, Alike, Open, Looking, Working
  <1>9. ASSUME NEW c \in flight[p], Return(p, c)
        PROVE  Holds'
    <2>1. at[p] \in Looking /\ Holds
      BY <1>1, <1>9, ReturnEffect
    <2>2. \A d \in flight[p] : d # c => d.message # c.message
      BY DEF Sequenced
    <2>3. QED
      BY <1>9, <2>1, <2>2, LookTypes, ReturnEffect DEF Gets, Alike, Open
  <1>10. CASE Kept(p)
    BY <1>1, <1>10 DEF Kept, Alike, Open
  <1>11. CASE Throw(p)
    <2>1. CASE at[p] = "list"
      <3>1. /\ job[p].run \in Run /\ flight[p] = {}
            /\ \A m \in Message : outcome[job[p].run][m] = "unlisted"
        BY <2>1 DEF Unlisted, Places, Looking, Working
      <3>2. QED
        BY <1>11, <3>1, ThrowEffect DEF Alike, Open
    <2>2. CASE at[p] # "list"
      <3>1. Holds /\ at[p] \in Looking
        BY <1>1, <1>11, <2>2 DEF Throw, Looking, Working
      <3>2. QED
        BY <1>11, <3>1, ThrowEffect DEF Alike, Open
    <2>3. QED
      BY <2>1, <2>2
  <1>12. QED
    BY <1>2, <1>3, <1>4, <1>5, <1>6, <1>7, <1>8, <1>9, <1>10, <1>11, Movers DEF LookStep, Looking

\* The listed run of p goes on, by a step of its own or beside one of another.
Goes(p) == at[p] \in Looking /\ (LookStep(p) \/ Kept(p))

\* A run whose listing threw has nothing listed, and is over.
Abandons(p) == Throw(p) /\ at[p] = "list"

\* A process looking at messages after a step listed them just now, gave up, or went on.
LEMMA Lookers ==
  ASSUME TypeOK, Places, WorkIsOwned, [Next]_vars, NEW p \in Pid, at'[p] \in Looking
  PROVE  List(p) \/ Abandons(p) \/ Goes(p)
  <1>1. ASSUME NEW r \in Run, Begin(p, r)
        PROVE  FALSE
    BY <1>1, BeginEffect DEF Looking, Working
  <1>2. at'[p] \in Working /\ (Kept(p) => at[p] \in Looking)
    BY DEF Looking, Kept
  <1>3. LookStep(p) => List(p) \/ Abandons(p) \/ at[p] \in Looking
    BY ReturnEffect DEF LookStep, ThreadRead, ThreadUnread, Throw, Add, Drain, Candidate,
                        Abandons, Looking, Working
  <1>4. QED
    BY <1>1, <1>2, <1>3, Movers DEF Goes

\* What a run that gives up leaves behind.
LEMMA AbandonEffect ==
  ASSUME TypeOK, Places, Unlisted, NEW p \in Pid, Abandons(p)
  PROVE  /\ at[p] = "list" /\ at'[p] = "settle" /\ flight'[p] = {} /\ job'[p].seen = {}
         /\ job'[p].thrown /\ job'[p].run = job[p].run /\ job[p].run \in Run
         /\ \A m \in Message : outcome'[job[p].run][m] = "unlisted"
  BY ThrowEffect DEF Abandons, Unlisted, Places, Looking, Working, Alike

\* Once its messages are listed, a run only settles those still open.
LEMMA LookSettles ==
  ASSUME TypeOK, Places, OpenListed, NEW p \in Pid, LookStep(p), at[p] \in Looking
  PROVE  \A m \in Message :
           /\ outcome[job[p].run][m] # "listed" => outcome'[job[p].run][m] = outcome[job[p].run][m]
           /\ outcome[job[p].run][m] = "listed" => outcome'[job[p].run][m] # "unlisted"
  <1> DEFINE Goal == \A m \in Message :
        /\ outcome[job[p].run][m] # "listed" => outcome'[job[p].run][m] = outcome[job[p].run][m]
        /\ outcome[job[p].run][m] = "listed" => outcome'[job[p].run][m] # "unlisted"
  <1>1. ~List(p)
    BY DEF List, Looking
  <1>2. job[p].run \in Run /\ \A m \in Open(p) : outcome[job[p].run][m] = "listed"
    BY LookTypes DEF OpenListed
  <1>3. CASE ThreadRead(p)
    <2>1. job[p].next.message \in Open(p)
      BY <1>3 DEF ThreadRead, Open
    <2>2. QED
      BY <1>2, <1>3, <2>1, ReadEffect DEF Gets
  <1>4. CASE ThreadUnread(p)
    <2>1. job[p].next.message \in Open(p)
      BY <1>4 DEF ThreadUnread, Open
    <2>2. QED
      BY <1>2, <1>4, <2>1, UnreadEffect DEF Gets
  <1>5. CASE Add(p)
    <2>1. job[p].next.message \in Open(p)
      BY <1>5 DEF Add, Open
    <2>2. QED
      BY <1>2, <1>5, <2>1, AddEffect DEF Gets
  <1>6. CASE Drain(p)
    BY <1>6 DEF Drain
  <1>7. ASSUME NEW m \in Message, Candidate(p, m)
        PROVE  Goal
    <2>1. m \in Open(p)
      BY <1>7 DEF Candidate, Open
    <2>2. QED
      BY <1>2, <1>7, <2>1, CandidateEffect DEF Gets
  <1>8. ASSUME NEW c \in flight[p], Return(p, c)
        PROVE  Goal
    <2>1. c.message \in Open(p)
      BY DEF Open
    <2>2. QED
      BY <1>2, <1>8, <2>1, ReturnEffect DEF Gets
  <1>9. CASE Throw(p)
    BY <1>9, ThrowEffect
  <1>10. QED
    BY <1>1, <1>3, <1>4, <1>5, <1>6, <1>7, <1>8, <1>9 DEF LookStep

\* A version that covered what a run had listed of a thread still does.
LEMMA StillCovers ==
  ASSUME TypeOK, Places, OpenListed, NEW p \in Pid,
         Goes(p)
  PROVE  \A t \in Thread, v \in Int :
           CoversListed(job[p].run, t, v) => CoversListed(job[p].run, t, v)'
  <1>1. job'[p].run = job[p].run
    BY LookKeeps DEF Goes, Kept, Alike
  <1>2. \A m \in Message : outcome'[job[p].run][m] # "unlisted" => outcome[job[p].run][m] # "unlisted"
    BY LookSettles DEF Goes, Kept
  <1>3. QED
    BY <1>1, <1>2 DEF CoversListed, Listed

\* The version of a call covers all that was listed of its thread.
LEMMA NextCover == IInv /\ [Next]_vars => CallsCover'
  <1> SUFFICES ASSUME TypeOK, Places, WorkIsOwned, Unlisted, OpenListed, CallsCover, TypeOK', Places',
                      [Next]_vars, NEW p \in Pid, at'[p] \in Looking
               PROVE  /\ \A t \in Thread : CoversListed(job[p].run, t, version[t])'
                      /\ at'[p] = "add" =>
                           CoversListed(job[p].run, job[p].next.message.thread, job[p].next.version)'
                      /\ \A c \in flight'[p] :
                           CoversListed(job[p].run, c.message.thread, c.version)'
    BY NextTypes, NextPlaces DEF IInv, CallsCover
  <1> DEFINE C(t, v) == CoversListed(job[p].run, t, v)
  <1>1. /\ \A t \in Thread : version[t] \in Int /\ version'[t] \in Int
        /\ at[p] \in Looking => \A c \in flight[p] : c.version \in Int /\ c.message.thread \in Thread
        /\ at[p] = "add" => job[p].next.version \in Int /\ job[p].next.message.thread \in Thread
    BY LookTypes DEF TypeOK, Version, Message, Looking, Working
  <1>2. at[p] \in Looking => /\ \A t \in Thread : C(t, version[t])
                             /\ at[p] = "add" => C(job[p].next.message.thread, job[p].next.version)
                             /\ \A c \in flight[p] : C(c.message.thread, c.version)
    BY DEF CallsCover
  <1>4. CASE List(p)
    <2>1. /\ at'[p] = "next" /\ flight'[p] = {} /\ job'[p].run = job[p].run /\ job[p].run \in Run
          /\ version' = version
          /\ job'[p].todo \in SUBSET {m \in Message : m.n <= version[m.thread]}
          /\ \A k \in Message :
               outcome'[job[p].run][k] = IF k \in job'[p].todo THEN "listed" ELSE "unlisted"
      <3>1. job[p].run \in Run
        BY <1>4 DEF List, Places, Working
      <3>2. QED
        BY <1>4, <3>1, ListEffect DEF Alike
    <2>2. QED
      BY <2>1 DEF CoversListed, Listed
  <1>5. ASSUME Goes(p)
        PROVE  /\ \A t \in Thread : C(t, version[t])'
               /\ at[p] = "add" => C(job[p].next.message.thread, job[p].next.version)
               /\ \A t \in Thread, v \in Int : C(t, v) => C(t, v)'
               /\ at[p] \in Looking
    <2>1. at[p] \in Looking
      BY <1>5 DEF Goes
    <2>2. \A t \in Thread, v \in Int : C(t, v) => C(t, v)'
      BY <1>5, StillCovers
    <2>3. \A t \in Thread : version[t] <= version'[t]
      BY <1>1, <1>5, LookKeeps DEF Goes, Kept
    <2>4. \A t \in Thread : C(t, version'[t])
      <3>1. \A m \in Message : m.n \in Int
        BY DEF Message, Version
      <3>2. QED
        BY <1>1, <1>2, <2>1, <2>3, <3>1 DEF CoversListed, Listed
    <2>5. QED
      BY <1>1, <1>2, <2>1, <2>2, <2>4
  <1>6. CASE Goes(p)
    <2> HIDE DEF C
    <2>1. at'[p] = "add" => C(job[p].next.message.thread, job[p].next.version)'
      <3>1. CASE ThreadRead(p)
        <4>1. at'[p] = "add" => /\ job'[p].next.version = version'[job'[p].next.message.thread]
                                /\ job'[p].next.message.thread \in Thread
          <5>1. at'[p] = "add" => job'[p].next \in Call
            BY DEF Places
          <5>2. at'[p] = "add" => /\ job'[p].next.version = version'[job'[p].next.message.thread]
            BY <3>1, ReadEffect
          <5>3. QED
            BY <5>1, <5>2 DEF Call, Message
        <4>2. QED
          BY <1>5, <1>6, <4>1 DEF C
      <3>2. CASE ~ThreadRead(p)
        <4>1. at'[p] = "add" => at[p] = "add" /\ job'[p].next = job[p].next
          <5>1. CASE Kept(p)
            BY <5>1 DEF Kept
          <5>2. CASE LookStep(p)
            BY <1>6, <5>2, <3>2, UnreadEffect, ThrowEffect, AddEffect, CandidateEffect, ReturnEffect 
               DEF Goes, LookStep, List, Looking, Drain, TypeOK
          <5>3. QED
            BY <1>6, <5>1, <5>2 DEF Goes
        <4>2. QED
          BY <1>1, <1>5, <1>6, <4>1 DEF C
      <3>3. QED
        BY <3>1, <3>2
    <2>2. ASSUME NEW c \in flight'[p]
          PROVE  CoversListed(job[p].run, c.message.thread, c.version)'
      <3>1. c \in flight[p] \/ (Add(p) /\ at[p] = "add" /\ c = job[p].next)
        <4>1. CASE Kept(p)
          BY <4>1 DEF Kept
        <4>2. CASE LookStep(p)
          BY <1>6, <4>2, ReadEffect, UnreadEffect, ThrowEffect, AddEffect, CandidateEffect, ReturnEffect
             DEF Goes, LookStep, List, Looking, Drain
        <4>3. QED
          BY <1>6, <4>1, <4>2 DEF Goes
      <3>2. C(c.message.thread, c.version) /\ c.message.thread \in Thread /\ c.version \in Int
        BY <1>1, <1>2, <1>5, <1>6, <3>1
      <3>3. C(c.message.thread, c.version)'
        BY <1>5, <1>6, <3>2
      <3>4. QED
        BY <3>3 DEF C
    <2>3. QED
      BY <1>5, <1>6, <2>1, <2>2 DEF C
  <1>7. CASE Abandons(p)
    BY <1>7, AbandonEffect DEF CoversListed, Listed
  <1>8. QED
    BY <1>4, <1>6, <1>7, Lookers

\* What has been learnt of a listed run stays so while it goes on.
LEMMA StillTrue ==
  ASSUME TypeOK, Places, OpenListed, NEW p \in Pid, Goes(p)
  PROVE  /\ at[p] \in Looking /\ job'[p].run = job[p].run
         /\ \A m \in Message : Covered(m) => Covered(m)'
         /\ \A t \in Thread, v \in Version :
              judged[t][v] = "classified" => judged'[t][v] = "classified"
         /\ job[p].seen \subseteq job'[p].seen
         /\ job[p].thrown => job'[p].thrown
         /\ \A m \in Message : outcome[job[p].run][m] # "listed"
                                 => outcome'[job[p].run][m] = outcome[job[p].run][m]
  <1>1. at[p] \in Looking
    BY DEF Goes
  <1>2. \A t \in Thread, v \in Version :
              judged[t][v] = "classified" => judged'[t][v] = "classified"
    BY LookTouches DEF Goes, Kept
  <1>3. \A m \in Message : Covered(m) => Covered(m)'
    <2>1. \A m \in Message : m.thread \in Thread /\ m.n \in Version
      BY DEF Message
    <2>2. \A m \in Message : m.n .. MaxVersion \subseteq Version
      BY <2>1 DEF Version
    <2>3. QED
      BY <1>2, <2>1, <2>2 DEF Covered
  <1>4. job'[p].run = job[p].run
    BY LookKeeps DEF Goes, Kept, Alike
  <1>5. job[p].seen \subseteq job'[p].seen /\ (job[p].thrown => job'[p].thrown)
    <2>1. CASE Kept(p)
      BY <2>1 DEF Kept
    <2>2. CASE Drain(p)
      BY <2>2 DEF Drain
    <2>3. CASE ThreadRead(p) \/ ThreadUnread(p) \/ Add(p)
      BY <2>3, ReadEffect, UnreadEffect, AddEffect
    <2>4. ASSUME NEW m \in Message, Candidate(p, m)
          PROVE  job[p].seen \subseteq job'[p].seen /\ (job[p].thrown => job'[p].thrown)
      BY <2>4, CandidateEffect
    <2>5. ASSUME NEW c \in flight[p], Return(p, c)
          PROVE  job[p].seen \subseteq job'[p].seen /\ (job[p].thrown => job'[p].thrown)
      BY <2>5, ReturnEffect
    <2>6. CASE Throw(p)
      BY <2>6, ThrowEffect
    <2>7. QED
      BY <2>1, <2>2, <2>3, <2>4, <2>5, <2>6 DEF Goes, LookStep, List, Looking
  <1>6. \A m \in Message : outcome[job[p].run][m] # "listed"
                             => outcome'[job[p].run][m] = outcome[job[p].run][m]
    BY LookSettles DEF Goes, Kept
  <1>7. QED
    BY <1>1, <1>2, <1>3, <1>4, <1>5, <1>6

\* A message whose outcome says it is judged is, and one whose outcome says its thread was seen has been.
LEMMA NextSettled ==
  ASSUME TypeOK, Places, WorkIsOwned, OpenListed, CallsCover, Accounted, NEW p \in Pid, Goes(p),
         NEW m \in Message
  PROVE  /\ outcome'[job[p].run][m] \in {"already_current", "classified"} => Covered(m)'
         /\ outcome'[job[p].run][m] = "duplicate" => m.thread \in job'[p].seen
  <1> DEFINE Goal == /\ outcome'[job[p].run][m] \in {"already_current", "classified"} => Covered(m)'
                     /\ outcome'[job[p].run][m] = "duplicate" => m.thread \in job'[p].seen
  <1>1. at[p] \in Looking /\ job[p].run \in Run
    BY StillTrue, LookTypes
  <1>2. CASE outcome'[job[p].run][m] = outcome[job[p].run][m]
    BY <1>1, <1>2, StillTrue DEF Accounted
  <1>3. CASE outcome'[job[p].run][m] # outcome[job[p].run][m]
    <2>1. outcome[job[p].run][m] = "listed" /\ m.thread \in Thread /\ m.n \in Version
      BY <1>3, StillTrue DEF Message
    <2>2. \A v \in Int : CoversListed(job[p].run, m.thread, v) => m.n <= v
      BY <2>1 DEF CoversListed, Listed
    <2>3. \A v \in Version : judged[m.thread][v] = "classified" /\ m.n <= v => Covered(m)
      BY <2>1 DEF Version, Covered
    <2>4. CASE ThreadRead(p)
      <3>1. /\ version[m.thread] \in Version /\ version[m.thread] \in Int
            /\ CoversListed(job[p].run, m.thread, version[m.thread])
        BY <1>1, <2>1 DEF TypeOK, CallsCover, Version
      <3>2. ThreadJudged(m.thread, version[m.thread]) => Covered(m)
        BY <2>2, <2>3, <3>1 DEF ThreadJudged
      <3>3. Covered(m) => Covered(m)'
        BY StillTrue
      <3>4. QED
        BY <1>1, <1>3, <2>4, <3>2, <3>3, ReadEffect DEF Gets
    <2>5. CASE ThreadUnread(p)
      BY <1>1, <1>3, <2>5, UnreadEffect DEF Gets
    <2>6. CASE Add(p)
      BY <1>1, <1>3, <2>6, AddEffect DEF Gets
    <2>7. ASSUME NEW k \in Message, Candidate(p, k)
          PROVE  Goal
      <3>1. MessageJudged(m) => Covered(m)
        BY <2>3 DEF MessageJudged, Version, Message
      <3>2. Covered(m) => Covered(m)'
        BY StillTrue
      <3>3. QED
        BY <1>1, <1>3, <2>7, <3>1, <3>2, CandidateEffect DEF Gets
    <2>8. ASSUME NEW c \in flight[p], Return(p, c)
          PROVE  Goal
      <3>1. CoversListed(job[p].run, c.message.thread, c.version) /\ c.version \in Version
        BY <1>1, LookTypes DEF CallsCover
      <3>2. c.message = m => m.n <= c.version
        BY <2>2, <3>1 DEF Version
      <3>3. c.message = m /\ judged'[m.thread][c.version] = "classified" => Covered(m)'
        BY <2>1, <3>1, <3>2 DEF Version, Covered
      <3>4. QED
        BY <1>1, <1>3, <2>8, <3>3, ReturnEffect DEF Gets
    <2>9. outcome' # outcome
      BY <1>3
    <2>10. CASE Throw(p)
      BY <2>9, <2>10, ThrowEffect
    <2>11. QED
      BY <2>4, <2>5, <2>6, <2>7, <2>8, <2>9, <2>10 DEF Goes, Kept, LookStep, List, Looking, Drain
  <1>4. QED
    BY <1>2, <1>3

\* A thread seen is settled, on its way, or known to have failed.
LEMMA NextSeen ==
  ASSUME TypeOK, Places, WorkIsOwned, Sequenced, OpenListed, CallsCover, Accounted, TypeOK',
         NEW p \in Pid, Goes(p), NEW t \in job'[p].seen, t \in Thread
  PROVE  SeenSettled(p, t)'
  <1> DEFINE Judged == \E v \in Version : judged[t][v] = "classified" /\ CoversListed(job[p].run, t, v)
             Failed == \E m \in Message : outcome[job[p].run][m] \in Failure
  <1>1. at[p] \in Looking /\ job[p].run \in Run /\ job'[p].run = job[p].run
    BY StillTrue, LookTypes
  <1>2. /\ Judged => Judged'
        /\ Failed => Failed'
        /\ job[p].thrown => job'[p].thrown
    <2>1. Judged => Judged'
      <3>1. \A v \in Version : CoversListed(job[p].run, t, v) => CoversListed(job[p].run, t, v)'
        BY StillCovers DEF Version
      <3>2. QED
        BY <3>1, StillTrue
    <2>2. QED
      BY <2>1, StillTrue DEF Failure
  <1>3. \A m \in Message, status \in Failure : Gets(p, m, status) => Failed'
    BY <1>1 DEF Gets
  <1>4. Judged' \/ Failed' \/ job'[p].thrown => SeenSettled(p, t)'
    BY <1>1 DEF SeenSettled
  <1>5. t \in job[p].seen => \/ at[p] = "add" /\ job[p].next.message.thread = t
                             \/ \E c \in flight[p] : c.message.thread = t
                             \/ Judged' \/ Failed' \/ job'[p].thrown
    BY <1>1, <1>2 DEF Accounted, SeenSettled
  <1> HIDE DEF Judged, Failed
  <1>6. CASE List(p) \/ Drain(p) \/ Kept(p)
    <2>1. ~List(p)
      BY <1>1 DEF List, Looking
    <2>2. /\ job'[p].seen = job[p].seen /\ flight'[p] = flight[p]
          /\ at[p] = "add" => at'[p] = "add" /\ job'[p].next = job[p].next
      BY <1>6, <2>1 DEF Drain, Kept
    <2>3. QED
      BY <1>4, <1>5, <2>2 DEF SeenSettled
  <1>7. CASE ThreadRead(p)
    <2> DEFINE m == job[p].next.message
    <2>1. m \in Message /\ at[p] = "read" /\ flight' = flight
      BY <1>7, ReadEffect
    <2>2. CASE t \in job[p].seen
      BY <1>4, <1>5, <2>1, <2>2 DEF SeenSettled
    <2>3. CASE t \notin job[p].seen
      <3>1. t = m.thread
        BY <1>7, <2>3, ReadEffect
      <3>2. CASE at'[p] = "add"
        BY <1>7, <3>1, <3>2, ReadEffect DEF SeenSettled
      <3>3. CASE at'[p] # "add"
        <4>1. PICK status \in {"duplicate", "already_current", "deferred"} :
                /\ Gets(p, m, status)
                /\ status = "duplicate" => m.thread \in job[p].seen
                /\ status = "already_current" => ThreadJudged(m.thread, version[m.thread])
          BY <1>7, <3>3, ReadEffect
        <4>2. CASE status = "deferred"
          BY <1>3, <1>4, <2>1, <4>1, <4>2 DEF Failure
        <4>3. CASE status = "already_current"
          <5>1. /\ judged[t][version[t]] = "classified" /\ version[t] \in Version
                /\ CoversListed(job[p].run, t, version[t])
            BY <1>1, <3>1, <4>1, <4>3 DEF ThreadJudged, CallsCover, TypeOK
          <5>2. Judged
            BY <5>1 DEF Judged
          <5>3. QED
            BY <1>2, <1>4, <5>2
        <4>4. QED
          BY <2>3, <3>1, <4>1, <4>2, <4>3
      <3>4. QED
        BY <3>2, <3>3
    <2>4. QED
      BY <2>2, <2>3
  <1>8. CASE ThreadUnread(p)
    <2>1. at[p] = "read" /\ flight' = flight /\ job'[p].seen = job[p].seen
      BY <1>8, UnreadEffect
    <2>2. QED
      BY <1>4, <1>5, <2>1 DEF SeenSettled
  <1>9. CASE Add(p)
    <2>1. /\ job'[p].seen = job[p].seen /\ job[p].next.message \in Message /\ at[p] = "add"
          /\ flight[p] \subseteq flight'[p]
      BY <1>1, <1>9, LookTypes, AddEffect
    <2>2. \/ job'[p].thrown \/ Failed' \/ job[p].next \in flight'[p]
      BY <1>3, <1>9, <2>1, AddEffect DEF Failure
    <2>3. QED
      BY <1>4, <1>5, <2>1, <2>2 DEF SeenSettled
  <1>10. ASSUME NEW m \in Message, Candidate(p, m)
         PROVE  SeenSettled(p, t)'
    <2>1. at[p] = "next" /\ flight' = flight /\ job'[p].seen = job[p].seen
      BY <1>10, CandidateEffect
    <2>2. QED
      BY <1>4, <1>5, <2>1 DEF SeenSettled
  <1>11. ASSUME NEW c \in flight[p], Return(p, c)
         PROVE  SeenSettled(p, t)'
    <2>1. /\ job'[p].seen = job[p].seen /\ at'[p] = at[p] /\ job'[p].next = job[p].next
          /\ flight'[p] = flight[p] \ {c}
      BY <1>11, ReturnEffect
    <2>2. CASE c.message.thread = t
      <3>1. CASE job'[p].thrown
        BY <1>4, <3>1
      <3>2. CASE ~job'[p].thrown
        <4>1. PICK status \in {"classified", "provider_failure", "store_error"} :
                /\ Gets(p, c.message, status)
                /\ status = "classified" => judged'[c.message.thread][c.version] = "classified"
          BY <1>11, <3>2, ReturnEffect
        <4>2. c.message \in Message /\ c.version \in Version
              /\ CoversListed(job[p].run, c.message.thread, c.version)
          BY <1>1, LookTypes DEF CallsCover
        <4>3. CASE status = "classified"
          <5>1. CoversListed(job[p].run, t, c.version)'
            BY <2>2, <4>2, StillCovers DEF Version
          <5>2. Judged'
            BY <1>1, <2>2, <4>1, <4>2, <4>3, <5>1 DEF Judged
          <5>3. QED
            BY <1>4, <5>2
        <4>4. CASE status # "classified"
          BY <1>3, <1>4, <4>1, <4>2, <4>4 DEF Failure
        <4>5. QED
          BY <4>3, <4>4
      <3>3. QED
        BY <3>1, <3>2
    <2>3. CASE c.message.thread # t
      BY <1>4, <1>5, <2>1, <2>3 DEF SeenSettled
    <2>4. QED
      BY <2>2, <2>3
  <1>12. CASE Throw(p)
    BY <1>4, <1>12, ThrowEffect
  <1>13. QED
    BY <1>6, <1>7, <1>8, <1>9, <1>10, <1>11, <1>12 DEF Goes, LookStep

\* The outcomes of a run, and the threads it has seen, are accounted for.
LEMMA NextAccounted == IInv /\ [Next]_vars => Accounted'
  <1> SUFFICES ASSUME TypeOK, Places, WorkIsOwned, Sequenced, Unlisted, OpenListed, CallsCover, Accounted,
                      TypeOK', Places', [Next]_vars, NEW p \in Pid, at'[p] \in Looking
               PROVE  /\ \A m \in Message :
                           /\ outcome'[job'[p].run][m] \in {"already_current", "classified"} => Covered(m)'
                           /\ outcome'[job'[p].run][m] = "duplicate" => m.thread \in job'[p].seen
                      /\ \A t \in job'[p].seen : SeenSettled(p, t)'
    BY NextTypes, NextPlaces DEF IInv, Accounted
  <1>1. CASE List(p)
    <2>1. job[p].run \in Run
      BY <1>1 DEF List, Places, Working
    <2>2. job'[p].run = job[p].run /\ job'[p].seen = {}
      BY <1>1, ListEffect DEF Alike
    <2>3. \A m \in Message : outcome'[job[p].run][m] \in {"listed", "unlisted"}
      BY <1>1, <2>1, ListEffect
    <2>4. QED
      BY <2>2, <2>3
  <1>2. CASE Goes(p)
    <2>1. job'[p].run = job[p].run
      BY <1>2, StillTrue
    <2>2. job'[p].seen \subseteq Thread
      BY DEF TypeOK, Places, Job, Looking, Working
    <2>3. \A t \in job'[p].seen : SeenSettled(p, t)'
      BY <1>2, <2>2, NextSeen
    <2>4. QED
      BY <1>2, <2>1, <2>3, NextSettled
  <1>3. CASE Abandons(p)
    BY <1>3, AbandonEffect
  <1>4. QED
    BY <1>1, <1>2, <1>3, Lookers

\* A run that ends without a failure counted covers what it listed, and one that
\* ends without an error says what became of it.
LEMMA EndingCovers ==
  ASSUME TypeOK, Places, OpenListed, Accounted, NEW p \in Pid, at[p] = "settle", flight[p] = {},
         ~job[p].thrown, NEW m \in Message, outcome[job[p].run][m] # "unlisted"
  PROVE  /\ outcome[job[p].run][m] # "listed"
         /\ FinalStatus(p) = "completed" => Covered(m)
  <1> DEFINE r == job[p].run
  <1>1. at[p] \in Looking /\ r \in Run /\ job[p].todo = {}
    BY LookTypes DEF Looking, Working, Places
  <1>2. Open(p) = {}
    BY <1>1 DEF Open
  <1>3. outcome[r][m] # "listed"
    BY <1>1, <1>2 DEF OpenListed
  <1>4. ASSUME FinalStatus(p) = "completed"
        PROVE  Covered(m)
    <2>1. \A k \in Message : outcome[r][k] \notin Failure
      BY <1>4 DEF FinalStatus, Incomplete, Counted
    <2>2. outcome[r][m] \in {"already_current", "classified", "duplicate"}
      BY <1>1, <1>3, <2>1 DEF TypeOK, Failure, Settled
    <2>3. CASE outcome[r][m] \in {"already_current", "classified"}
      BY <1>1, <2>3 DEF Accounted
    <2>4. CASE outcome[r][m] = "duplicate"
      <3>1. m.thread \in job[p].seen
        BY <1>1, <2>4 DEF Accounted
      <3>2. SeenSettled(p, m.thread)
        BY <1>1, <3>1 DEF Accounted
      <3>3. PICK v \in Version : judged[m.thread][v] = "classified" /\ CoversListed(r, m.thread, v)
        BY <2>1, <3>2 DEF SeenSettled
      <3>4. m.n <= v /\ m.n \in Version
        BY <3>3 DEF CoversListed, Listed, Message
      <3>5. QED
        BY <3>3, <3>4 DEF Covered, Version
    <2>5. QED
      BY <2>2, <2>3, <2>4
  <1>5. QED
    BY <1>3, <1>4

\* What a finished run says stays true.
LEMMA NextCompleted == IInv /\ [Next]_vars => CompletedCovers'
  <1> SUFFICES ASSUME TypeOK, Places, WorkIsOwned, OpenListed, Accounted, CompletedCovers, [Next]_vars,
                      NEW r \in Run, NEW m \in Message, outcome'[r][m] # "unlisted"
               PROVE  /\ runs'[r].status = "completed" => Covered(m)'
                      /\ runs'[r].status = "partial" => outcome'[r][m] # "listed"
    BY DEF IInv, CompletedCovers, Covered
  <1> DEFINE Says == /\ runs'[r].status = "completed" => Covered(m)'
                     /\ runs'[r].status = "partial" => outcome'[r][m] # "listed"
  <1>1. outcome[r][m] # "unlisted" => /\ runs[r].status = "completed" => Covered(m)
                                      /\ runs[r].status = "partial" => outcome[r][m] # "listed"
    BY DEF CompletedCovers, Covered
  <1>2. judged' = judged => (Covered(m) => Covered(m)')
    BY DEF Covered
  <1>3. ASSUME runs'[r] = runs[r], outcome' = outcome, judged' = judged
        PROVE  Says
    BY <1>1, <1>2, <1>3
  <1>4. ASSUME NEW p \in Pid, LookStep(p)
        PROVE  Says
    <2>1. runs' = runs /\ at[p] \in Working
      BY <1>4, LookKeeps
    <2>2. runs[job[p].run].status = "running"
      BY <2>1, Alone
    <2>3. CASE r = job[p].run
      BY <2>1, <2>2, <2>3
    <2>4. CASE r # job[p].run
      <3>1. outcome'[r][m] = outcome[r][m]
        BY <1>4, <2>4, LookTouches
      <3>2. Covered(m) => Covered(m)'
        <4>1. \A v \in m.n .. MaxVersion : v \in Version /\ m.thread \in Thread
          BY DEF Message, Version
        <4>2. \A v \in m.n .. MaxVersion :
                judged[m.thread][v] = "classified" => judged'[m.thread][v] = "classified"
          BY <1>4, <4>1, LookTouches
        <4>3. QED
          BY <4>2 DEF Covered
      <3>3. QED
        BY <1>1, <2>1, <3>1, <3>2
    <2>5. QED
      BY <2>3, <2>4
  <1>5. ASSUME NEW p \in Pid, ListFails(p)
        PROVE  Says
    <2>1. /\ at[p] \in Working /\ outcome' = outcome /\ judged' = judged
          /\ runs' = [runs EXCEPT ![job[p].run].status = "failed"]
      BY <1>5 DEF ListFails, Working
    <2>2. /\ runs'[job[p].run].status = "failed"
          /\ \A q \in Run \ {job[p].run} : runs'[q] = runs[q]
      BY <2>1, RowEnds
    <2>3. QED
      BY <1>3, <2>1, <2>2
  <1>6. ASSUME NEW p \in Pid, Finish(p)
        PROVE  Says
    <2>1. /\ at[p] = "settle" /\ at[p] \in Working /\ flight[p] = {}
          /\ outcome' = outcome /\ judged' = judged
          /\ runs' = runs \/ runs' = [runs EXCEPT ![job[p].run].status = FinalStatus(p)]
      BY <1>6 DEF Finish, Working
    <2>2. CASE runs' = runs
      BY <1>3, <2>1, <2>2
    <2>3. CASE runs' = [runs EXCEPT ![job[p].run].status = FinalStatus(p)]
      <3>1. FinalStatus(p) \in {"completed", "partial", "failed"}
        BY DEF FinalStatus
      <3>2. /\ runs'[job[p].run].status = FinalStatus(p)
            /\ \A q \in Run \ {job[p].run} : runs'[q] = runs[q]
        BY <2>1, <2>3, <3>1, RowEnds
      <3>3. CASE r = job[p].run
        <4>1. CASE job[p].thrown
          BY <3>2, <3>3, <4>1 DEF FinalStatus
        <4>2. CASE ~job[p].thrown
          <5>1. /\ outcome[r][m] # "listed"
                /\ FinalStatus(p) = "completed" => Covered(m)
            BY <2>1, <3>3, <4>2, EndingCovers
          <5>2. QED
            BY <1>2, <2>1, <3>2, <3>3, <5>1
        <4>3. QED
          BY <4>1, <4>2
      <3>4. QED
        BY <1>3, <2>1, <3>2, <3>3
    <2>4. QED
      BY <2>1, <2>2, <2>3
  <1>7. ASSUME NEW p \in Pid, NEW q \in Run, Begin(p, q)
        PROVE  Says
    <2>1. outcome' = outcome /\ judged' = judged
      BY <1>7 DEF Begin
    <2>2. runs'[r] = runs[r] \/ runs'[r].status \in {"running", "interrupted"}
      <3>1. CASE r = q
        BY <1>7, <3>1 DEF Begin, Begun
      <3>2. CASE r # q
        <4>1. \A x \in Run \ {q} : \/ runs'[x] = runs[x]
                                   \/ /\ runs[x].status = "running"
                                      /\ runs'[x].status = "interrupted"
                                      /\ runs'[x] # NoRow
          BY <1>7, BeginEffect
        <4>2. QED
          BY <3>2, <4>1
      <3>3. QED
        BY <3>1, <3>2
    <2>3. QED
      BY <1>3, <2>1, <2>2
  <1>8. CASE UNCHANGED <<runs, outcome, judged>>
    BY <1>3, <1>8
  <1>9. QED
    BY <1>4, <1>5, <1>6, <1>7, <1>8, TableSteps

-----------------------------------------------------------------------------
(* The budget.                                                               *)

\* What Used counts.
LEMMA UsedIs == \A r \in Run : Used(r) = Cardinality(Counted(r, Charged))
  BY DEF Used, Count, Charged

\* A listed message that gets an outcome is counted exactly when that is charged.
LEMMA Charging ==
  ASSUME NEW p \in Pid, job[p].run \in Run, job'[p].run = job[p].run,
         NEW m \in Message, NEW status, Gets(p, m, status), outcome[job[p].run][m] = "listed",
         IsFiniteSet(Counted(job[p].run, Charged))
  PROVE  /\ IsFiniteSet(Counted(job[p].run, Charged)')
         /\ Used(job[p].run)' = Used(job[p].run) + (IF status \in Charged THEN 1 ELSE 0)
         /\ Used(job[p].run) \in Nat
  <1> DEFINE r == job[p].run
             C == Counted(r, Charged)
  <1>1. m \notin C
    BY DEF Counted, Charged
  <1>2. Cardinality(C) \in Nat
    BY FS_CardinalityType
  <1>3. Used(r) = Cardinality(C) /\ Used(r)' = Cardinality(C')
    BY DEF Used, Count, Charged
  <1>4. CASE status \in Charged
    <2>1. C' = C \cup {m}
      BY <1>4 DEF Counted, Gets
    <2>2. IsFiniteSet(C \cup {m}) /\ Cardinality(C \cup {m}) = Cardinality(C) + 1
      BY <1>1, FS_AddElement
    <2>3. QED
      BY <1>2, <1>3, <1>4, <2>1, <2>2
  <1>5. CASE status \notin Charged
    <2>1. C' = C
      BY <1>1, <1>5 DEF Counted, Gets
    <2>2. QED
      BY <1>2, <1>3, <1>5, <2>1
  <1>6. QED
    BY <1>4, <1>5

\* A run all of whose messages are unlisted or still listed has nothing charged.
LEMMA NothingCharged ==
  ASSUME NEW r \in Run, \A m \in Message : outcome[r][m] \in {"unlisted", "listed"}
  PROVE  Counted(r, Charged) = {} /\ IsFiniteSet(Counted(r, Charged)) /\ Used(r) = 0
  <1>1. Counted(r, Charged) = {}
    BY DEF Counted, Charged
  <1>2. QED
    BY <1>1, UsedIs, FS_EmptySet

\* The calls of a process whose run goes on stay within its budget.
LEMMA GoesWithin ==
  ASSUME TypeOK, Places, Sequenced, OpenListed, NEW p \in Pid, Within(p), Goes(p)
  PROVE  Within(p)'
  <1> DEFINE r == job[p].run
             C == Counted(r, Charged)
             F == flight[p]
  <1>1. /\ at[p] \in Looking /\ r \in Run /\ job'[p].run = r
        /\ job[p].left \in Int /\ job[p].calls \in Nat /\ job[p].budget \in Nat /\ paid[p] \in Nat
        /\ Alike(p)
    BY StillTrue, LookTypes, LookKeeps DEF Goes, Kept, TypeOK
  <1>2. IsFiniteSet(C) /\ IsFiniteSet(F) /\ Cardinality(C) \in Nat /\ Cardinality(F) \in Nat
        /\ Used(r) = Cardinality(C)
    BY <1>1, UsedIs, FS_CardinalityType DEF Within
  <1>3. /\ job'[p].left = job[p].left /\ job'[p].budget = job[p].budget /\ job'[p].run = r
    BY <1>1 DEF Alike
  <1>4. outcome' = outcome => C' = C /\ Used(r)' = Used(r)
    BY <1>1 DEF Counted, Used, Count
  <1>5. \A m \in Open(p) : outcome[r][m] = "listed"
    BY <1>1 DEF OpenListed
  <1>6. ASSUME NEW m \in Message, m \in Open(p), NEW status, status \notin Charged, Gets(p, m, status)
        PROVE  IsFiniteSet(C') /\ Used(r)' = Used(r)
    BY <1>1, <1>2, <1>5, <1>6, Charging
  <1>7. CASE Drain(p) \/ Kept(p)
    <2>1. /\ outcome' = outcome /\ flight'[p] = F /\ paid'[p] = paid[p]
          /\ job'[p].calls = job[p].calls /\ job'[p].thrown = job[p].thrown
          /\ at'[p] = "add" => at[p] = "add"
      BY <1>7 DEF Drain, Kept, TypeOK
    <2>2. QED
      BY <1>1, <1>2, <1>3, <1>4, <2>1 DEF Within
  <1>8. CASE ThreadRead(p)
    <2> DEFINE m == job[p].next.message
    <2>1. /\ m \in Message /\ at[p] = "read" /\ flight' = flight /\ paid' = paid
          /\ job'[p].thrown = job[p].thrown
      BY <1>8, ReadEffect
    <2>2. CASE at'[p] = "add"
      <3>1. /\ outcome' = outcome /\ job'[p].calls = job[p].calls + 1
            /\ job[p].calls < MaxJevCalls(p)
        BY <1>8, <2>2, ReadEffect
      <3>2. job'[p].calls <= job[p].left
        BY <1>1, <3>1 DEF Within, MaxJevCalls
      <3>3. QED
        BY <1>1, <1>2, <1>3, <1>4, <2>1, <2>2, <3>1, <3>2 DEF Within
    <2>3. CASE at'[p] # "add"
      <3>1. PICK status \in {"duplicate", "already_current", "deferred"} : Gets(p, m, status)
        BY <1>8, <2>3, ReadEffect
      <3>2. job'[p].calls = job[p].calls
        BY <1>8, <2>3, ReadEffect
      <3>3. IsFiniteSet(C') /\ Used(r)' = Used(r)
        BY <1>6, <2>1, <3>1 DEF Charged, Open
      <3>4. QED
        BY <1>1, <1>2, <1>3, <2>1, <2>3, <3>2, <3>3 DEF Within
    <2>4. QED
      BY <2>2, <2>3
  <1>9. CASE ThreadUnread(p)
    <2> DEFINE m == job[p].next.message
    <2>1. /\ at[p] = "read" /\ at'[p] = "next" /\ flight' = flight /\ paid' = paid
          /\ job'[p].calls = job[p].calls /\ job'[p].thrown = job[p].thrown
          /\ m \in Message /\ Gets(p, m, "read_error")
      BY <1>1, <1>9, LookTypes, UnreadEffect
    <2>2. IsFiniteSet(C') /\ Used(r)' = Used(r)
      BY <1>6, <2>1 DEF Charged, Open
    <2>3. QED
      BY <1>1, <1>2, <1>3, <2>1, <2>2 DEF Within
  <1>10. CASE Add(p)
    <2> DEFINE c == job[p].next
    <2>1. /\ at[p] = "add" /\ at'[p] # "add" /\ c.message \in Message
          /\ job'[p].calls = job[p].calls
      BY <1>1, <1>10, LookTypes, AddEffect
    <2>2. CASE job'[p].thrown /\ outcome' = outcome /\ flight' = flight /\ paid' = paid
      BY <1>1, <1>2, <1>3, <1>4, <2>1, <2>2 DEF Within
    <2>3. CASE /\ Gets(p, c.message, "deferred") /\ flight' = flight /\ paid' = paid
               /\ job'[p].thrown = job[p].thrown
      <3>1. IsFiniteSet(C') /\ Used(r)' = Used(r)
        BY <1>6, <2>1, <2>3 DEF Charged, Open
      <3>2. QED
        BY <1>1, <1>2, <1>3, <2>1, <2>3, <3>1 DEF Within
    <2>4. CASE /\ outcome' = outcome /\ flight'[p] = F \cup {c} /\ paid'[p] = paid[p] + 1
               /\ job'[p].thrown = job[p].thrown
      <3>1. c \notin F
        BY <2>1 DEF Sequenced
      <3>2. IsFiniteSet(F \cup {c}) /\ Cardinality(F \cup {c}) = Cardinality(F) + 1
        BY <1>2, <3>1, FS_AddElement
      <3>3. QED
        BY <1>1, <1>2, <1>3, <1>4, <2>1, <2>4, <3>2 DEF Within
    <2>5. QED
      BY <1>10, <2>2, <2>3, <2>4, AddEffect
  <1>11. ASSUME NEW m \in Message, Candidate(p, m)
         PROVE  Within(p)'
    <2>1. /\ at[p] = "next" /\ at'[p] # "add" /\ flight' = flight /\ paid' = paid
          /\ job'[p].calls = job[p].calls /\ job'[p].thrown = job[p].thrown /\ m \in Open(p)
      BY <1>11, CandidateEffect DEF Open
    <2>2. CASE outcome' = outcome
      BY <1>1, <1>2, <1>3, <1>4, <2>1, <2>2 DEF Within
    <2>3. CASE outcome' # outcome
      <3>1. PICK status \in {"deferred", "already_current"} : Gets(p, m, status)
        BY <1>11, <2>3, CandidateEffect
      <3>2. IsFiniteSet(C') /\ Used(r)' = Used(r)
        BY <1>6, <2>1, <3>1 DEF Charged
      <3>3. QED
        BY <1>1, <1>2, <1>3, <2>1, <3>2 DEF Within
    <2>4. QED
      BY <2>2, <2>3
  <1>12. ASSUME NEW c \in F, Return(p, c)
         PROVE  Within(p)'
    <2>1. /\ at'[p] = at[p] /\ flight'[p] = F \ {c} /\ paid' = paid /\ c.message \in Message
          /\ job'[p].calls = job[p].calls /\ c.message \in Open(p)
      BY <1>1, <1>12, LookTypes, ReturnEffect DEF Open
    <2>2. IsFiniteSet(F \ {c}) /\ Cardinality(F \ {c}) = Cardinality(F) - 1
      BY <1>2, FS_RemoveElement
    <2>3. CASE job'[p].thrown /\ outcome' = outcome
      BY <1>1, <1>2, <1>3, <1>4, <2>1, <2>2, <2>3 DEF Within
    <2>4. ASSUME job'[p].thrown = job[p].thrown,
                 NEW status \in {"classified", "provider_failure", "store_error"},
                 Gets(p, c.message, status)
          PROVE  Within(p)'
      <3>1. IsFiniteSet(C') /\ Used(r)' = Used(r) + 1
        BY <1>1, <1>2, <1>5, <2>1, <2>4, Charging DEF Charged
      <3>2. QED
        BY <1>1, <1>2, <1>3, <2>1, <2>2, <2>4, <3>1 DEF Within
    <2>5. QED
      BY <1>12, <2>3, <2>4, ReturnEffect
  <1>13. ~List(p)
    BY <1>1 DEF List, Looking
  <1>14. CASE Throw(p)
    <2>1. /\ outcome' = outcome /\ flight' = flight /\ paid' = paid /\ at'[p] = "settle"
          /\ job'[p].calls = job[p].calls /\ job'[p].thrown
      BY <1>14, ThrowEffect
    <2>2. QED
      BY <1>1, <1>2, <1>3, <1>4, <2>1 DEF Within
  <1>15. QED
    BY <1>7, <1>8, <1>9, <1>10, <1>11, <1>12, <1>13, <1>14 DEF Goes, LookStep

\* A process between two runs after a step got there by one of these, or was there.
LEMMA Between ==
  ASSUME TypeOK, Places, [Next]_vars, NEW p \in Pid, at'[p] \in {"group", "scope"}
  PROVE  \/ \E budget \in Budget, groups \in Groups : Start(p, budget, groups)
         \/ Resolve(p) \/ NotStarted(p) \/ ListFails(p) \/ Finish(p)
         \/ /\ at'[p] = at[p] /\ paid'[p] = paid[p] /\ job[p] \in Job
            /\ job'[p].left = job[p].left /\ job'[p].budget = job[p].budget
  <1> DEFINE Still == /\ at'[p] = at[p] /\ paid'[p] = paid[p] /\ job[p] \in Job
                      /\ job'[p].left = job[p].left /\ job'[p].budget = job[p].budget
  <1>1. at[p] # "idle" => job[p] \in Job
    BY DEF TypeOK
  <1>2. ASSUME at'[p] = at[p], job'[p] = job[p], paid'[p] = paid[p]
        PROVE  Still
    BY <1>1, <1>2
  <1>3. ASSUME NEW q \in Pid, NEW budget \in Budget, NEW groups \in Groups,
               Start(q, budget, groups), q # p
        PROVE  Still
    BY <1>2, <1>3 DEF Start, TypeOK
  <1>4. ASSUME NEW q \in Pid, NEW r \in Run, Begin(q, r)
        PROVE  Still
    <2>1. CASE q = p
      BY <1>4, <2>1, BeginEffect
    <2>2. CASE q # p
      <3>1. Others(q)
        BY <1>4, BeginEffect
      <3>2. QED
        BY <1>2, <2>2, <3>1 DEF Others
    <2>3. QED
      BY <2>1, <2>2
  <1>5. ASSUME NEW q \in Pid, Step(q)
        PROVE  Resolve(p) \/ NotStarted(p) \/ ListFails(p) \/ Finish(p) \/ Still
    <2>1. ASSUME LookStep(q)
          PROVE  Still
      <3>1. at'[q] \in Looking /\ Others(q)
        BY <2>1, LookTouches, LookKeeps
      <3>2. q # p
        BY <3>1 DEF Looking, Working
      <3>3. QED
        BY <1>2, <3>1, <3>2 DEF Others
    <2>2. ASSUME Resolve(q) \/ NotStarted(q) \/ End(q) \/ Quit(q) \/ ListFails(q) \/ Finish(q), q # p
          PROVE  Still
      BY <1>2, <2>2 DEF Resolve, NotStarted, End, Quit, ListFails, Finish, TypeOK
    <2>3. ~End(p) /\ ~Quit(p)
      BY DEF End, Quit, TypeOK
    <2>4. QED
      BY <1>5, <2>1, <2>2, <2>3 DEF Step, LookStep
  <1>6. ASSUME NEW q \in Pid, Stop(q)
        PROVE  Still
    <2>1. CASE q # p
      BY <1>2, <1>6, <2>1 DEF Stop, TypeOK
    <2>2. CASE q = p
      <3>1. job[p] \in Job /\ job'[p] = [job[p] EXCEPT !.stop = TRUE]
        BY <1>1, <1>6, <2>2 DEF Stop, TypeOK
      <3>2. QED
        BY <1>6, <3>1 DEF Stop, Job
    <2>3. QED
      BY <2>1, <2>2
  <1>7. ASSUME NEW q \in Pid, Crash(q) \/ Respawn(q)
        PROVE  Still
    BY <1>2, <1>7 DEF Crash, Respawn, TypeOK
  <1>8. ASSUME NEW t \in Thread, Arrive(t)
        PROVE  Still
    BY <1>2, <1>8 DEF Arrive
  <1>9. CASE UNCHANGED vars
    BY <1>2, <1>9 DEF vars
  <1>10. QED
    BY <1>3, <1>4, <1>5, <1>6, <1>7, <1>8, <1>9 DEF Next

\* The calls of a process that begins or lists its run stay within its budget.
LEMMA FreshWithin ==
  ASSUME TypeOK, Places, Unlisted, Budgeted, NEW p \in Pid, at'[p] # "idle",
         (\E r \in Run : Begin(p, r)) \/ List(p) \/ Abandons(p)
  PROVE  Within(p)'
  <1>1. ASSUME NEW r \in Run, Begin(p, r)
        PROVE  Within(p)'
    <2>1. at[p] = "scope" /\ flight[p] = {} /\ flight' = flight /\ paid' = paid
      BY <1>1 DEF Begin, Places, Looking, Working
    <2>2. /\ at'[p] = "list" /\ job'[p].run = r /\ job'[p].calls = 0
          /\ job'[p].budget = job[p].budget /\ job'[p].left = job[p].left /\ job[p] \in Job
      BY <1>1, BeginMemory
    <2>3. Counted(job[p].run, Charged)' = {}
      <3>1. runs[r] = NoRow /\ outcome' = outcome
        BY <1>1 DEF Begin
      <3>2. \A m \in Message : outcome'[r][m] = "unlisted"
        BY <3>1 DEF Unlisted
      <3>3. QED
        BY <2>2, <3>2 DEF Counted, Charged
    <2>4. Used(job[p].run)' = Cardinality(Counted(job[p].run, Charged)')
      BY DEF Used, Count, Charged
    <2>7. Used(job[p].run)' = 0 /\ IsFiniteSet(Counted(job[p].run, Charged)')
      BY <2>3, <2>4, FS_EmptySet
    <2>5. job[p].left >= 1 /\ paid[p] = job[p].budget - job[p].left
          /\ job[p].left \in Int /\ job[p].budget \in Nat
      BY <2>1, <2>2 DEF Budgeted, Job
    <2>8. flight'[p] = {} /\ IsFiniteSet(flight'[p]) /\ Cardinality(flight'[p]) = 0
      BY <2>1, FS_EmptySet
    <2>9. job'[p].left >= 1 /\ paid'[p] = job'[p].budget - job'[p].left
          /\ job'[p].left \in Int /\ job'[p].budget \in Nat
      BY <2>1, <2>2, <2>5
    <2>10. QED
      BY <2>2, <2>7, <2>8, <2>9 DEF Within
  <1>2. CASE List(p)
    <2> DEFINE r == job[p].run
    <2>1. /\ at[p] = "list" /\ r \in Run /\ job[p] \in Job
          /\ job[p].left \in Int /\ job[p].budget \in Nat /\ job[p].calls \in Nat
          /\ flight[p] = {} /\ Within(p) /\ ~job[p].thrown
      BY <1>2 DEF List, TypeOK, Places, Looking, Working, Budgeted, Job
    <2>2. Used(r) = 0
      BY <2>1, NothingCharged DEF Unlisted
    <2>3. /\ at'[p] = "next" /\ flight'[p] = {} /\ paid'[p] = paid[p]
          /\ job'[p].run = r /\ job'[p].calls = job[p].calls
          /\ job'[p].budget = job[p].budget /\ job'[p].left = job[p].left
      BY <1>2, ListEffect DEF Alike
    <2>4. \A m \in Message : outcome'[r][m] \in {"unlisted", "listed"}
      BY <1>2, <2>1, ListEffect
    <2>5. Counted(r, Charged)' = {}
      BY <2>3, <2>4 DEF Counted, Charged
    <2>6. Used(r)' = Cardinality(Counted(r, Charged)')
      BY DEF Used, Count, Charged
    <2>7. paid[p] = job[p].budget - job[p].left
      <3>1. paid[p] = (job[p].budget - job[p].left) + 0 + 0
        BY <2>1, <2>2, FS_EmptySet DEF Within
      <3>2. QED
        BY <2>1, <3>1
    <2>8. QED
      BY <2>1, <2>3, <2>5, <2>6, <2>7, FS_EmptySet DEF Within
  <1>3. CASE Abandons(p)
    <2>1. /\ at[p] = "list" /\ job[p].run \in Run /\ Within(p)
          /\ job[p].left \in Int /\ job[p].budget \in Nat /\ job[p].calls \in Nat
      BY <1>3 DEF Abandons, TypeOK, Places, Working, Budgeted, Job
    <2>2. /\ at'[p] = "settle" /\ flight' = flight /\ paid' = paid /\ outcome' = outcome
          /\ job'[p].run = job[p].run /\ job'[p].calls = job[p].calls /\ job'[p].thrown
          /\ job'[p].budget = job[p].budget /\ job'[p].left = job[p].left
      BY <1>3, ThrowEffect DEF Abandons, Alike
    <2>3. Counted(job[p].run, Charged)' = Counted(job[p].run, Charged)
      BY <2>2 DEF Counted
    <2>4. QED
      BY <2>1, <2>2, <2>3 DEF Within
  <1>4. QED
    BY <1>1, <1>2, <1>3

\* The budget kept between two runs charges every call of the last one.
LEMMA NextBudgeted == IInv /\ [Next]_vars => Budgeted'
  <1> SUFFICES ASSUME TypeOK, Places, WorkIsOwned, Sequenced, Unlisted, OpenListed, Budgeted,
                      TypeOK', Places', [Next]_vars, NEW p \in Pid
               PROVE  /\ at'[p] # "idle" => job'[p].left >= 0
                      /\ at'[p] \in {"group", "scope"} => paid'[p] = job'[p].budget - job'[p].left
                      /\ at'[p] = "scope" => job'[p].left >= 1
                      /\ at'[p] \in Working => Within(p)'
    BY NextTypes, NextPlaces DEF IInv, Budgeted
  <1> DEFINE Charges == /\ job'[p].left >= 0
                        /\ paid'[p] = job'[p].budget - job'[p].left
                        /\ at'[p] = "scope" => job'[p].left >= 1
  <1>1. CASE at'[p] \in Working
    <2>1. ASSUME (\E r \in Run : Begin(p, r)) \/ List(p) \/ Abandons(p)
          PROVE  Within(p)'
      BY <1>1, <2>1, FreshWithin DEF Working
    <2>2. ASSUME Goes(p)
          PROVE  Within(p)'
      <3>1. at[p] \in Looking
        BY <2>2, StillTrue
      <3>2. Within(p)
        BY <3>1 DEF Budgeted, Looking
      <3>3. QED
        BY <2>2, <3>2, GoesWithin
    <2>3. ASSUME Kept(p), at[p] = "list"
          PROVE  Within(p)'
      <3>1. Within(p)
        BY <2>3 DEF Budgeted, Working
      <3>2. Used(job[p].run)' = Used(job[p].run) /\ Counted(job[p].run, Charged)' = Counted(job[p].run, Charged)
        BY <2>3 DEF Kept, Alike, Used, Count, Counted
      <3>3. job'[p].run = job[p].run
        BY <2>3 DEF Kept, Alike
      <3>4. QED
        BY <2>3, <3>1, <3>2, <3>3 DEF Kept, Alike, Within
    <2>4. Within(p)'
      <3>1. ASSUME at'[p] \in Looking
            PROVE  Within(p)'
        BY <2>1, <2>2, <3>1, Lookers
      <3>2. ASSUME at'[p] = "list"
            PROVE  Within(p)'
        <4>1. ~LookStep(p)
          BY <3>2, LookTouches DEF Looking
        <4>2. QED
          BY <1>1, <2>1, <2>3, <3>2, <4>1, Movers DEF Kept
      <3>3. QED
        BY <1>1, <3>1, <3>2 DEF Looking
    <2>5. job'[p].left >= 0
      <3>1. job'[p].left >= 1 /\ job'[p].left \in Int
        BY <1>1, <2>4 DEF Within, TypeOK, Working, Job
      <3>2. QED
        BY <3>1
    <2>6. QED
      BY <1>1, <2>4, <2>5 DEF Working
  <1>2. CASE at'[p] \in {"group", "scope"}
    <2>0. /\ at[p] # "idle" => job[p].left >= 0
          /\ at[p] \in {"group", "scope"} => paid[p] = job[p].budget - job[p].left
          /\ at[p] = "scope" => job[p].left >= 1
      BY DEF Budgeted
    <2>1. ASSUME NEW budget \in Budget, NEW groups \in Groups, Start(p, budget, groups)
          PROVE  Charges
      <3>1. at'[p] = "group" /\ job'[p] = NewJob(budget, groups) /\ paid'[p] = 0
        BY <2>1 DEF Start, TypeOK
      <3>2. budget \in Nat
        OBVIOUS
      <3>3. QED
        BY <3>1, <3>2 DEF NewJob
    <2>2. ASSUME Resolve(p)
          PROVE  Charges
      <3>1. job[p] \in Job /\ at[p] = "group" /\ job[p].left > 0
        BY <2>2 DEF Resolve, TypeOK, LoopOver, Job
      <3>2. job'[p] = [job[p] EXCEPT !.groups = @ - 1]
        BY <2>2, <3>1 DEF Resolve, TypeOK
      <3>3. /\ job'[p].left = job[p].left /\ job'[p].budget = job[p].budget /\ paid'[p] = paid[p]
            /\ job[p].left \in Int
        BY <2>2, <3>1, <3>2 DEF Resolve, Job
      <3>4. QED
        BY <2>0, <3>1, <3>3
    <2>3. ASSUME NotStarted(p)
          PROVE  Charges
      BY <1>2, <2>0, <2>3 DEF NotStarted, TypeOK
    <2>4. ASSUME ListFails(p)
          PROVE  Charges
      <3>1. /\ at[p] = "list" /\ at'[p] = "group" /\ job' = job /\ paid' = paid /\ ~job[p].thrown
            /\ flight[p] = {} /\ job[p] \in Job /\ job[p].run \in Run /\ Within(p)
        BY <2>4 DEF ListFails, TypeOK, Places, Looking, Working, Budgeted
      <3>2. Used(job[p].run) = 0
        BY <3>1, NothingCharged DEF Unlisted
      <3>3. paid[p] = (job[p].budget - job[p].left) + 0 + 0 /\ job[p].left >= 1
        BY <3>1, <3>2, FS_EmptySet DEF Within
      <3>4. job[p].left \in Int /\ job[p].budget \in Nat
        BY <3>1 DEF Job
      <3>5. QED
        BY <3>1, <3>3, <3>4
    <2>5. ASSUME Finish(p)
          PROVE  Charges
      <3> DEFINE used == Used(job[p].run)
      <3>1. /\ at[p] = "settle" /\ flight[p] = {} /\ paid' = paid /\ at'[p] = "group"
            /\ ~job[p].thrown
            /\ job'[p] = [job[p] EXCEPT !.left = @ - used, !.run = "none"]
        BY <1>2, <2>5, FinishEffect
      <3>2. job[p] \in Job /\ Within(p)
        BY <3>1 DEF TypeOK, Budgeted, Working
      <3>3. /\ job[p].left \in Int /\ job[p].budget \in Nat /\ job[p].calls \in Nat
            /\ job'[p].left = job[p].left - used /\ job'[p].budget = job[p].budget
        BY <3>1, <3>2 DEF Job
      <3>4. used \in Nat
        BY <3>2, FS_CardinalityType DEF Within, Used, Count, Charged
      <3>5. /\ paid[p] = (job[p].budget - job[p].left) + 0 + used
            /\ paid[p] + 0 <= (job[p].budget - job[p].left) + job[p].calls
            /\ job[p].calls <= job[p].left
        BY <3>1, <3>2, FS_EmptySet DEF Within
      <3> HIDE DEF used
      <3>6. QED
        BY <3>1, <3>3, <3>4, <3>5
    <2>6. ASSUME at'[p] = at[p], paid'[p] = paid[p],
                 job'[p].left = job[p].left, job'[p].budget = job[p].budget
          PROVE  Charges
      BY <1>2, <2>0, <2>6
    <2>7. Charges
      BY <1>2, <2>1, <2>2, <2>3, <2>4, <2>5, <2>6, Between
    <2>8. QED
      BY <1>2, <2>7 DEF Working
  <1>3. CASE at'[p] = "idle"
    BY <1>3 DEF Working
  <1>4. QED
    BY <1>1, <1>2, <1>3 DEF TypeOK, Working

\* A call goes out by Add alone, and is the one that was waiting for a place.
LEMMA NewCall ==
  ASSUME IInv, [Next]_vars, NEW p \in Pid, NEW c \in flight'[p] \ flight[p]
  PROVE  Add(p) /\ c = job[p].next
  <1> USE DEF IInv
  <1>1. at'[p] \in Looking
    BY NextPlaces DEF Places
  <1>2. ~List(p) /\ ~Kept(p) /\ ~Throw(p)
    BY ListEffect, ThrowEffect DEF Kept
  <1>3. LookStep(p)
    BY <1>1, <1>2, Lookers DEF Goes, Abandons
  <1>4. QED
    BY <1>2, <1>3, ReadEffect, UnreadEffect, AddEffect, CandidateEffect, ReturnEffect
       DEF LookStep, Drain

-----------------------------------------------------------------------------
(* The theorems.                                                             *)

\* The inductive invariant of the pipeline holds for any processes, threads and budgets.
THEOREM IInvHolds == Spec => []IInv
  <1>1. IInv /\ [Next]_vars => IInv'
    BY NextTypes, NextPlaces, NextOwned, NextSequenced, NextUnlisted, NextOpen, NextCover,
       NextAccounted, NextBudgeted, NextCompleted DEF IInv
  <1>2. QED
    BY InitIInv, <1>1, PTL DEF Spec

\* The tables and the memories keep their types.
THEOREM TypeCorrect == Spec => []TypeOK
  <1>1. IInv => TypeOK
    BY DEF IInv
  <1>2. QED
    BY IInvHolds, <1>1, PTL

\* No two processes work at once, and the one that does has a running row of its own.
THEOREM WorkIsOwnedHolds == Spec => []WorkIsOwned
  <1>1. IInv => WorkIsOwned
    BY DEF IInv
  <1>2. QED
    BY IInvHolds, <1>1, PTL

\* A completed run left every message it listed covered by a classified judgment.
THEOREM CompletedCoversHolds == Spec => []CompletedCovers
  <1>1. IInv => CompletedCovers
    BY DEF IInv
  <1>2. QED
    BY IInvHolds, <1>1, PTL

\* A job never pays for more calls than its budget, over all its groups.
THEOREM BudgetKeptHolds == Spec => []BudgetKept
  <1>1. IInv => BudgetKept
    <2> SUFFICES ASSUME IInv, NEW p \in Pid, at[p] # "idle" PROVE paid[p] <= job[p].budget
      BY DEF BudgetKept
    <2>1. /\ job[p].left \in Int /\ job[p].budget \in Nat /\ job[p].calls \in Nat /\ paid[p] \in Nat
      BY DEF IInv, TypeOK, Job
    <2>2. CASE at[p] \in Working
      <3>1. Within(p)
        BY <2>2 DEF IInv, Budgeted
      <3>2. paid[p] <= (job[p].budget - job[p].left) + job[p].calls /\ job[p].calls <= job[p].left
        BY <2>1, <3>1 DEF Within
      <3>3. QED
        BY <2>1, <3>2
    <2>3. CASE at[p] \in {"group", "scope"}
      BY <2>1, <2>3 DEF IInv, Budgeted
    <2>4. QED
      BY <2>2, <2>3 DEF IInv, TypeOK, Working
  <1>2. QED
    BY IInvHolds, <1>1, PTL

\* No thread version is sent to Jev while it is out already or once it is classified.
THEOREM NoDoubleCallHolds == Spec => NoDoubleCall
  <1> DEFINE Single == \A p \in Pid : \A c \in flight'[p] \ flight[p] :
                         /\ judged[c.message.thread][c.version] # "classified"
                         /\ \A q \in Pid : \A d \in flight[q] :
                              d.message.thread = c.message.thread => d.version # c.version
  <1>1. IInv /\ [Next]_vars => Single
    <2> SUFFICES ASSUME IInv, [Next]_vars, NEW p \in Pid, NEW c \in flight'[p] \ flight[p]
                 PROVE  /\ judged[c.message.thread][c.version] # "classified"
                        /\ \A q \in Pid : \A d \in flight[q] : d.message.thread # c.message.thread
      OBVIOUS
    <2>1. Add(p) /\ c = job[p].next
      BY NewCall
    <2>2. /\ judged[c.message.thread][c.version] # "classified"
          /\ \A d \in flight[p] : d.message.thread # c.message.thread
      BY <2>1 DEF IInv, Sequenced, Add
    <2>3. \A q \in Pid \ {p} : flight[q] = {}
      BY <2>1, Alone DEF IInv, Add, Working
    <2>4. QED
      BY <2>2, <2>3
  <1>2. QED
    BY IInvHolds, <1>1, PTL DEF Spec, NoDoubleCall

\* Once a stop has reached a job, none of its calls goes out.
THEOREM StopHeardHolds == Spec => StopHeard
  <1> DEFINE Heard == \A p \in Pid : at[p] # "idle" /\ job[p].stop => flight'[p] \subseteq flight[p]
  <1>1. IInv /\ [Next]_vars => Heard
    <2> SUFFICES ASSUME IInv, [Next]_vars, NEW p \in Pid, job[p].stop,
                        NEW c \in flight'[p] \ flight[p]
                 PROVE  FALSE
      OBVIOUS
    <2>1. Add(p)
      BY NewCall
    <2>2. job[p].thrown \/ StoppedMeanwhile(p)
      BY DEF StoppedMeanwhile
    <2>3. flight' = flight
      BY <2>1, <2>2 DEF Add
    <2>4. QED
      BY <2>3
  <1>2. QED
    BY IInvHolds, <1>1, PTL DEF Spec, StopHeard

=============================================================================
