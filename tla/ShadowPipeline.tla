--------------------------- MODULE ShadowPipeline ---------------------------
(***************************************************************************)
(* The classification pipeline (shadow/pipeline.ts) over the shadow         *)
(* database (shadow/store.ts).  A job, either the command line's or an app   *)
(* run's (app/triage-runs.server.ts, processRunGroups), runs the pipeline    *)
(* once per group of messages under one budget of Jev calls.  Spark reads    *)
(* are serial; Jev calls overlap in a small pool.  Several processes share   *)
(* the database, die at any point, and may be asked to stop at any point;    *)
(* new messages arrive meanwhile.                                            *)
(***************************************************************************)
EXTENDS Integers, FiniteSets

CONSTANTS
  Pid,         \* process ids
  Run,         \* row ids of the runs table
  Thread,
  MaxVersion,  \* bound on the number of messages of a thread
  Budget,      \* the call budgets a job may be given (maxJevCalls)
  Groups,      \* the numbers of groups a job's selection may fall into
  PoolSize,    \* jevConcurrency
  StoreFails   \* whether the database may refuse writes about the run itself

ASSUME ShadowPipelineAssumption ==
  /\ MaxVersion \in Nat \ {0}
  /\ Budget \subseteq Nat \ {0}
  /\ Groups \subseteq Nat \ {0}
  /\ PoolSize \in Nat \ {0}
  /\ StoreFails \in BOOLEAN

VARIABLES
  alive,     \* the process ids a program runs under
  at,        \* where each process is in its job
  job,       \* that job's memory
  flight,    \* the Jev calls of each process that have not returned
  runs,      \* the runs table
  outcome,   \* what became of each listed message of each run
  judged,    \* the judgments table: status of each thread at each version
  version,   \* how many messages each thread has
  paid       \* history: Jev calls of each process's current job

vars == <<alive, at, job, flight, runs, outcome, judged, version, paid>>

Version == 1 .. MaxVersion
\* The n-th message of a thread; a judgment of version v covers messages 1 .. v.
Message == [thread : Thread, n : Version]
Call == [message : Message, version : Version]

Failure == {"provider_failure", "read_error", "store_error", "deferred"}
Settled == {"already_current", "duplicate", "classified"}
RunRow == [status : {"running", "completed", "partial", "failed", "interrupted"}, pid : Pid]
NoRow == [status |-> "absent"]
NoCall == [version |-> 0]
NoJob == [run |-> "none"]

\* The memory of a job: its current run, the groups to come, the messages still to look at, the
\* threads seen, the call about to be made, the budget it was given, what is left
\* of it and the calls begun in this run, and whether a stop or an unexpected
\* error has been met.
Job == [run : Run \cup {"none"}, groups : Nat, todo : SUBSET Message, seen : SUBSET Thread,
        next : Call \cup {NoCall}, budget : Nat, left : Int, calls : Nat,
        stop : BOOLEAN, thrown : BOOLEAN]
NewJob(budget, groups) ==
  [run |-> "none", groups |-> groups, todo |-> {}, seen |-> {}, next |-> NoCall,
   budget |-> budget, left |-> budget, calls |-> 0, stop |-> FALSE, thrown |-> FALSE]

MessageJudged(m) == \E v \in Version : v >= m.n /\ judged[m.thread][v] = "classified"
ThreadJudged(t, v) == judged[t][v] = "classified"

Counted(r, statuses) == {m \in Message : outcome[r][m] \in statuses}
Count(r, statuses) == Cardinality(Counted(r, statuses))

\* incomplete: one of the counts of failures is not zero.
Incomplete(r, statuses) == Counted(r, statuses) # {}

\* The budget of one run: Math.max(1, remainingCalls).
MaxJevCalls(p) == IF job[p].left < 1 THEN 1 ELSE job[p].left

-----------------------------------------------------------------------------
Init ==
  /\ alive = [p \in Pid |-> TRUE]
  /\ at = [p \in Pid |-> "idle"]
  /\ job = [p \in Pid |-> NoJob]
  /\ flight = [p \in Pid |-> {}]
  /\ runs = [r \in Run |-> NoRow]
  /\ outcome = [r \in Run |-> [m \in Message |-> "unlisted"]]
  /\ judged = [t \in Thread |-> [v \in Version |-> "none"]]
  /\ version \in [Thread -> Version]
  /\ paid = [p \in Pid |-> 0]

Observe(p, m, status) == outcome' = [outcome EXCEPT ![job[p].run][m] = status]

\* The message looked at is done with; the loop goes on.
Onward(p) ==
  /\ at' = [at EXCEPT ![p] = "next"]
  /\ job' = [job EXCEPT ![p].next = NoCall]

-----------------------------------------------------------------------------
(* A job and its groups.                                                    *)

Start(p, budget, groups) ==
  /\ alive[p] /\ at[p] = "idle"
  /\ at' = [at EXCEPT ![p] = "group"]
  /\ job' = [job EXCEPT ![p] = NewJob(budget, groups)]
  /\ paid' = [paid EXCEPT ![p] = 0]
  /\ UNCHANGED <<alive, flight, runs, outcome, judged, version>>

\* Mutant of RunInProgress: it finds the dead owner's run instead of the live one's.
RunInProgressBroken == \E r \in Run : runs[r].status = "running" /\ ~alive[runs[r].pid]

\* beginRun's test: some live process holds a running row.
RunInProgress == \E r \in Run : runs[r].status = "running" /\ alive[runs[r].pid]

\* Mutant of Begun: interrupting a run loses its process id.
BegunBroken(p, r) ==
  [q \in Run |->
     IF q = r THEN [status |-> "running", pid |-> p]
     ELSE IF runs[q].status = "running" THEN [status |-> "interrupted"]
     ELSE runs[q]]

\* beginRun on a free table: dead owners' runs are interrupted, r is inserted.
Begun(p, r) ==
  [q \in Run |->
     IF q = r THEN [status |-> "running", pid |-> p]
     ELSE IF runs[q].status = "running" THEN [runs[q] EXCEPT !.status = "interrupted"]
     ELSE runs[q]]

\* processRunGroups is through: no group is left, a stop was met, or the budget is
\* spent.
LoopOver(p) == job[p].groups = 0 \/ job[p].stop \/ job[p].left <= 0

\* The next group: Spark is asked for the mailbox.
Resolve(p) ==
  /\ at[p] = "group" /\ ~LoopOver(p)
  /\ at' = [at EXCEPT ![p] = "scope"]
  /\ job' = [job EXCEPT ![p].groups = @ - 1]
  /\ UNCHANGED <<alive, flight, runs, outcome, judged, version, paid>>

\* The mailbox is there and beginRun inserts the row.  When the observer's write
\* (linkShadowRun) is refused, the error leaves appliedRun before its try: the job
\* is over and the row stays.
Begin(p, r) ==
  /\ at[p] = "scope"
  /\ runs[r] = NoRow /\ ~RunInProgress
  /\ runs' = Begun(p, r)
  /\ \/ /\ at' = [at EXCEPT ![p] = "list"]
        /\ job' = [job EXCEPT ![p].run = r, ![p].seen = {}, ![p].calls = 0]
     \/ /\ StoreFails
        /\ at' = [at EXCEPT ![p] = "idle"]
        /\ job' = [job EXCEPT ![p] = NoJob]
  /\ UNCHANGED <<alive, flight, outcome, judged, version, paid>>

\* Mutant of NotStarted: a group that did not start is tried again.
NotStartedBroken(p) ==
  /\ at[p] = "scope"
  /\ at' = [at EXCEPT ![p] = "group"]
  /\ job' = [job EXCEPT ![p].groups = @ + 1]
  /\ UNCHANGED <<alive, flight, runs, outcome, judged, version, paid>>

\* The mailbox is not readable, or a run is in progress: the group did not start.
NotStarted(p) ==
  /\ at[p] = "scope"
  /\ at' = [at EXCEPT ![p] = "group"]
  /\ UNCHANGED <<alive, job, flight, runs, outcome, judged, version, paid>>

End(p) ==
  /\ at[p] = "group" /\ LoopOver(p)
  /\ at' = [at EXCEPT ![p] = "idle"]
  /\ job' = [job EXCEPT ![p] = NoJob]
  /\ UNCHANGED <<alive, flight, runs, outcome, judged, version, paid>>

\* What throws outside a run ends the job: the mailbox read, beginRun, or the look
\* for a stop.
Quit(p) ==
  /\ at[p] \in {"group", "scope"}
  /\ at' = [at EXCEPT ![p] = "idle"]
  /\ job' = [job EXCEPT ![p] = NoJob]
  /\ UNCHANGED <<alive, flight, runs, outcome, judged, version, paid>>

\* listRecent, or the caller's selection: any messages there are.
List(p) ==
  /\ at[p] = "list"
  /\ \E listed \in SUBSET {m \in Message : m.n <= version[m.thread]} :
       /\ job' = [job EXCEPT ![p].todo = listed]
       /\ outcome' = [outcome EXCEPT ![job[p].run] =
                        [m \in Message |-> IF m \in listed THEN "listed" ELSE "unlisted"]]
  /\ at' = [at EXCEPT ![p] = "next"]
  /\ UNCHANGED <<alive, flight, runs, judged, version, paid>>

\* The listing failed: the run fails with Spark's code.
ListFails(p) ==
  /\ at[p] = "list"
  /\ runs' = [runs EXCEPT ![job[p].run].status = "failed"]
  /\ at' = [at EXCEPT ![p] = "group"]
  /\ UNCHANGED <<alive, job, flight, outcome, judged, version, paid>>

-----------------------------------------------------------------------------
(* One message.                                                             *)

\* classificationCandidate up to the Spark read: a stop defers, a judged message
\* is current.
Candidate(p, m) ==
  /\ at[p] = "next" /\ m \in job[p].todo
  /\ \/ /\ job[p].stop \/ MessageJudged(m)
        /\ Observe(p, m, IF job[p].stop THEN "deferred" ELSE "already_current")
        /\ job' = [job EXCEPT ![p].todo = @ \ {m}]
        /\ UNCHANGED at
     \/ /\ ~job[p].stop /\ ~MessageJudged(m)
        /\ at' = [at EXCEPT ![p] = "read"]
        /\ job' = [job EXCEPT ![p].todo = @ \ {m},
                              ![p].next = [message |-> m, version |-> m.n]]
        /\ UNCHANGED outcome
  /\ UNCHANGED <<alive, flight, runs, judged, version, paid>>

\* Mutant of Duplicate: the threads seen are never consulted.
DuplicateBroken(p, t) == FALSE

Duplicate(p, t) == t \in job[p].seen

\* The thread arrives as it is now: seen in this run, judged already, over the
\* budget, stopped meanwhile, or on its way to the pool.
ThreadRead(p) ==
  LET m == job[p].next.message
      t == m.thread
      v == version[t]
      mem == [job[p] EXCEPT !.seen = @ \cup {t}]
      spent == job[p].calls >= MaxJevCalls(p)
      status == IF Duplicate(p, t) THEN "duplicate"
                ELSE IF ThreadJudged(t, v) THEN "already_current" ELSE "deferred"
  IN /\ at[p] = "read"
     /\ \/ /\ Duplicate(p, t) \/ ThreadJudged(t, v) \/ spent \/ job[p].stop
           /\ Observe(p, m, status)
           /\ at' = [at EXCEPT ![p] = "next"]
           /\ job' = [job EXCEPT ![p] = [mem EXCEPT !.next = NoCall]]
        \/ /\ ~Duplicate(p, t) /\ ~ThreadJudged(t, v) /\ ~spent /\ ~job[p].stop
           /\ at' = [at EXCEPT ![p] = "add"]
           /\ job' = [job EXCEPT ![p] = [mem EXCEPT !.calls = @ + 1,
                                                    !.next = [message |-> m, version |-> v]]]
           /\ UNCHANGED outcome
     /\ UNCHANGED <<alive, flight, runs, judged, version, paid>>

\* Spark fails to read it.
ThreadUnread(p) ==
  /\ at[p] = "read"
  /\ Observe(p, job[p].next.message, "read_error") /\ Onward(p)
  /\ UNCHANGED <<alive, flight, runs, judged, version, paid>>

\* Something throws that is no Spark error, be it the listing, a read, a query of the
\* store or the observer: no more messages are looked at.
Throw(p) ==
  /\ at[p] \in {"list", "next", "read"}
  /\ at' = [at EXCEPT ![p] = "settle"]
  /\ job' = [job EXCEPT ![p].todo = {}, ![p].next = NoCall, ![p].thrown = TRUE]
  /\ UNCHANGED <<alive, flight, runs, outcome, judged, version, paid>>

\* Mutant of StoppedMeanwhile: the stop is not looked at again after the wait.
StoppedMeanwhileBroken(p) == FALSE

\* The check inside the task: a stop may have come during the wait for a place.
StoppedMeanwhile(p) == job[p].stop

\* pool.add once a place is free: an earlier failure is thrown, a stop defers, the
\* check for it or its observer fails, or the thread goes to Jev.
Add(p) ==
  /\ at[p] = "add" /\ Cardinality(flight[p]) < PoolSize
  /\ \/ /\ job[p].thrown
        /\ at' = [at EXCEPT ![p] = "settle"]
        /\ UNCHANGED <<job, flight, outcome, paid>>
     \/ /\ ~job[p].thrown /\ StoppedMeanwhile(p)
        /\ Observe(p, job[p].next.message, "deferred") /\ Onward(p)
        /\ UNCHANGED <<flight, paid>>
     \/ /\ ~job[p].thrown
        /\ at' = [at EXCEPT ![p] = "next"]
        /\ job' = [job EXCEPT ![p].next = NoCall, ![p].thrown = TRUE]
        /\ UNCHANGED <<flight, outcome, paid>>
     \/ /\ ~job[p].thrown /\ ~StoppedMeanwhile(p)
        /\ flight' = [flight EXCEPT ![p] = @ \cup {job[p].next}]
        /\ paid' = [paid EXCEPT ![p] = @ + 1]
        /\ Onward(p)
        /\ UNCHANGED outcome
  /\ UNCHANGED <<alive, runs, judged, version>>

\* recordJudgment's upsert: only a provider failure is ever overwritten.
Recorded(c, status) ==
  [judged EXCEPT ![c.message.thread][c.version] = IF @ = "classified" THEN @ ELSE status]

\* A Jev call returns and its outcome is stored.  The write may be refused, and
\* the call or the observer may throw, before or after the write.
Return(p, c) ==
  /\ c \in flight[p]
  /\ flight' = [flight EXCEPT ![p] = @ \ {c}]
  /\ \/ \E status \in {"classified", "provider_failure"} :
          /\ judged' = Recorded(c, status)
          /\ \/ Observe(p, c.message, status) /\ UNCHANGED job
             \/ job' = [job EXCEPT ![p].thrown = TRUE] /\ UNCHANGED outcome
     \/ Observe(p, c.message, "store_error") /\ UNCHANGED <<judged, job>>
     \/ job' = [job EXCEPT ![p].thrown = TRUE] /\ UNCHANGED <<judged, outcome>>
  /\ UNCHANGED <<alive, at, runs, version, paid>>

\* The last message has been looked at.
Drain(p) ==
  /\ at[p] = "next" /\ job[p].todo = {}
  /\ at' = [at EXCEPT ![p] = "settle"]
  /\ UNCHANGED <<alive, job, flight, runs, outcome, judged, version, paid>>

\* Mutant of FinalStatus: deferred messages do not make a run partial.
FinalStatusBroken(p) ==
  IF job[p].thrown THEN "failed"
  ELSE IF Incomplete(job[p].run, Failure \ {"deferred"}) THEN "partial" ELSE "completed"

FinalStatus(p) ==
  IF job[p].thrown THEN "failed"
  ELSE IF Incomplete(job[p].run, Failure) THEN "partial" ELSE "completed"

\* Mutant of Used: failed calls cost nothing.
UsedBroken(r) == Count(r, {"classified"})

\* What processRunGroups takes off the budget: every call that came back.
Used(r) == Count(r, {"classified", "provider_failure", "store_error"})

\* pool.settled, then finishRun and the budget kept by processRunGroups; an
\* unexpected error, or finishRun's own, ends the job.
Finish(p) ==
  LET r == job[p].run
  IN /\ at[p] = "settle" /\ flight[p] = {}
     /\ \/ /\ ~job[p].thrown
           /\ runs' = [runs EXCEPT ![r].status = FinalStatus(p)]
           /\ at' = [at EXCEPT ![p] = "group"]
           /\ job' = [job EXCEPT ![p].left = @ - Used(r), ![p].run = "none"]
        \/ /\ \/ job[p].thrown /\ runs' = [runs EXCEPT ![r].status = FinalStatus(p)]
              \/ StoreFails /\ UNCHANGED runs
           /\ at' = [at EXCEPT ![p] = "idle"]
           /\ job' = [job EXCEPT ![p] = NoJob]
     /\ UNCHANGED <<alive, flight, outcome, judged, version, paid>>

-----------------------------------------------------------------------------
(* Around the job.                                                          *)

\* A stop reaches the job, by its signal or through the database.
Stop(p) ==
  /\ at[p] # "idle" /\ ~job[p].stop
  /\ job' = [job EXCEPT ![p].stop = TRUE]
  /\ UNCHANGED <<alive, at, flight, runs, outcome, judged, version, paid>>

Crash(p) ==
  /\ alive[p]
  /\ alive' = [alive EXCEPT ![p] = FALSE]
  /\ at' = [at EXCEPT ![p] = "idle"]
  /\ job' = [job EXCEPT ![p] = NoJob]
  /\ flight' = [flight EXCEPT ![p] = {}]
  /\ UNCHANGED <<runs, outcome, judged, version, paid>>

\* The process id comes back, for this program or another.
Respawn(p) ==
  /\ ~alive[p]
  /\ alive' = [alive EXCEPT ![p] = TRUE]
  /\ UNCHANGED <<at, job, flight, runs, outcome, judged, version, paid>>

Arrive(t) ==
  /\ version[t] < MaxVersion
  /\ version' = [version EXCEPT ![t] = @ + 1]
  /\ UNCHANGED <<alive, at, job, flight, runs, outcome, judged, paid>>

Step(p) ==
  \/ Resolve(p) \/ NotStarted(p) \/ End(p) \/ Quit(p) \/ List(p) \/ ListFails(p)
  \/ ThreadRead(p) \/ ThreadUnread(p) \/ Throw(p) \/ Add(p) \/ Drain(p) \/ Finish(p)
  \/ \E m \in Message : Candidate(p, m)
  \/ \E c \in flight[p] : Return(p, c)

Next ==
  \/ \E p \in Pid :
       \/ \E budget \in Budget, groups \in Groups : Start(p, budget, groups)
       \/ \E r \in Run : Begin(p, r)
       \/ Step(p) \/ Stop(p) \/ Crash(p) \/ Respawn(p)
  \/ \E t \in Thread : Arrive(t)

Spec == Init /\ [][Next]_vars

\* Spark and Jev calls time out, so a live job always gets to its next step.
Fairness == \A p \in Pid : WF_vars(Step(p))

-----------------------------------------------------------------------------
(* Properties.                                                              *)

\* The types of the tables and of a job's memory.
TypeOK ==
  /\ alive \in [Pid -> BOOLEAN]
  /\ at \in [Pid -> {"idle", "group", "scope", "list", "next", "read", "add", "settle"}]
  /\ job \in [Pid -> Job \cup {NoJob}]
  /\ \A p \in Pid : at[p] # "idle" => job[p] \in Job
  /\ flight \in [Pid -> SUBSET Call]
  /\ runs \in [Run -> RunRow \cup {NoRow}]
  /\ outcome \in [Run -> [Message -> {"unlisted", "listed"} \cup Failure \cup Settled]]
  /\ judged \in [Thread -> [Version -> {"none", "provider_failure", "classified"}]]
  /\ version \in [Thread -> Version]
  /\ paid \in [Pid -> Nat]

\* A process at work, or with a call still out, has a running row of its own; no
\* two processes ever work at once, and a finished run has nothing in flight.
WorkIsOwned ==
  \A p \in Pid :
    at[p] \notin {"idle", "group", "scope"} \/ flight[p] # {} =>
      /\ alive[p]
      /\ runs[job[p].run] = [status |-> "running", pid |-> p]
      /\ \A q \in Pid \ {p} : at[q] \in {"idle", "group", "scope"} /\ flight[q] = {}

\* No thread version is sent to Jev while it is out already or once it is
\* classified, whichever listed messages led to it.
NoDoubleCall ==
  [][\A p \in Pid : \A c \in flight'[p] \ flight[p] :
       /\ judged[c.message.thread][c.version] # "classified"
       /\ \A q \in Pid : \A d \in flight[q] :
            d.message.thread = c.message.thread => d.version # c.version]_vars

\* A job never makes more calls than the budget it was given, over all its
\* groups, however its calls end.
BudgetKept == \A p \in Pid : at[p] # "idle" => paid[p] <= job[p].budget

\* No call goes out once a stop has reached the job, not even one that was
\* already waiting for a place in the pool.
StopHeard ==
  [][\A p \in Pid : at[p] # "idle" /\ job[p].stop => flight'[p] \subseteq flight[p]]_vars

\* A completed run left every message it listed covered by a classified judgment;
\* a partial one at least says what became of each.
CompletedCovers ==
  \A r \in Run : \A m \in Message : outcome[r][m] # "unlisted" =>
    /\ runs[r].status = "completed" => \E v \in m.n .. MaxVersion : judged[m.thread][v] = "classified"
    /\ runs[r].status = "partial" => outcome[r][m] # "listed"

\* "A run is never left running" (pipeline.ts:253): the owner of a running row is
\* dead or still works on it.
NeverLeftRunning ==
  \A r \in Run : runs[r].status = "running" /\ alive[runs[r].pid] =>
    at[runs[r].pid] # "idle" /\ job[runs[r].pid].run = r

\* A job begun ends, or its process does.
JobEnds == \A p \in Pid : at[p] # "idle" ~> at[p] = "idle"

-----------------------------------------------------------------------------
(* The inductive invariant behind the safety properties.                     *)

\* Where a process has a run of its own, and where messages have been listed.
Working == {"list", "next", "read", "add", "settle"}
Looking == Working \ {"list"}

\* A process outside the loop over messages has no call out, one at work has a
\* run, and an unexpected error is only carried to the end of the run.
Places ==
  \A p \in Pid :
    /\ at[p] # "idle" => alive[p]
    /\ at[p] \notin Looking => flight[p] = {}
    /\ at[p] \in Working => job[p].run \in Run
    /\ at[p] = "list" => job[p].seen = {}
    /\ at[p] \in {"read", "add"} => job[p].next \in Call
    /\ at[p] = "settle" => job[p].todo = {} \/ job[p].thrown
    /\ at[p] \in {"group", "scope", "list"} => ~job[p].thrown

\* The threads of the calls in flight differ, were seen in this run, and the call
\* about to be made is for another thread and for a version not classified.
Sequenced ==
  \A p \in Pid :
    /\ \A c \in flight[p] : c.message.thread \in job[p].seen
    /\ \A c, d \in flight[p] : c.message.thread = d.message.thread => c = d
    /\ at[p] = "add" =>
         /\ job[p].next.message.thread \in job[p].seen
         /\ judged[job[p].next.message.thread][job[p].next.version] # "classified"
         /\ \A c \in flight[p] : c.message.thread # job[p].next.message.thread

\* A run that has listed nothing yet has no outcomes.
Unlisted ==
  /\ \A r \in Run : runs[r] = NoRow => \A m \in Message : outcome[r][m] = "unlisted"
  /\ \A p \in Pid : at[p] = "list" => \A m \in Message : outcome[job[p].run][m] = "unlisted"

\* The messages of p's run still without an outcome: to look at, looked at, or out.
Open(p) ==
  job[p].todo \cup (IF at[p] \in {"read", "add"} THEN {job[p].next.message} ELSE {})
    \cup {c.message : c \in flight[p]}

\* A message is open exactly where the code still holds it, and in one place.
OpenListed ==
  \A p \in Pid : at[p] \in Looking =>
    /\ \A m \in Open(p) : outcome[job[p].run][m] = "listed"
    /\ \A m \in Message : outcome[job[p].run][m] = "listed" => m \in Open(p) \/ job[p].thrown
    /\ \A c \in flight[p] : c.message \notin job[p].todo
    /\ at[p] \in {"read", "add"} =>
         /\ job[p].next.message \notin job[p].todo
         /\ \A c \in flight[p] : c.message # job[p].next.message

Listed(r) == {m \in Message : outcome[r][m] # "unlisted"}

\* Version v of thread t covers every message the run listed of it.
CoversListed(r, t, v) == \A m \in Listed(r) : m.thread = t => m.n <= v

\* The version a call is for covers all that was listed of its thread, since the
\* listing came before the read.
CallsCover ==
  \A p \in Pid : at[p] \in Looking =>
    /\ \A t \in Thread : CoversListed(job[p].run, t, version[t])
    /\ at[p] = "add" =>
         CoversListed(job[p].run, job[p].next.message.thread, job[p].next.version)
    /\ \A c \in flight[p] : CoversListed(job[p].run, c.message.thread, c.version)

Covered(m) == \E v \in m.n .. MaxVersion : judged[m.thread][v] = "classified"

\* What becomes of a thread seen, on which the outcome "duplicate" relies: its
\* call is to be made or out, it is classified far enough, or a failure tells.
SeenSettled(p, t) ==
  \/ at[p] = "add" /\ job[p].next.message.thread = t
  \/ \E c \in flight[p] : c.message.thread = t
  \/ \E v \in Version : judged[t][v] = "classified" /\ CoversListed(job[p].run, t, v)
  \/ \E m \in Message : outcome[job[p].run][m] \in Failure
  \/ job[p].thrown

Accounted ==
  \A p \in Pid : at[p] \in Looking =>
    /\ \A m \in Message :
         /\ outcome[job[p].run][m] \in {"already_current", "classified"} => Covered(m)
         /\ outcome[job[p].run][m] = "duplicate" => m.thread \in job[p].seen
    /\ \A t \in job[p].seen : SeenSettled(p, t)

\* Every call paid for is charged, in flight or counted, and the calls begun in a
\* run stay within what was left when it began.
Charged == {"classified", "provider_failure", "store_error"}
Within(p) ==
  /\ job[p].left >= 1 /\ job[p].calls <= job[p].left
  /\ paid[p] + (IF at[p] = "add" THEN 1 ELSE 0) <= (job[p].budget - job[p].left) + job[p].calls
  /\ IsFiniteSet(flight[p]) /\ IsFiniteSet(Counted(job[p].run, Charged))
  /\ job[p].thrown \/ paid[p] =
       (job[p].budget - job[p].left) + Cardinality(flight[p]) + Used(job[p].run)

Budgeted ==
  \A p \in Pid :
    /\ at[p] # "idle" => job[p].left >= 0
    /\ at[p] \in {"group", "scope"} => paid[p] = job[p].budget - job[p].left
    /\ at[p] = "scope" => job[p].left >= 1
    /\ at[p] \in Working => Within(p)

IInv ==
  /\ TypeOK /\ Places /\ WorkIsOwned /\ Sequenced /\ Unlisted
  /\ OpenListed /\ CallsCover /\ Accounted /\ Budgeted /\ CompletedCovers

=============================================================================
