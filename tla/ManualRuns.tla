----------------------------- MODULE ManualRuns -----------------------------
(***************************************************************************)
(* Who owns an app-started Jev run.  A run is a row of the shadow database   *)
(* naming the process id that executes it (shadow/manual-runs.ts); the job   *)
(* itself lives in that process's memory (app/triage-runs.server.ts).  Any   *)
(* process may start, read or stop any run; processes die between any two    *)
(* statements, and the operating system gives a dead process's id to the     *)
(* next one, be it this app or an unrelated program.                         *)
(***************************************************************************)
EXTENDS FiniteSets

CONSTANTS
  Pid,       \* process ids
  Request,   \* start requests; a request id has at most one run, so it names it
  Item,      \* the selected messages
  ReuseAs,   \* what may take a dead process id over: "server", "foreign"
  StoreFails \* whether the database may refuse a job's last writes

ASSUME ManualRunsAssumption ==
  /\ ReuseAs \subseteq {"server", "foreign"}
  /\ StoreFails \in BOOLEAN

VARIABLES
  os,        \* what runs under each process id
  runs,      \* manual_runs: status and owner
  items,     \* manual_run_items: status of each selected message
  starting,  \* starts past the gates, awaiting their selection, per process
  jobs,      \* the in-memory jobs, by run
  stops      \* a stop request half done, per process

vars == <<os, runs, items, starting, jobs, stops>>

ActiveStatus == {"queued", "running", "stopping"}
FinalStatus == {"stopped", "completed", "partial", "failed", "interrupted"}
Run == [status : ActiveStatus \cup FinalStatus, pid : Pid]
NoRun == [status |-> "absent"]
ItemStatus == {"absent", "queued", "done", "error", "deferred"}
Job == [pid : Pid, at : {"kick", "work", "settled"}, aborted : BOOLEAN,
        verdict : FinalStatus \cup {"none"}]
NoJob == [at |-> "none"]
Stop == [run : Request, wasStopping : BOOLEAN]
NoStop == [run |-> "none"]

Active(r) == runs[r].status \in ActiveStatus
Final(r) == runs[r].status \in FinalStatus

\* The mutants (named ...Broken) are single mistakes the code could have made; no
\* action uses them.  Each stands before the definition it could replace.
\* Any error of the liveness check read as life.
IsProcessAliveBroken(p) == TRUE

\* isProcessAlive(pid): signal 0 is delivered, or refused for lack of permission.
IsProcessAlive(p) == os[p] # "dead"

\* Node runs the statements between two awaits without interruption: no other
\* operation of this process comes between a claim and its kick, between a job's
\* last read and its finish, or inside a stop.
Idle(p) ==
  /\ os[p] = "server"
  /\ stops[p] = NoStop
  /\ \A r \in Request :
       jobs[r].at \in {"kick", "settled"} => jobs[r].pid # p

\* One run's row with another status.
WithStatus(r, status) == [runs EXCEPT ![r].status = status]

\* An update without the condition on the row's status.
InterruptedBroken(r) ==
  IF runs[r] # NoRun /\ ~IsProcessAlive(runs[r].pid)
    THEN WithStatus(r, "interrupted")
    ELSE runs

\* interruptManualRunIfDead, which every read of a run begins with.
Interrupted(r) ==
  IF Active(r) /\ ~IsProcessAlive(runs[r].pid)
    THEN WithStatus(r, "interrupted")
    ELSE runs

\* deferQueuedManualRunItems.
Deferred(r) ==
  [items EXCEPT ![r] = [i \in Item |-> IF @[i] = "queued" THEN "deferred" ELSE @[i]]]

-----------------------------------------------------------------------------
Init ==
  /\ os \in [Pid -> {"server", "dead"}]
  /\ runs = [r \in Request |-> NoRun]
  /\ items = [r \in Request |-> [i \in Item |-> "absent"]]
  /\ starting = [p \in Pid |-> {}]
  /\ jobs = [r \in Request |-> NoJob]
  /\ stops = [p \in Pid |-> NoStop]

\* start, up to the await of selectItems: the request is not known yet and the
\* gates are open.  A known request id is a Read of its run instead.
Start(p, r) ==
  /\ Idle(p)
  /\ runs[r] = NoRun
  /\ starting' = [starting EXCEPT ![p] = @ \cup {r}]
  /\ UNCHANGED <<os, runs, items, jobs, stops>>

\* The dead owners' runs left as they are; the owner's id not recorded.
ClaimedBroken(p, r) == [runs EXCEPT ![r] = [status |-> "queued", pid |-> p]]
ClaimedUnowned(p, r) == [runs EXCEPT ![r] = [status |-> "queued"]]

\* claimManualRun on a free database: every unfinished run is the trace of a
\* dead process, and becomes interrupted; the new run is queued under p.
Claimed(p, r) ==
  [q \in Request |->
     IF q = r THEN [status |-> "queued", pid |-> p]
     ELSE IF Active(q) THEN [runs[q] EXCEPT !.status = "interrupted"]
     ELSE runs[q]]

\* accept, up to kick: a request accepted meanwhile is replayed, a live run
\* blocks, and otherwise the run is claimed with all its items queued.
Accept(p, r) ==
  /\ Idle(p)
  /\ r \in starting[p]
  /\ starting' = [starting EXCEPT ![p] = @ \ {r}]
  /\ \/ /\ runs[r] # NoRun
        /\ runs' = Interrupted(r)
        /\ UNCHANGED <<items, jobs>>
     \/ /\ runs[r] = NoRun
        /\ \E q \in Request : Active(q) /\ IsProcessAlive(runs[q].pid)
        /\ UNCHANGED <<runs, items, jobs>>
     \/ /\ runs[r] = NoRun
        /\ \A q \in Request : Active(q) => ~IsProcessAlive(runs[q].pid)
        /\ runs' = Claimed(p, r)
        /\ items' = [items EXCEPT ![r] = [i \in Item |-> "queued"]]
        /\ jobs' = [jobs EXCEPT ![r] = [pid |-> p, at |-> "kick", aborted |-> FALSE,
                                        verdict |-> "none"]]
  /\ UNCHANGED <<os, stops>>

\* restart differs from start in that it selects a known run's items at once, so
\* nothing comes between its gates and its accept.
Restart(p, r, source) ==
  /\ Idle(p)
  /\ runs[r] = NoRun
  /\ runs[source] # NoRun
  /\ \A q \in Request : Active(q) => ~IsProcessAlive(runs[q].pid)
  /\ runs' = Claimed(p, r)
  /\ items' = [items EXCEPT ![r] = [i \in Item |-> "queued"]]
  /\ jobs' = [jobs EXCEPT ![r] = [pid |-> p, at |-> "kick", aborted |-> FALSE,
                                  verdict |-> "none"]]
  /\ UNCHANGED <<os, starting, stops>>

\* kick and the opening of runJob.  When the store does not open a second time
\* or the credentials are gone, the run fails with its items as they are.
Kick(r) ==
  /\ jobs[r].at = "kick"
  /\ \/ /\ runs' = WithStatus(r, "failed")
        /\ jobs' = [jobs EXCEPT ![r] = NoJob]
     \/ /\ runs' = IF runs[r].status = "queued" THEN WithStatus(r, "running") ELSE runs
        /\ jobs' = [jobs EXCEPT ![r].at = "work"]
  /\ UNCHANGED <<os, items, starting, stops>>

\* The pipeline's observer settles one item (markManualRunItem).
Work(r, i, outcome) ==
  /\ jobs[r].at = "work"
  /\ items[r][i] = "queued"
  /\ items' = [items EXCEPT ![r][i] = outcome]
  /\ UNCHANGED <<os, runs, starting, jobs, stops>>

\* The durable stop ignored in favour of this process's own signal.
FinalStatusDeaf(r, aborted, errors) ==
  IF aborted THEN "stopped" ELSE IF errors THEN "partial" ELSE "completed"

\* The item counts ignored.
FinalStatusBlind(r, aborted, errors) ==
  IF runs[r].status = "stopping" \/ aborted THEN "stopped"
  ELSE IF errors THEN "partial" ELSE "completed"

\* finalStatus, of the row as read after the queued items were deferred.
FinalStatusOf(r, aborted, errors) ==
  LET now == Deferred(r)[r]
  IN IF runs[r].status = "stopping" \/ aborted THEN "stopped"
     ELSE IF errors /\ \A i \in Item : now[i] = "deferred" THEN "failed"
     ELSE IF errors \/ \E i \in Item : now[i] \in {"error", "deferred"} THEN "partial"
     ELSE "completed"

\* processRunGroups is over: every group ran, a stop or the budget ended it, a
\* group failed with an error code, or it threw.  runJob defers what is left and
\* decides the final status from a fresh read of the row.
Settle(r) ==
  /\ jobs[r].at = "work"
  /\ items' = Deferred(r)
  /\ \E verdict \in {"failed"} \cup {FinalStatusOf(r, jobs[r].aborted, e) : e \in BOOLEAN} :
       jobs' = [jobs EXCEPT ![r] = [@ EXCEPT !.at = "settled", !.verdict = verdict]]
  /\ UNCHANGED <<os, runs, starting, stops>>

\* finishManualRun: an update with no condition on the row's status.
Finish(r) ==
  /\ jobs[r].at = "settled"
  /\ runs' = WithStatus(r, jobs[r].verdict)
  /\ jobs' = [jobs EXCEPT ![r] = NoJob]
  /\ UNCHANGED <<os, items, starting, stops>>

\* The job threw and the writes of runJob's catch were refused as well: kick
\* swallows the error, and the row keeps an owner that no longer works on it.
Lose(r) ==
  /\ StoreFails
  /\ jobs[r] # NoJob
  /\ jobs' = [jobs EXCEPT ![r] = NoJob]
  /\ UNCHANGED <<os, runs, items, starting, stops>>

\* read, and the replay of a known request: no provider call, no gate.
Read(p, r) ==
  /\ Idle(p)
  /\ runs[r] # NoRun
  /\ runs' = Interrupted(r)
  /\ UNCHANGED <<os, items, starting, jobs, stops>>

\* stop's first read.
StopRead(p, r) ==
  /\ Idle(p)
  /\ runs[r] # NoRun
  /\ runs' = Interrupted(r)
  /\ stops' = [stops EXCEPT ![p] =
                 [run |-> r, wasStopping |-> Interrupted(r)[r].status = "stopping"]]
  /\ UNCHANGED <<os, items, starting, jobs>>

\* Any active run taken for this process's own.
ActiveOwnedByBroken(r, p) == Active(r)

\* activeManualRunOwnedBy, and the job this process has for the run.
ActiveOwnedBy(r, p) == Active(r) /\ runs[r].pid = p
LocalJob(r, p) == jobs[r] # NoJob /\ jobs[r].pid = p

\* requestManualRunStop and settleLocallyOwnedStop: a job in this process is
\* aborted; a run of this process with no job left is finished on the spot.
StopWrite(p) ==
  LET r == stops[p].run
      changed == runs[r].status \in {"queued", "running"}
      told == changed \/ stops[p].wasStopping
      owned == ActiveOwnedBy(r, p)
  IN /\ os[p] = "server"
     /\ stops[p] # NoStop
     /\ stops' = [stops EXCEPT ![p] = NoStop]
     /\ \/ /\ owned /\ told /\ LocalJob(r, p)
           /\ jobs' = [jobs EXCEPT ![r].aborted = TRUE]
           /\ runs' = WithStatus(r, "stopping")
           /\ UNCHANGED items
        \/ /\ owned /\ told /\ ~LocalJob(r, p)
           /\ items' = Deferred(r)
           /\ runs' = WithStatus(r, "stopped")
           /\ UNCHANGED jobs
        \/ /\ ~(owned /\ told)
           /\ runs' = IF changed THEN WithStatus(r, "stopping") ELSE runs
           /\ UNCHANGED <<items, jobs>>
     /\ UNCHANGED <<os, starting>>

-----------------------------------------------------------------------------
\* A process dies: what it kept in memory is gone, its rows are not.
Crash(p) ==
  /\ os[p] # "dead"
  /\ os' = [os EXCEPT ![p] = "dead"]
  /\ starting' = [starting EXCEPT ![p] = {}]
  /\ stops' = [stops EXCEPT ![p] = NoStop]
  /\ jobs' = [r \in Request |-> IF jobs[r] # NoJob /\ jobs[r].pid = p THEN NoJob ELSE jobs[r]]
  /\ UNCHANGED <<runs, items>>

\* The operating system gives a free process id out again.
Reuse(p, as) ==
  /\ os[p] = "dead"
  /\ os' = [os EXCEPT ![p] = as]
  /\ UNCHANGED <<runs, items, starting, jobs, stops>>

Outcome == {"done", "error", "deferred"}

JobStep(r) ==
  \/ Kick(r) \/ Settle(r) \/ Finish(r) \/ Lose(r)
  \/ \E i \in Item, o \in Outcome : Work(r, i, o)

Next ==
  \/ \E p \in Pid, r \in Request :
       \/ Start(p, r) \/ Accept(p, r) \/ Read(p, r) \/ StopRead(p, r)
       \/ \E source \in Request : Restart(p, r, source)
  \/ \E r \in Request : JobStep(r)
  \/ \E p \in Pid : StopWrite(p) \/ Crash(p) \/ \E as \in ReuseAs : Reuse(p, as)

Spec == Init /\ [][Next]_vars

\* A live job keeps moving, a stop begun is finished, and a live server is asked
\* for a run that looks active again and again, between whatever else it does:
\* the browser polls it, and the event loop serves every request in turn.
Fairness ==
  /\ \A r \in Request : WF_vars(JobStep(r)) /\ SF_vars(\E p \in Pid : Read(p, r))
  /\ \A p \in Pid : WF_vars(StopWrite(p))

-----------------------------------------------------------------------------
(* Properties.                                                              *)

\* The types of the tables and of the in-memory state.
TypeOK ==
  /\ os \in [Pid -> {"server", "foreign", "dead"}]
  /\ runs \in [Request -> Run \cup {NoRun}]
  /\ items \in [Request -> [Item -> ItemStatus]]
  /\ starting \in [Pid -> SUBSET Request]
  /\ jobs \in [Request -> Job \cup {NoJob}]
  /\ stops \in [Pid -> Stop \cup {NoStop}]

\* One run at a time, over every process that opens the database.
OneActive == \A q, r \in Request : Active(q) /\ Active(r) => q = r

\* A job in memory executes a run that is still active and still its process's
\* own, so the unconditional finish never overwrites what another process
\* concluded, and no two jobs ever spend Jev calls at once.
JobOwnsRun ==
  \A r \in Request : jobs[r] # NoJob =>
    os[jobs[r].pid] = "server" /\ Active(r) /\ runs[r].pid = jobs[r].pid

\* A finished run is never reopened or given another ending.
FinalIsFinal == [][\A r \in Request : Final(r) => runs'[r] = runs[r]]_vars

\* A stop recorded by any process before the job's last read decides the ending.
StopRespected ==
  [][\A r \in Request :
       runs[r].status = "stopping" /\ jobs[r].at # "settled" =>
         runs'[r].status \in {"stopping", "stopped", "interrupted", "failed"}
           /\ (jobs'[r].at = "settled" => jobs'[r].verdict \in {"stopped", "failed"})]_vars

\* The final status tells what became of the items: a completed run settled all
\* of them without an error, and a stopped or partial one left none in doubt.
EndingAccounts ==
  \A r \in Request :
    /\ runs[r].status = "completed" => \A i \in Item : items[r][i] = "done"
    /\ runs[r].status \in {"partial", "stopped"} => \A i \in Item : items[r][i] # "queued"

\* The comment in runJob: a finished run never leaves an item looking as if it
\* may still start (triage-runs.server.ts:313).
FinishedLeavesNoItemQueued ==
  \A r \in Request : Final(r) /\ runs[r].status # "interrupted" =>
    \A i \in Item : items[r][i] # "queued"

\* Every accepted run ends, as long as a server is left to notice a dead owner.
\* It needs ReuseAs = {} and StoreFails = FALSE: otherwise a row can keep an
\* owner that is alive and does nothing, until a stop reaches that process.
RunEnds ==
  \A r \in Request : Active(r) ~> Final(r) \/ \A p \in Pid : os[p] # "server"

-----------------------------------------------------------------------------
(* The inductive invariant behind the safety properties.                    *)

\* A run's items are written with its row.
Listed == \A r \in Request : runs[r] # NoRun => \A i \in Item : items[r][i] # "absent"

\* Between a job's last read and its finish, the items already say what the
\* verdict will.
SettledJob ==
  \A r \in Request : jobs[r].at = "settled" =>
    /\ jobs[r].verdict \in FinalStatus
    /\ \A i \in Item : items[r][i] # "queued"
    /\ jobs[r].verdict = "completed" => \A i \in Item : items[r][i] = "done"

IInv == TypeOK /\ OneActive /\ JobOwnsRun /\ Listed /\ SettledJob /\ EndingAccounts

=============================================================================
