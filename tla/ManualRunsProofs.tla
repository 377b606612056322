-------------------------- MODULE ManualRunsProofs --------------------------
(***************************************************************************)
(* Proofs about ManualRuns for any number of processes, requests and items, *)
(* whatever takes a dead process id over and whether or not the database    *)
(* refuses writes.                                                          *)
(***************************************************************************)
EXTENDS ManualRuns, TLAPS

USE ManualRunsAssumption

\* An empty database satisfies the invariant.
LEMMA InitIInv == Init => IInv
  BY DEF Init, IInv, TypeOK, OneActive, JobOwnsRun, Listed, SettledJob, EndingAccounts,
     Run, NoRun, Job, NoJob, Stop, NoStop, Active, ActiveStatus, FinalStatus, ItemStatus

(* What the operators on the tables return.                                 *)

\* Writing a status changes one row, and its status only.
LEMMA StatusRow ==
  ASSUME TypeOK, NEW r \in Request, runs[r] # NoRun,
         NEW status \in ActiveStatus \cup FinalStatus
  PROVE  /\ WithStatus(r, status) \in [Request -> Run \cup {NoRun}]
         /\ WithStatus(r, status)[r] = [status |-> status, pid |-> runs[r].pid]
         /\ WithStatus(r, status)[r] \in Run
         /\ \A q \in Request \ {r} : WithStatus(r, status)[q] = runs[q]
  <1>1. runs[r] \in Run
    BY DEF TypeOK
  <1>2. [runs[r] EXCEPT !.status = status] = [status |-> status, pid |-> runs[r].pid]
    BY <1>1 DEF Run
  <1>3. QED
    BY <1>1, <1>2 DEF WithStatus, TypeOK, Run

\* Reading a run changes its row only when its owner is dead.
LEMMA InterruptedRow ==
  ASSUME TypeOK, NEW r \in Request
  PROVE  /\ Interrupted(r) \in [Request -> Run \cup {NoRun}]
         /\ \A q \in Request \ {r} : Interrupted(r)[q] = runs[q]
         /\ ~Active(r) => Interrupted(r)[r] = runs[r]
         /\ Active(r) /\ os[runs[r].pid] # "dead" => Interrupted(r)[r] = runs[r]
         /\ Interrupted(r)[r] # runs[r] =>
              Interrupted(r)[r] = [status |-> "interrupted", pid |-> runs[r].pid]
         /\ Active(r) => Interrupted(r)[r] \in Run
  <1>1. CASE Active(r) /\ ~IsProcessAlive(runs[r].pid)
    <2>1. runs[r] # NoRun
      BY <1>1 DEF Active, ActiveStatus, NoRun
    <2>2. QED
      BY <1>1, <2>1, StatusRow DEF Interrupted, IsProcessAlive, FinalStatus
  <1>2. CASE ~(Active(r) /\ ~IsProcessAlive(runs[r].pid))
    BY <1>2 DEF Interrupted, IsProcessAlive, TypeOK, Active, ActiveStatus, NoRun
  <1>3. QED
    BY <1>1, <1>2

\* A claim writes the new row and ends every active one.
LEMMA ClaimedOther ==
  ASSUME TypeOK, NEW p \in Pid, NEW r \in Request, NEW q \in Request \ {r}
  PROVE  /\ Claimed(p, r)[q] \in Run \cup {NoRun}
         /\ Active(q) => Claimed(p, r)[q].status = "interrupted"
         /\ ~Active(q) => Claimed(p, r)[q] = runs[q]
  <1>1. ASSUME Active(q)
        PROVE  /\ runs[q] \in Run
               /\ [runs[q] EXCEPT !.status = "interrupted"]
                     = [status |-> "interrupted", pid |-> runs[q].pid]
    BY <1>1 DEF TypeOK, Active, ActiveStatus, NoRun, Run
  <1>2. QED
    BY <1>1 DEF Claimed, TypeOK, Run, ActiveStatus, FinalStatus

\* The claimed table is well-typed and holds the new row.
LEMMA ClaimedRow ==
  ASSUME TypeOK, NEW p \in Pid, NEW r \in Request
  PROVE  /\ Claimed(p, r) \in [Request -> Run \cup {NoRun}]
         /\ Claimed(p, r)[r] = [status |-> "queued", pid |-> p]
  <1>1. [status |-> "queued", pid |-> p] \in Run
    BY DEF Run, ActiveStatus
  <1>2. \A q \in Request \ {r} : Claimed(p, r)[q] \in Run \cup {NoRun}
    BY ClaimedOther
  <1>3. QED
    BY <1>1, <1>2 DEF Claimed

\* Deferring touches the queued items of one run.
LEMMA DeferredRow ==
  ASSUME TypeOK, NEW r \in Request
  PROVE  /\ Deferred(r) \in [Request -> [Item -> ItemStatus]]
         /\ \A q \in Request \ {r} : Deferred(r)[q] = items[q]
         /\ \A i \in Item :
              Deferred(r)[r][i] = IF items[r][i] = "queued" THEN "deferred" ELSE items[r][i]
  BY DEF Deferred, TypeOK, ItemStatus

\* The verdict is a final status; completed means every item was done, and a
\* recorded stop always wins over it.
LEMMA VerdictIs ==
  ASSUME TypeOK, Listed, NEW r \in Request, runs[r] # NoRun,
         NEW aborted \in BOOLEAN, NEW errors \in BOOLEAN
  PROVE  /\ FinalStatusOf(r, aborted, errors) \in FinalStatus
         /\ FinalStatusOf(r, aborted, errors) = "completed" =>
              \A i \in Item : Deferred(r)[r][i] = "done"
         /\ runs[r].status = "stopping" => FinalStatusOf(r, aborted, errors) = "stopped"
  BY DeferredRow DEF FinalStatusOf, FinalStatus, Listed, TypeOK, ItemStatus

\* Moving or aborting a job keeps it a job of the same process.
LEMMA JobUpdate ==
  ASSUME NEW job \in Job
  PROVE  /\ [job EXCEPT !.at = "work"] \in Job
         /\ [job EXCEPT !.at = "work"].pid = job.pid
         /\ [job EXCEPT !.at = "work"].at = "work"
         /\ [job EXCEPT !.aborted = TRUE] \in Job
         /\ [job EXCEPT !.aborted = TRUE].pid = job.pid
         /\ [job EXCEPT !.aborted = TRUE].at = job.at
         /\ [job EXCEPT !.aborted = TRUE].verdict = job.verdict
  BY DEF Job

\* The row of an active run takes any status.
LEMMA ActiveRow ==
  ASSUME IInv, NEW r \in Request, Active(r), NEW status \in ActiveStatus \cup FinalStatus
  PROVE  /\ WithStatus(r, status) \in [Request -> Run \cup {NoRun}]
         /\ WithStatus(r, status)[r] # NoRun
         /\ WithStatus(r, status)[r].status = status
         /\ WithStatus(r, status)[r].pid = runs[r].pid
         /\ \A q \in Request \ {r} : WithStatus(r, status)[q] = runs[q]
  <1>1. TypeOK /\ runs[r] # NoRun
    BY DEF IInv, Active, ActiveStatus, NoRun
  <1>2. \A row \in Run : row # NoRun
    BY DEF Run, NoRun, ActiveStatus, FinalStatus
  <1>3. /\ WithStatus(r, status) \in [Request -> Run \cup {NoRun}]
        /\ WithStatus(r, status)[r] = [status |-> status, pid |-> runs[r].pid]
        /\ WithStatus(r, status)[r] \in Run
        /\ \A q \in Request \ {r} : WithStatus(r, status)[q] = runs[q]
    BY <1>1, StatusRow
  <1>4. QED
    BY <1>2, <1>3

\* The job of a run is well-formed and its run is active.
LEMMA LiveJob ==
  ASSUME IInv, NEW r \in Request, jobs[r] # NoJob
  PROVE  /\ jobs \in [Request -> Job \cup {NoJob}]
         /\ jobs[r] \in Job
         /\ Active(r)
         /\ os[jobs[r].pid] = "server" /\ runs[r].pid = jobs[r].pid
  BY DEF IInv, TypeOK, JobOwnsRun

\* Replacing one job leaves the others alone.
LEMMA OneJob ==
  ASSUME NEW r \in Request, jobs \in [Request -> Job \cup {NoJob}], NEW job \in Job
  PROVE  /\ [jobs EXCEPT ![r] = job] \in [Request -> Job \cup {NoJob}]
         /\ [jobs EXCEPT ![r] = job][r] = job
         /\ job # NoJob
         /\ \A q \in Request \ {r} : [jobs EXCEPT ![r] = job][q] = jobs[q]
  <1>1. job # NoJob
    BY DEF Job, NoJob
  <1>2. QED
    BY <1>1

-----------------------------------------------------------------------------
(* What a step keeps besides the types: the parts of the invariant, and the  *)
(* two action properties.                                                    *)

FinalKept == \A q \in Request : Final(q) => runs'[q] = runs[q]

StopKept ==
  \A r \in Request :
    runs[r].status = "stopping" /\ jobs[r].at # "settled" =>
      runs'[r].status \in {"stopping", "stopped", "interrupted", "failed"}
        /\ (jobs'[r].at = "settled" => jobs'[r].verdict \in {"stopped", "failed"})

Kept ==
  /\ OneActive' /\ JobOwnsRun' /\ Listed' /\ SettledJob' /\ EndingAccounts'
  /\ FinalKept /\ StopKept

\* Reading a run, from whichever operation.
LEMMA InterruptKeeps ==
  ASSUME IInv, NEW r \in Request, runs' = Interrupted(r), UNCHANGED <<os, items, jobs>>
  PROVE  Kept
  <1> USE DEF IInv, NoRun, NoJob, Active, ActiveStatus, FinalStatus
  <1>1. /\ \A q \in Request \ {r} : runs'[q] = runs[q]
        /\ runs'[r] = runs[r] \/
             /\ Active(r) /\ os[runs[r].pid] = "dead"
             /\ runs'[r] = [status |-> "interrupted", pid |-> runs[r].pid]
    BY InterruptedRow
  <1>2. OneActive'
    BY <1>1 DEF OneActive, JobOwnsRun
  <1>3. JobOwnsRun'
    BY <1>1 DEF JobOwnsRun
  <1>4. Listed'
    BY <1>1 DEF Listed
  <1>5. SettledJob'
    BY <1>1 DEF SettledJob, JobOwnsRun
  <1>6. EndingAccounts'
    BY <1>1 DEF EndingAccounts, SettledJob
  <1>7. FinalKept
    BY <1>1 DEF FinalKept, Final
  <1>8. StopKept
    BY <1>1 DEF StopKept
  <1>9. QED
    BY <1>2, <1>3, <1>4, <1>5, <1>6, <1>7, <1>8 DEF Kept

\* Claiming a free database for a new run, by a start or by a restart.
LEMMA ClaimKeeps ==
  ASSUME IInv, NEW p \in Pid, NEW r \in Request, os[p] = "server",
         runs[r] = NoRun,
         \A q \in Request : Active(q) => os[runs[q].pid] = "dead",
         runs' = Claimed(p, r),
         items' = [items EXCEPT ![r] = [i \in Item |-> "queued"]],
         jobs' = [jobs EXCEPT ![r] = [pid |-> p, at |-> "kick", aborted |-> FALSE,
                                      verdict |-> "none"]],
         UNCHANGED os
  PROVE  Kept
  <1>1. /\ runs'[r] # NoRun /\ runs'[r].status = "queued" /\ runs'[r].pid = p
        /\ \A q \in Request \ {r} :
             \/ Active(q) /\ runs'[q].status = "interrupted"
             \/ ~Active(q) /\ runs'[q] = runs[q]
    <2>1. runs'[r] = [status |-> "queued", pid |-> p]
      BY ClaimedRow DEF IInv
    <2>2. ASSUME NEW q \in Request \ {r}, Active(q)
          PROVE  runs'[q].status = "interrupted"
      <3>1. Claimed(p, r)[q].status = "interrupted"
        BY <2>2, ClaimedOther DEF IInv
      <3>2. QED
        BY <3>1
    <2>3. ASSUME NEW q \in Request \ {r}, ~Active(q)
          PROVE  runs'[q] = runs[q]
      <3>1. Claimed(p, r)[q] = runs[q]
        BY <2>3, ClaimedOther DEF IInv
      <3>2. QED
        BY <3>1
    <2>4. runs'[r] # NoRun /\ runs'[r].status = "queued" /\ runs'[r].pid = p
      BY <2>1 DEF NoRun
    <2>5. QED
      BY <2>2, <2>3, <2>4
  <1> USE DEF IInv, NoRun, NoJob, Active, ActiveStatus, FinalStatus
  <1>2. /\ \A i \in Item : items'[r][i] = "queued"
        /\ \A q \in Request \ {r} : items'[q] = items[q]
    BY DEF TypeOK
  <1>3. /\ jobs'[r].at = "kick" /\ jobs'[r].pid = p
        /\ \A q \in Request \ {r} : jobs'[q] = jobs[q]
    BY DEF TypeOK
  <1>4. \A q \in Request : jobs[q] = NoJob
    BY DEF JobOwnsRun
  <1>5. OneActive'
    BY <1>1, <1>2, <1>3, <1>4 DEF OneActive
  <1>6. JobOwnsRun'
    BY <1>1, <1>2, <1>3, <1>4 DEF JobOwnsRun
  <1>7. Listed'
    BY <1>1, <1>2, <1>3, <1>4 DEF Listed
  <1>8. SettledJob'
    BY <1>1, <1>2, <1>3, <1>4 DEF SettledJob
  <1>9. EndingAccounts'
    BY <1>1, <1>2, <1>3, <1>4 DEF EndingAccounts, SettledJob
  <1>10. FinalKept
    BY <1>1, <1>2, <1>3, <1>4 DEF FinalKept, Final
  <1>11. StopKept
    BY <1>1, <1>2, <1>3, <1>4 DEF StopKept
  <1>12. QED
    BY <1>5, <1>6, <1>7, <1>8, <1>9, <1>10, <1>11 DEF Kept

\* A start only remembers that it awaits its selection.
LEMMA StartKeeps ==
  ASSUME IInv, NEW p \in Pid, NEW r \in Request, Start(p, r)
  PROVE  TypeOK' /\ Kept
  <1>1. UNCHANGED <<os, runs, items, jobs>>
    BY DEF Start
  <1>2. Kept
    BY <1>1 DEF IInv, TypeOK, Run, NoRun, Job, NoJob, Active, ActiveStatus, FinalStatus, OneActive, JobOwnsRun, Listed, SettledJob, EndingAccounts,
       FinalKept, StopKept, Kept
  <1>3. TypeOK'
    BY DEF IInv, TypeOK, Start
  <1>4. QED
    BY <1>2, <1>3

\* An accept replays, is blocked, or claims.
LEMMA AcceptKeeps ==
  ASSUME IInv, NEW p \in Pid, NEW r \in Request, Accept(p, r)
  PROVE  TypeOK' /\ Kept
  <1>1. TypeOK'
    <2>1. starting' \in [Pid -> SUBSET Request] /\ UNCHANGED <<os, stops>>
      BY DEF IInv, TypeOK, Accept
    <2>2. CASE runs' = Interrupted(r) /\ UNCHANGED <<items, jobs>>
      BY <2>1, <2>2, InterruptedRow DEF IInv, TypeOK
    <2>3. CASE UNCHANGED <<runs, items, jobs>>
      BY <2>1, <2>3 DEF IInv, TypeOK
    <2>4. CASE /\ runs' = Claimed(p, r)
               /\ items' = [items EXCEPT ![r] = [i \in Item |-> "queued"]]
               /\ jobs' = [jobs EXCEPT ![r] = [pid |-> p, at |-> "kick", aborted |-> FALSE,
                                              verdict |-> "none"]]
      <3>1. runs' \in [Request -> Run \cup {NoRun}]
        BY <2>4, ClaimedRow DEF IInv
      <3>2. QED
        BY <2>1, <2>4, <3>1 DEF IInv, TypeOK, Job, ItemStatus
    <2>5. QED
      BY <2>2, <2>3, <2>4 DEF Accept
  <1>2. Kept
    <2>1. CASE runs' = Interrupted(r) /\ UNCHANGED <<items, jobs>>
      BY <2>1, InterruptKeeps DEF Accept
    <2>2. CASE UNCHANGED <<runs, items, jobs>>
      BY <2>2 DEF Accept, IInv, TypeOK, Run, NoRun, Job, NoJob, Active, ActiveStatus, FinalStatus, OneActive, JobOwnsRun, Listed, SettledJob,
         EndingAccounts, FinalKept, StopKept, Kept
    <2>3. CASE /\ runs[r] = NoRun
               /\ \A q \in Request : Active(q) => ~IsProcessAlive(runs[q].pid)
               /\ runs' = Claimed(p, r)
               /\ items' = [items EXCEPT ![r] = [i \in Item |-> "queued"]]
               /\ jobs' = [jobs EXCEPT ![r] = [pid |-> p, at |-> "kick", aborted |-> FALSE,
                                              verdict |-> "none"]]
      BY <2>3, ClaimKeeps DEF Accept, Idle, IsProcessAlive
    <2>4. QED
      BY <2>1, <2>2, <2>3 DEF Accept
  <1>3. QED
    BY <1>1, <1>2

\* A restart claims for a new request.
LEMMA RestartKeeps ==
  ASSUME IInv, NEW p \in Pid, NEW r \in Request, NEW source \in Request, Restart(p, r, source)
  PROVE  TypeOK' /\ Kept
  <1>1. TypeOK'
    <2>1. runs' \in [Request -> Run \cup {NoRun}]
      BY ClaimedRow DEF Restart, IInv
    <2>2. QED
      BY <2>1 DEF Restart, IInv, TypeOK, Job, ItemStatus
  <1>2. Kept
    BY ClaimKeeps DEF Restart, Idle, IsProcessAlive
  <1>3. QED
    BY <1>1, <1>2

\* A read may only end a dead owner's run.
LEMMA ReadKeeps ==
  ASSUME IInv, NEW p \in Pid, NEW r \in Request, Read(p, r)
  PROVE  TypeOK' /\ Kept
  <1>1. TypeOK'
    BY InterruptedRow DEF Read, IInv, TypeOK
  <1>2. Kept
    BY InterruptKeeps DEF Read
  <1>3. QED
    BY <1>1, <1>2

\* So may the first read of a stop.
LEMMA StopReadKeeps ==
  ASSUME IInv, NEW p \in Pid, NEW r \in Request, StopRead(p, r)
  PROVE  TypeOK' /\ Kept
  <1>1. TypeOK'
    BY InterruptedRow DEF StopRead, IInv, TypeOK, Stop
  <1>2. Kept
    BY InterruptKeeps DEF StopRead
  <1>3. QED
    BY <1>1, <1>2

\* Kicking a job starts it or fails its run.
LEMMA KickKeeps ==
  ASSUME IInv, NEW r \in Request, Kick(r)
  PROVE  TypeOK' /\ Kept
  <1>1. /\ jobs \in [Request -> Job \cup {NoJob}]
        /\ jobs[r] # NoJob /\ jobs[r] \in Job /\ Active(r) /\ TypeOK
        /\ os[jobs[r].pid] = "server" /\ runs[r].pid = jobs[r].pid
        /\ UNCHANGED <<os, items, starting, stops>>
    BY LiveJob DEF Kick, NoJob, IInv
  <1>2. CASE runs' = WithStatus(r, "failed") /\ jobs' = [jobs EXCEPT ![r] = NoJob]
    <2>1. /\ runs' \in [Request -> Run \cup {NoRun}]
          /\ runs'[r] # NoRun /\ runs'[r].status = "failed" /\ runs'[r].pid = runs[r].pid
          /\ \A q \in Request \ {r} : runs'[q] = runs[q]
      BY <1>1, <1>2, ActiveRow DEF ActiveStatus, FinalStatus
    <2>2. /\ jobs' \in [Request -> Job \cup {NoJob}]
          /\ jobs'[r] = NoJob /\ \A q \in Request \ {r} : jobs'[q] = jobs[q]
      BY <1>1, <1>2
    <2>3. TypeOK'
      BY <1>1, <2>1, <2>2 DEF TypeOK
    <2> USE DEF IInv, NoRun, NoJob, Active, ActiveStatus, FinalStatus
    <2>4. OneActive'
      BY <1>1, <2>1, <2>2 DEF OneActive
    <2>5. JobOwnsRun'
      BY <1>1, <2>1, <2>2 DEF JobOwnsRun
    <2>6. Listed'
      BY <1>1, <2>1, <2>2 DEF Listed
    <2>7. SettledJob'
      BY <1>1, <2>1, <2>2 DEF SettledJob
    <2>8. EndingAccounts'
      BY <1>1, <2>1, <2>2 DEF EndingAccounts, SettledJob
    <2>9. FinalKept
      BY <1>1, <2>1, <2>2 DEF FinalKept, Final
    <2>10. StopKept
      BY <1>1, <2>1, <2>2 DEF StopKept
    <2>11. QED
      BY <2>3, <2>4, <2>5, <2>6, <2>7, <2>8, <2>9, <2>10 DEF Kept
  <1>3. CASE /\ runs' = IF runs[r].status = "queued" THEN WithStatus(r, "running") ELSE runs
             /\ jobs' = [jobs EXCEPT ![r].at = "work"]
    <2>1. /\ runs' \in [Request -> Run \cup {NoRun}]
          /\ runs'[r] # NoRun /\ runs'[r].pid = runs[r].pid
          /\ runs'[r].status = IF runs[r].status = "queued" THEN "running" ELSE runs[r].status
          /\ \A q \in Request \ {r} : runs'[q] = runs[q]
      <3>1. runs[r] # NoRun /\ runs \in [Request -> Run \cup {NoRun}]
        BY <1>1 DEF Active, ActiveStatus, NoRun, TypeOK
      <3>2. CASE runs[r].status = "queued"
        BY <1>1, <1>3, <3>2, ActiveRow DEF ActiveStatus, FinalStatus
      <3>3. CASE runs[r].status # "queued"
        BY <1>3, <3>1, <3>3
      <3>4. QED
        BY <3>2, <3>3
    <2>2. /\ jobs' \in [Request -> Job \cup {NoJob}]
          /\ jobs'[r].at = "work" /\ jobs'[r].pid = jobs[r].pid
          /\ \A q \in Request \ {r} : jobs'[q] = jobs[q]
      <3> DEFINE job == [jobs[r] EXCEPT !.at = "work"]
      <3>1. job \in Job /\ job.at = "work" /\ job.pid = jobs[r].pid
        BY <1>1, JobUpdate
      <3>2. jobs' = [jobs EXCEPT ![r] = job]
        BY <1>3
      <3> HIDE DEF job
      <3>3. QED
        BY <1>1, <3>1, <3>2, OneJob
    <2>3. TypeOK'
      BY <1>1, <2>1, <2>2 DEF TypeOK
    <2> USE DEF IInv, NoRun, NoJob, Active, ActiveStatus, FinalStatus
    <2>4. OneActive'
      BY <1>1, <2>1, <2>2 DEF OneActive
    <2>5. JobOwnsRun'
      BY <1>1, <2>1, <2>2 DEF JobOwnsRun
    <2>6. Listed'
      BY <1>1, <2>1, <2>2 DEF Listed
    <2>7. SettledJob'
      BY <1>1, <2>1, <2>2 DEF SettledJob
    <2>8. EndingAccounts'
      BY <1>1, <2>1, <2>2 DEF EndingAccounts, SettledJob
    <2>9. FinalKept
      BY <1>1, <2>1, <2>2 DEF FinalKept, Final
    <2>10. StopKept
      BY <1>1, <2>1, <2>2 DEF StopKept
    <2>11. QED
      BY <2>3, <2>4, <2>5, <2>6, <2>7, <2>8, <2>9, <2>10 DEF Kept
  <1>4. QED
    BY <1>2, <1>3 DEF Kick

\* Settling defers what is left and fixes the verdict.
LEMMA SettleKeeps ==
  ASSUME IInv, NEW r \in Request, Settle(r)
  PROVE  TypeOK' /\ Kept
  <1>1. /\ jobs \in [Request -> Job \cup {NoJob}]
        /\ jobs[r] # NoJob /\ jobs[r] \in Job /\ Active(r) /\ TypeOK /\ Listed
        /\ os[jobs[r].pid] = "server" /\ runs[r].pid = jobs[r].pid
        /\ UNCHANGED <<os, runs, starting, stops>>
    BY LiveJob DEF Settle, NoJob, IInv
  <1>2. PICK verdict \in {"failed"} \cup {FinalStatusOf(r, jobs[r].aborted, e) : e \in BOOLEAN} :
          jobs' = [jobs EXCEPT ![r] = [@ EXCEPT !.at = "settled", !.verdict = verdict]]
    BY DEF Settle
  <1>3. /\ items' \in [Request -> [Item -> ItemStatus]]
        /\ \A q \in Request \ {r} : items'[q] = items[q]
        /\ \A i \in Item : items'[r][i] = IF items[r][i] = "queued" THEN "deferred" ELSE items[r][i]
        /\ items'[r] = Deferred(r)[r]
    BY <1>1, DeferredRow DEF Settle
  <1>4. /\ verdict \in FinalStatus
        /\ verdict = "completed" => \A i \in Item : items'[r][i] = "done"
        /\ runs[r].status = "stopping" => verdict \in {"stopped", "failed"}
    <2>1. jobs[r].aborted \in BOOLEAN /\ runs[r] # NoRun
      BY <1>1 DEF Job, NoRun, Active, ActiveStatus
    <2>2. CASE verdict = "failed"
      BY <2>2 DEF FinalStatus
    <2>3. ASSUME NEW e \in BOOLEAN, verdict = FinalStatusOf(r, jobs[r].aborted, e)
          PROVE  /\ verdict \in FinalStatus
                 /\ verdict = "completed" => \A i \in Item : items'[r][i] = "done"
                 /\ runs[r].status = "stopping" => verdict \in {"stopped", "failed"}
      BY <1>1, <1>3, <2>1, <2>3, VerdictIs
    <2>4. QED
      BY <1>2, <2>2, <2>3
  <1>5. /\ jobs' \in [Request -> Job \cup {NoJob}]
        /\ jobs'[r].at = "settled" /\ jobs'[r].pid = jobs[r].pid /\ jobs'[r].verdict = verdict
        /\ \A q \in Request \ {r} : jobs'[q] = jobs[q]
    <2> DEFINE job == [jobs[r] EXCEPT !.at = "settled", !.verdict = verdict]
    <2>1. job \in Job /\ job.at = "settled" /\ job.pid = jobs[r].pid /\ job.verdict = verdict
      <3>1. verdict \in FinalStatus /\ jobs[r] \in Job
        BY <1>1, <1>4
      <3>2. QED
        BY <3>1 DEF Job
    <2>2. jobs' = [jobs EXCEPT ![r] = job]
      BY <1>2
    <2> HIDE DEF job
    <2>3. QED
      BY <1>1, <2>1, <2>2, OneJob
  <1>6. TypeOK'
    BY <1>1, <1>3, <1>5 DEF TypeOK
  <1> USE DEF IInv, NoRun, NoJob, Active, ActiveStatus, FinalStatus
  <1>7. OneActive'
    BY <1>1, <1>3, <1>4, <1>5 DEF OneActive
  <1>8. JobOwnsRun'
    BY <1>1, <1>3, <1>4, <1>5 DEF JobOwnsRun
  <1>9. Listed'
    BY <1>1, <1>3, <1>4, <1>5 DEF Listed, ItemStatus
  <1>10. SettledJob'
    <2>1. SettledJob /\ \A i \in Item : items'[r][i] # "queued"
      BY <1>3
    <2>2. ASSUME NEW q \in Request \ {r}
          PROVE  jobs'[q] = jobs[q] /\ items'[q] = items[q]
      BY <1>3, <1>5
    <2>3. QED
      BY <1>4, <1>5, <2>1, <2>2 DEF SettledJob
  <1>11. EndingAccounts'
    BY <1>1, <1>3, <1>4, <1>5 DEF EndingAccounts, SettledJob
  <1>12. FinalKept
    BY <1>1, <1>3, <1>4, <1>5 DEF FinalKept, Final
  <1>13. StopKept
    BY <1>1, <1>3, <1>4, <1>5 DEF StopKept
  <1>14. QED
    BY <1>6, <1>7, <1>8, <1>9, <1>10, <1>11, <1>12, <1>13 DEF Kept

\* Finishing writes the verdict of the settled job.
LEMMA FinishKeeps ==
  ASSUME IInv, NEW r \in Request, Finish(r)
  PROVE  TypeOK' /\ Kept
  <1>1. /\ jobs \in [Request -> Job \cup {NoJob}]
        /\ jobs[r] # NoJob /\ jobs[r].at = "settled" /\ jobs[r].verdict \in FinalStatus
        /\ Active(r) /\ TypeOK
        /\ UNCHANGED <<os, items, starting, stops>>
    BY LiveJob DEF Finish, NoJob, IInv, SettledJob
  <1>2. /\ runs' \in [Request -> Run \cup {NoRun}]
        /\ runs'[r] # NoRun /\ runs'[r].status = jobs[r].verdict
        /\ \A q \in Request \ {r} : runs'[q] = runs[q]
    BY <1>1, ActiveRow DEF Finish
  <1>3. /\ jobs' \in [Request -> Job \cup {NoJob}]
        /\ jobs'[r] = NoJob /\ \A q \in Request \ {r} : jobs'[q] = jobs[q]
    BY <1>1 DEF Finish
  <1>4. TypeOK'
    BY <1>1, <1>2, <1>3 DEF TypeOK
  <1> USE DEF IInv, NoRun, NoJob, Active, ActiveStatus, FinalStatus
  <1>5. OneActive'
    BY <1>1, <1>2, <1>3 DEF OneActive
  <1>6. JobOwnsRun'
    BY <1>1, <1>2, <1>3 DEF JobOwnsRun
  <1>7. Listed'
    BY <1>1, <1>2, <1>3 DEF Listed
  <1>8. SettledJob'
    BY <1>1, <1>2, <1>3 DEF SettledJob
  <1>9. EndingAccounts'
    BY <1>1, <1>2, <1>3 DEF EndingAccounts, SettledJob
  <1>10. FinalKept
    BY <1>1, <1>2, <1>3 DEF FinalKept, Final
  <1>11. StopKept
    BY <1>1, <1>2, <1>3 DEF StopKept
  <1>12. QED
    BY <1>4, <1>5, <1>6, <1>7, <1>8, <1>9, <1>10, <1>11 DEF Kept

\* Losing a job leaves the tables alone.
LEMMA LoseKeeps ==
  ASSUME IInv, NEW r \in Request, Lose(r)
  PROVE  TypeOK' /\ Kept
  <1> USE DEF IInv, NoRun, NoJob, Active, ActiveStatus, FinalStatus
  <1>1. /\ jobs'[r] = NoJob /\ \A q \in Request \ {r} : jobs'[q] = jobs[q]
        /\ UNCHANGED <<os, runs, items, starting, stops>>
    BY DEF Lose, TypeOK
  <1>2. TypeOK'
    BY <1>1 DEF Lose, TypeOK
  <1>3. OneActive'
    BY <1>1 DEF OneActive
  <1>4. JobOwnsRun'
    BY <1>1 DEF JobOwnsRun
  <1>5. Listed'
    BY <1>1 DEF Listed
  <1>6. SettledJob'
    BY <1>1 DEF SettledJob
  <1>7. EndingAccounts'
    BY <1>1 DEF EndingAccounts, SettledJob
  <1>8. FinalKept
    BY <1>1 DEF FinalKept, Final
  <1>9. StopKept
    BY <1>1 DEF StopKept
  <1>10. QED
    BY <1>2, <1>3, <1>4, <1>5, <1>6, <1>7, <1>8, <1>9 DEF Kept

\* An outcome is recorded for a queued item of a working job.
LEMMA WorkKeeps ==
  ASSUME IInv, NEW r \in Request, NEW i \in Item, NEW o \in Outcome, Work(r, i, o)
  PROVE  TypeOK' /\ Kept
  <1> USE DEF IInv, NoRun, NoJob, Active, ActiveStatus, FinalStatus
  <1>1. /\ jobs[r] # NoJob /\ Active(r) /\ jobs[r].at = "work"
        /\ UNCHANGED <<os, runs, starting, jobs, stops>>
    BY LiveJob DEF Work
  <1>2. /\ items' \in [Request -> [Item -> ItemStatus]]
        /\ \A q \in Request \ {r} : items'[q] = items[q]
        /\ items'[r][i] = o /\ o \in {"done", "error", "deferred"}
        /\ \A other \in Item \ {i} : items'[r][other] = items[r][other]
    BY DEF Work, Outcome, ItemStatus, TypeOK
  <1>3. TypeOK'
    BY <1>1, <1>2 DEF TypeOK
  <1>4. OneActive'
    BY <1>1, <1>2 DEF OneActive
  <1>5. JobOwnsRun'
    BY <1>1, <1>2 DEF JobOwnsRun
  <1>6. Listed'
    BY <1>1, <1>2 DEF Listed
  <1>7. SettledJob'
    BY <1>1, <1>2 DEF SettledJob
  <1>8. EndingAccounts'
    BY <1>1, <1>2 DEF EndingAccounts, SettledJob
  <1>9. FinalKept
    BY <1>1, <1>2 DEF FinalKept, Final
  <1>10. StopKept
    BY <1>1, <1>2 DEF StopKept
  <1>11. QED
    BY <1>3, <1>4, <1>5, <1>6, <1>7, <1>8, <1>9, <1>10 DEF Kept

\* A crash takes the jobs of its process with it.
LEMMA CrashKeeps ==
  ASSUME IInv, NEW p \in Pid, Crash(p)
  PROVE  TypeOK' /\ Kept
  <1> USE DEF IInv, NoRun, NoJob, Active, ActiveStatus, FinalStatus
  <1>1. /\ \A q \in Request :
             \/ jobs'[q] = NoJob
             \/ jobs'[q] = jobs[q] /\ (jobs[q] # NoJob => jobs[q].pid # p)
        /\ os' = [os EXCEPT ![p] = "dead"]
        /\ UNCHANGED <<runs, items>>
    BY DEF Crash, TypeOK
  <1>2. TypeOK'
    BY <1>1 DEF Crash, NoStop, TypeOK
  <1>3. OneActive'
    BY <1>1 DEF OneActive
  <1>4. JobOwnsRun'
    BY <1>1 DEF JobOwnsRun, TypeOK
  <1>5. Listed'
    BY <1>1 DEF Listed
  <1>6. SettledJob'
    BY <1>1 DEF SettledJob
  <1>7. EndingAccounts'
    BY <1>1 DEF EndingAccounts, SettledJob
  <1>8. FinalKept
    BY <1>1 DEF FinalKept, Final
  <1>9. StopKept
    BY <1>1 DEF StopKept
  <1>10. QED
    BY <1>2, <1>3, <1>4, <1>5, <1>6, <1>7, <1>8, <1>9 DEF Kept

\* A process id that comes back owned no live job.
LEMMA ReuseKeeps ==
  ASSUME IInv, NEW p \in Pid, NEW as \in ReuseAs, Reuse(p, as)
  PROVE  TypeOK' /\ Kept
  <1> USE DEF IInv, NoRun, NoJob, Active, ActiveStatus, FinalStatus
  <1>1. /\ os[p] = "dead" /\ os' = [os EXCEPT ![p] = as]
        /\ UNCHANGED <<runs, items, starting, jobs, stops>>
    BY DEF Reuse
  <1>2. TypeOK'
    BY <1>1, ManualRunsAssumption DEF TypeOK
  <1>3. OneActive'
    BY <1>1 DEF OneActive
  <1>4. JobOwnsRun'
    <2>1. ASSUME NEW r \in Request, jobs[r] # NoJob
          PROVE  os'[jobs[r].pid] = "server"
      <3>1. os[jobs[r].pid] = "server" /\ jobs[r].pid \in Pid /\ jobs[r].pid # p
        BY <1>1, <2>1, LiveJob DEF Job
      <3>2. QED
        BY <1>1, <3>1 DEF TypeOK
    <2>2. QED
      BY <1>1, <2>1 DEF JobOwnsRun
  <1>5. Listed'
    BY <1>1 DEF Listed
  <1>6. SettledJob'
    BY <1>1 DEF SettledJob
  <1>7. EndingAccounts'
    BY <1>1 DEF EndingAccounts, SettledJob
  <1>8. FinalKept
    BY <1>1 DEF FinalKept, Final
  <1>9. StopKept
    BY <1>1 DEF StopKept
  <1>10. QED
    BY <1>2, <1>3, <1>4, <1>5, <1>6, <1>7, <1>8, <1>9 DEF Kept

\* A stop ends no run whose job is still alive.
LEMMA StopWriteKeeps ==
  ASSUME IInv, NEW p \in Pid, StopWrite(p)
  PROVE  TypeOK' /\ Kept
  <1> DEFINE r == stops[p].run
  <1>1. r \in Request /\ os[p] = "server" /\ UNCHANGED <<os, starting>>
          /\ stops' \in [Pid -> Stop \cup {NoStop}] /\ TypeOK
          /\ jobs \in [Request -> Job \cup {NoJob}]
    BY DEF StopWrite, Stop, NoStop, IInv, TypeOK
  <1> HIDE DEF r
  <1>2. CASE /\ Active(r) /\ jobs[r] # NoJob
             /\ jobs' = [jobs EXCEPT ![r].aborted = TRUE]
             /\ runs' = WithStatus(r, "stopping")
             /\ UNCHANGED items
    <2>1. /\ runs' \in [Request -> Run \cup {NoRun}]
          /\ runs'[r] # NoRun /\ runs'[r].status = "stopping"
          /\ runs'[r].pid = runs[r].pid /\ Active(r)
          /\ \A q \in Request \ {r} : runs'[q] = runs[q]
      BY <1>1, <1>2, ActiveRow DEF Active, ActiveStatus, FinalStatus
    <2>2. items' = items
      BY <1>1, <1>2
    <2>3. /\ jobs' \in [Request -> Job \cup {NoJob}]
          /\ jobs[r] # NoJob /\ jobs'[r] # NoJob
          /\ jobs'[r].pid = jobs[r].pid /\ jobs'[r].at = jobs[r].at
          /\ jobs'[r].verdict = jobs[r].verdict
          /\ \A q \in Request \ {r} : jobs'[q] = jobs[q]
      <3> DEFINE job == [jobs[r] EXCEPT !.aborted = TRUE]
      <3>1. jobs[r] \in Job
        BY <1>1, <1>2
      <3>2. /\ job \in Job /\ job.pid = jobs[r].pid
            /\ job.at = jobs[r].at /\ job.verdict = jobs[r].verdict
        BY <3>1, JobUpdate
      <3>3. jobs' = [jobs EXCEPT ![r] = job]
        BY <1>2
      <3> HIDE DEF job
      <3>4. jobs[r] # NoJob
        BY <1>2
      <3>5. QED
        BY <1>1, <3>2, <3>3, <3>4, OneJob
    <2>4. TypeOK'
      BY <1>1, <2>1, <2>2, <2>3 DEF TypeOK
    <2> USE DEF IInv, NoRun, NoJob, Active, ActiveStatus, FinalStatus
    <2>5. OneActive'
      BY <1>1, <2>1, <2>2, <2>3 DEF OneActive
    <2>6. JobOwnsRun'
      BY <1>1, <2>1, <2>2, <2>3 DEF JobOwnsRun
    <2>7. Listed'
      BY <1>1, <2>1, <2>2, <2>3 DEF Listed, ItemStatus
    <2>8. SettledJob'
      BY <1>1, <2>1, <2>2, <2>3 DEF SettledJob
    <2>9. EndingAccounts'
      BY <1>1, <2>1, <2>2, <2>3 DEF EndingAccounts, SettledJob
    <2>10. FinalKept
      BY <1>1, <2>1, <2>2, <2>3 DEF FinalKept, Final
    <2>11. StopKept
      BY <1>1, <2>1, <2>2, <2>3 DEF StopKept
    <2>12. QED
      BY <2>4, <2>5, <2>6, <2>7, <2>8, <2>9, <2>10, <2>11 DEF Kept
  <1>3. CASE /\ Active(r) /\ runs[r].pid = p /\ jobs[r] = NoJob
             /\ items' = Deferred(r)
             /\ runs' = WithStatus(r, "stopped")
             /\ UNCHANGED jobs
    <2>1. /\ runs' \in [Request -> Run \cup {NoRun}]
          /\ runs'[r] # NoRun /\ runs'[r].status = "stopped"
          /\ runs'[r].pid = runs[r].pid /\ Active(r)
          /\ \A q \in Request \ {r} : runs'[q] = runs[q]
      BY <1>1, <1>3, ActiveRow DEF Active, ActiveStatus, FinalStatus
    <2>2. /\ items' \in [Request -> [Item -> ItemStatus]]
          /\ \A q \in Request \ {r} : items'[q] = items[q]
          /\ \A i \in Item :
               items'[r][i] = IF items[r][i] = "queued" THEN "deferred" ELSE items[r][i]
      BY <1>1, <1>3, DeferredRow
    <2>3. jobs' = jobs /\ jobs[r] = NoJob
      BY <1>1, <1>3
    <2>4. TypeOK'
      BY <1>1, <2>1, <2>2, <2>3 DEF TypeOK
    <2> USE DEF IInv, NoRun, NoJob, Active, ActiveStatus, FinalStatus
    <2>5. OneActive'
      BY <1>1, <2>1, <2>2, <2>3 DEF OneActive
    <2>6. JobOwnsRun'
      BY <1>1, <2>1, <2>2, <2>3 DEF JobOwnsRun
    <2>7. Listed'
      BY <1>1, <2>1, <2>2, <2>3 DEF Listed, ItemStatus
    <2>8. SettledJob'
      BY <1>1, <2>1, <2>2, <2>3 DEF SettledJob
    <2>9. EndingAccounts'
      <3>1. EndingAccounts /\ \A i \in Item : items'[r][i] # "queued"
        BY <2>2
      <3>2. ASSUME NEW q \in Request \ {r}
            PROVE  runs'[q] = runs[q] /\ items'[q] = items[q]
        BY <2>1, <2>2
      <3>3. QED
        BY <2>1, <3>1, <3>2 DEF EndingAccounts
    <2>10. FinalKept
      BY <1>1, <2>1, <2>2, <2>3 DEF FinalKept, Final
    <2>11. StopKept
      BY <1>1, <2>1, <2>2, <2>3 DEF StopKept
    <2>12. QED
      BY <2>4, <2>5, <2>6, <2>7, <2>8, <2>9, <2>10, <2>11 DEF Kept
  <1>4. CASE /\ runs[r].status \in {"queued", "running"}
             /\ runs' = WithStatus(r, "stopping")
             /\ UNCHANGED <<items, jobs>>
    <2>1. /\ runs' \in [Request -> Run \cup {NoRun}]
          /\ runs'[r] # NoRun /\ runs'[r].status = "stopping"
          /\ runs'[r].pid = runs[r].pid /\ Active(r)
          /\ \A q \in Request \ {r} : runs'[q] = runs[q]
      BY <1>1, <1>4, ActiveRow DEF Active, ActiveStatus, FinalStatus
    <2>2. items' = items
      BY <1>1, <1>4
    <2>3. jobs' = jobs
      BY <1>1, <1>4
    <2>4. TypeOK'
      BY <1>1, <2>1, <2>2, <2>3 DEF TypeOK
    <2> USE DEF IInv, NoRun, NoJob, Active, ActiveStatus, FinalStatus
    <2>5. OneActive'
      BY <1>1, <2>1, <2>2, <2>3 DEF OneActive
    <2>6. JobOwnsRun'
      BY <1>1, <2>1, <2>2, <2>3 DEF JobOwnsRun
    <2>7. Listed'
      BY <1>1, <2>1, <2>2, <2>3 DEF Listed, ItemStatus
    <2>8. SettledJob'
      BY <1>1, <2>1, <2>2, <2>3 DEF SettledJob
    <2>9. EndingAccounts'
      BY <1>1, <2>1, <2>2, <2>3 DEF EndingAccounts, SettledJob
    <2>10. FinalKept
      BY <1>1, <2>1, <2>2, <2>3 DEF FinalKept, Final
    <2>11. StopKept
      BY <1>1, <2>1, <2>2, <2>3 DEF StopKept
    <2>12. QED
      BY <2>4, <2>5, <2>6, <2>7, <2>8, <2>9, <2>10, <2>11 DEF Kept
  <1>5. CASE UNCHANGED <<runs, items, jobs>>
    <2>1. runs' = runs
      BY <1>1, <1>5
    <2>2. items' = items
      BY <1>1, <1>5
    <2>3. jobs' = jobs
      BY <1>1, <1>5
    <2>4. TypeOK'
      BY <1>1, <2>1, <2>2, <2>3 DEF TypeOK
    <2> USE DEF IInv, NoRun, NoJob, Active, ActiveStatus, FinalStatus
    <2>5. OneActive'
      BY <1>1, <2>1, <2>2, <2>3 DEF OneActive
    <2>6. JobOwnsRun'
      BY <1>1, <2>1, <2>2, <2>3 DEF JobOwnsRun
    <2>7. Listed'
      BY <1>1, <2>1, <2>2, <2>3 DEF Listed, ItemStatus
    <2>8. SettledJob'
      BY <1>1, <2>1, <2>2, <2>3 DEF SettledJob
    <2>9. EndingAccounts'
      BY <1>1, <2>1, <2>2, <2>3 DEF EndingAccounts, SettledJob
    <2>10. FinalKept
      BY <1>1, <2>1, <2>2, <2>3 DEF FinalKept, Final
    <2>11. StopKept
      BY <1>1, <2>1, <2>2, <2>3 DEF StopKept
    <2>12. QED
      BY <2>4, <2>5, <2>6, <2>7, <2>8, <2>9, <2>10, <2>11 DEF Kept
  <1>6. ASSUME Active(r), runs[r].pid = p, ~LocalJob(r, p)
        PROVE  jobs[r] = NoJob
    BY <1>1, <1>6 DEF LocalJob, JobOwnsRun, IInv
  <1>7. QED
    BY <1>2, <1>3, <1>4, <1>5, <1>6 DEF StopWrite, ActiveOwnedBy, LocalJob, Active, ActiveStatus, r

\* A stuttering step keeps everything.
LEMMA StutterKeeps ==
  ASSUME IInv, UNCHANGED vars
  PROVE  TypeOK' /\ Kept
  BY DEF vars, IInv, TypeOK, Run, NoRun, Job, NoJob, Active, ActiveStatus, FinalStatus, ItemStatus, Stop, NoStop, OneActive, JobOwnsRun,
     Listed, SettledJob, EndingAccounts, FinalKept, StopKept, Kept

\* Every step keeps the invariant, finished runs and recorded stops.
LEMMA NextKeeps == IInv /\ [Next]_vars => IInv' /\ FinalKept /\ StopKept
  <1> SUFFICES ASSUME IInv, [Next]_vars
               PROVE  TypeOK' /\ Kept
    BY DEF IInv, Kept
  <1>1. CASE Next
    BY <1>1, StartKeeps, AcceptKeeps, ReadKeeps, StopReadKeeps, RestartKeeps, KickKeeps,
       SettleKeeps, FinishKeeps, LoseKeeps, WorkKeeps, StopWriteKeeps, CrashKeeps, ReuseKeeps
       DEF Next, JobStep
  <1>2. QED
    BY <1>1, StutterKeeps

\* The inductive invariant holds in every reachable state.
THEOREM IInvHolds == Spec => []IInv
  <1>1. IInv /\ [Next]_vars => IInv'
    BY NextKeeps
  <1>2. QED
    BY InitIInv, <1>1, PTL DEF Spec

\* The tables and the in-memory state keep their types.
THEOREM TypeCorrect == Spec => []TypeOK
  BY IInvHolds, PTL DEF IInv

\* At most one app-started run is active, over every process sharing the
\* database, even when process ids come back (claimManualRun).
THEOREM OneActiveHolds == Spec => []OneActive
  BY IInvHolds, PTL DEF IInv

\* A job in memory always executes an active run of its own process, so the
\* unconditional finishManualRun overwrites nobody's ending.
THEOREM JobOwnsRunHolds == Spec => []JobOwnsRun
  BY IInvHolds, PTL DEF IInv

\* A completed, partial or stopped run leaves no item in doubt, and a completed
\* one settled every item without an error.
THEOREM EndingAccountsHolds == Spec => []EndingAccounts
  BY IInvHolds, PTL DEF IInv

\* A finished run keeps its ending.
THEOREM FinalIsFinalHolds == Spec => FinalIsFinal
  <1>1. IInv /\ [Next]_vars =>
          [\A r \in Request : Final(r) => runs'[r] = runs[r]]_vars
    BY NextKeeps DEF FinalKept
  <1>2. QED
    BY IInvHolds, <1>1, PTL DEF Spec, FinalIsFinal

\* A stop recorded before the job's last read of the row decides the ending.
THEOREM StopRespectedHolds == Spec => StopRespected
  <1>1. IInv /\ [Next]_vars =>
          [\A r \in Request :
             runs[r].status = "stopping" /\ jobs[r].at # "settled" =>
               runs'[r].status \in {"stopping", "stopped", "interrupted", "failed"}
                 /\ (jobs'[r].at = "settled" => jobs'[r].verdict \in {"stopped", "failed"})]_vars
    BY NextKeeps DEF StopKept
  <1>2. QED
    BY IInvHolds, <1>1, PTL DEF Spec, StopRespected

=============================================================================
