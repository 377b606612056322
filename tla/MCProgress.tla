----------------------------- MODULE MCProgress -----------------------------
(* What must get done, in one run: Done operations, Jev runs and the jobs that  *)
(* classify messages on the server, and the waiting page's checks. They share   *)
(* no state here, so a behaviour is one of them while the others stand still at *)
(* their beginning, where nothing of them is fairly due.                        *)
EXTENDS Reconnect, FiniteSets, TLC

CONSTANTS
  Proc, Mail, Proposal, Key, TargetOf, ProposedAt, SeenVersion, Time, Lifetime, MaxVersion,
  Pid, Request, Item, StoreFails, ReuseAs,
  Worker, ShadowRun, Thread, Budget, Groups, PoolSize

VARIABLES
  approvals, receipts, pc, job, answer, clock, folder, version, inflight, issued, archived,
  os, runs, items, starting, jobs, stops,
  alive, at, task, flight, rows, outcome, judged, threads, paid,
  side   \* which of the four acts

doneVars == <<approvals, receipts, pc, job, answer, clock, folder, version, inflight, issued, archived>>
jevVars  == <<os, runs, items, starting, jobs, stops>>
workVars == <<alive, at, task, flight, rows, outcome, judged, threads, paid>>

Done == INSTANCE DoneAction WITH Message <- Mail
Jev  == INSTANCE ManualRuns
Pipeline == INSTANCE ShadowPipeline
          WITH Pid <- Worker, Run <- ShadowRun, MaxVersion <- 1, job <- task, runs <- rows, version <- threads

MCTargetOf    == [p \in Proposal |-> CHOOSE m \in Mail : TRUE]
MCProposedAt  == [p \in Proposal |-> 0]
MCSeenVersion == [p \in Proposal |-> 0]
MCTime        == 0..1

\* One state of a part that stands still is enough.
ProgressInit ==
  /\ Done!Init /\ Jev!Init /\ Pipeline!Init /\ Init
  /\ side \in {"done", "jev", "work", "page"}
  /\ side # "jev" => os = [p \in Pid |-> "server"]
  /\ side # "done" => clock = 0
  /\ side # "page" => reason = "missing" /\ visible /\ online

ProgressNext ==
  /\ UNCHANGED side
  /\ \/ side = "done" /\ Done!Next /\ UNCHANGED <<jevVars, workVars, vars>>
     \/ side = "jev" /\ Jev!Next /\ UNCHANGED <<doneVars, workVars, vars>>
     \/ side = "work" /\ Pipeline!Next /\ UNCHANGED <<doneVars, jevVars, vars>>
     \/ side = "page" /\ Next /\ UNCHANGED <<doneVars, jevVars, workVars>>

ProgressSpec ==
  /\ ProgressInit /\ [][ProgressNext]_<<doneVars, jevVars, workVars, vars, side>>
  /\ Done!Fairness /\ Jev!Fairness /\ Pipeline!Fairness /\ Fairness

(* Every Done operation begun is answered or ends with its process, every     *)
(* accepted Jev run ends while a server is left to read it, and every job that *)
(* classifies messages ends, whatever throws on its way.                      *)
DoneAnswered == Done!Answered
RunEnds      == Jev!RunEnds
JobEnds      == Pipeline!JobEnds
=============================================================================
