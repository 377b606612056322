# A TLA+ development of the Spark and Jev email triage app

This directory specifies, model-checks and proves properties of the program in
`src/`: a local web app that reads mail through the Spark Desktop command line,
asks Jev to classify it, lets a person review and follow it up, and can carry out
one guarded write, Mark as Done. Every module is translated from the TypeScript
code; the `map` of `PROJECT.json` gives the lines behind each definition.

## 1. Inventory

### The system in one picture

    browser page --- server functions --- server process(es) --- Spark CLI --- mailbox
      reconnect        (loopback)           |     |     \------- Jev API
      workbench                             |     |
      run client                  shadow.sqlite   done-actions.sqlite
                                            |
                               pnpm shadow --apply (command line)

Nothing but SQLite coordinates the processes. Inside one process Node runs the
statements between two awaits without interruption, so the interleavings that
matter are those at awaits, between processes, and with the outside world.

### Components

| Component | State it keeps | Operations | What is hard | What makes it correct |
|---|---|---|---|---|
| Guarded Done actions (`actions/*`, `app/done-action.server.ts`, `spark/done-provider.ts`) | approvals and receipts in the action journal; a serial queue per process | approve, execute: preflight, claim, command, readback, confirm or mark uncertain | two processes; alias copies of one message id; a command that times out and still lands; crash at any step; a clock set back; two listings that are not one moment | one unresolved attempt per message id, no blind retry, an approval behind every command, honest answers |
| App-started Jev runs (`shadow/manual-runs.ts`, `app/triage-runs.server.ts`) | `manual_runs`, `manual_run_items`; jobs in memory | start, replay, restart, read, stop, run, finish | owners that die, process ids reused, stops from other processes, an unconditional last update | one active run, its job owns it, one ending that accounts for the items |
| Classification pipeline (`shadow/pipeline.ts`, `shadow/store.ts`, `jev/classifier.ts`) | `runs`, `threads`, `judgments`; a job's counts, seen set and pool | begin, list, read, classify, record, finish | overlapping calls, threads that grow, a budget over several groups, stops while waiting for the pool, a store that refuses | one run at a time, no version paid for twice, the budget, what "completed" claims |
| Reconnecting page (`app/reconnect.ts`, `useReconnect.ts`) | reason, activity, timer, generation | start, stop, check, wake, pause, set reason | answers after unmount, a timer touched from everywhere | one request, a timer exactly when due |
| Spark readiness (`app/spark-readiness.server.ts`) | one running probe, its last answer | probe | sharing and reuse of an answer | every answer was true at most two seconds ago |
| Live inbox (`app/live-inbox.server.ts`) | a stored reading and search per view, the copies offered, a reading counter | list, search, continue, refresh, body | readings overlap, pages shift between two calls, mailboxes fail, cursors go stale | only copies of a stored reading are read, a cursor goes on where its list stood, nothing that is there is reported as removed |
| Inbox Zero coverage (`app/inbox-coverage*.ts`; not modelled, section 6) | none | combine two scans | two scans at two times | zero is confirmed only from complete, matching scans |
| Reviews (`shadow/reviews.ts`, `app/reviews.server.ts`) | `reviews` and their fields, request rows; the panel's draft and its attempt in tab storage | choose, save, check, retry | lost answers, reloads, retries under the same id, a judgment that moves on, a clock set back | what is told saved is stored once and as decided, and decides the version it names |
| Open work (`shadow/follow-ups.ts`, `app/open-work.server.ts`) | `follow_ups`, paging cursors; the list on the page | decide, complete, reopen, page, scan | check then write, paging over a moving journal, two listings | a decision is answered as it was stored; a fully loaded list shows every decided copy once and as last decided |
| Run client (`app/triage-run-client.ts`) | persisted request, run id, campaign | start, resume, poll, stop, next batch, skip, reset | lost answers, late reads, reloads, runs of somebody else | the progress shown is what the runs did; no message is sent twice |
| Workbench (`components/pages/WorkbenchPage`, `routes/index.tsx`) | the reading and search shown, the open row, its body, the handling step | refresh, search, open, decide, approve, execute, change | overlapping scans, answers for another row or an older reading, a panel that is gone, a stale closure | proof is of the reading shown; a decision is what the server and Spark did; a settled attempt stays settled |
| Shadow database (`shadow/database.ts`) | schema version | open, migrate | two processes migrating at once | a file is migrated once |
| Policies (`jev/policy.ts`, `domain/attention.ts`, `domain/stored-classification.ts`) | none | classify an answer, place a row | boundaries, ties | an ambiguous or suspicious answer always needs review |
| Evaluation and release (`eval/*`, `release/*`) | files | report, gate | none beyond arithmetic | the gate never passes below its thresholds |
| Spark adapter (`spark/*`), Jev transport (`jev/transport.ts`) | a queue tail | run a command, make a call | external programs | one Spark command at a time per process; an end within the timeout |

## 2. Modules

| Module | What it is |
|---|---|
| `DoneAction` | the Done path of every server process over the shared journal, with Spark and the mailbox |
| `DoneLock` | the abstract lock per message id that the Done path implements |
| `ManualRuns` | app-started runs: rows, items, jobs, stops, process ids |
| `ShadowPipeline` | one job's runs of the pipeline over the shadow store |
| `Reconnect` | the poller of the waiting page |
| `LiveInbox` | the server's readings of the inbox: lists, searches, refreshes, bodies; uses `Pages` |
| `Pages` | how Spark lists a mailbox in numbered pages (operators, external) |
| `RequestJournal` | the request rows both journals of decisions remember (operators) |
| `Reviews` | the review panel, its tab storage, its calls and the reviews journal; uses `RequestJournal` |
| `OpenWork` | decisions about work, the scan behind their evidence and the paged list; uses `RequestJournal` and `Pages` |
| `TriageRunClient` | the browser's client of Jev runs and its campaign, with the server's side of its calls |
| `Workbench` | the page: readings shown, open row, body, handling step, proposal, approval, execution |
| `DoneActionProofs`, `ManualRunsProofs`, `ShadowPipelineProofs`, `ReconnectProofs`, `LiveInboxProofs` | theorems about the module named |
| `DeskProofs` | theorems about `Reviews` and `OpenWork` |
| `PageProofs` | theorems about `Workbench` and `TriageRunClient` |
| `PagesProofs` | lemmas about `Pages`, and least elements, for the proofs of its users |
| `MCDoneAction`, `MCManualRuns`, `MCShadowPipeline`, `MCLiveInbox` | instances for TLC: values of function constants, constraints and symmetry |
| `MCDesk` | `Reviews` and `OpenWork` side by side |
| `MCPage` | `Workbench` and `TriageRunClient` side by side |
| `MCProgress` | `DoneAction`, `ManualRuns`, one job of `ShadowPipeline` and `Reconnect` side by side, for what must get done |

Side by side means: components that share no state here are put in one run with a
variable (`part`, `side`) that says which of them acts in a behaviour. It asks
nothing about their composition; it only checks both. Where components do interact,
the interaction is inside a module: the client of runs with the server's calls, the
panel with the journal, the page's list with the server's scan, the workbench with
what the server and Spark answer.

A definition named `...Broken` (or `...Replacing`, `...Deaf`, `...Blind`, `...Unowned`) is
a single plausible mistake in the definition that follows it. No action uses one;
substituting it shows that a property can fail.

### DoneAction

State: `approvals` and `receipts` are the two tables of the journal; `pc`, `job` and
`answer` are the operation each process is in (its queue admits one at a time);
`clock` is the wall clock; `folder`, `version` and `inflight` are the mailbox and the
commands Spark has accepted; `issued` and `archived` are history variables.

One action per stretch between two awaits: `Approve`/`Execute` (to the provider
call), `PreflightInbox` and `PreflightThread` (two reads, each may refuse), `Record`
(the approval's INSERT OR IGNORE), `Claim` (second approval check and the receipt's
INSERT OR IGNORE under its unique keys and partial index), `Send`, `SendReturns`,
`ReadArchive`, `ReadInbox`, `Confirm`, `MarkUncertain`, and `Crash` at any of them.
`Land` is Spark carrying out a command at any later time or never; `Move`, `Arrive`
and `SetClock` are the world. The check of the approval and the insert that follows
it are one action: between them lie only settled awaits, and neither the approval
nor the time read by the check can be changed by another process.

The switch `SPARK_DONE_ACTIONS_ENABLED` is read anew at each check, so it is a choice
at each check. The listing of a folder over several pages is one observation.
Approvals name their reviewer in the code; the reviewer is the local user, so the
time stands for the approval.

### ManualRuns

`runs` and `items` are the tables, `os` says what runs under a process id (a server
of this app, a foreign program, nothing), `jobs` are the in-memory jobs, `starting`
the starts that await their selection, `stops` a stop between its read and its
write. `Idle` states Node's atomicity: nothing of a process comes between a claim and
its kick or between a job's last read and its finish. `Claimed` is the transaction of
`claimManualRun`, `Interrupted` the check every read begins with, `FinalStatusOf` the
decision of `finalStatus`. `Crash` and `Reuse` are the operating system. `Lose` is a
job whose last writes were refused (`StoreFails`).

### ShadowPipeline

A job (`Start` to `End`) runs the pipeline once per group: `Resolve`, `Begin`, `List`,
then per message `Candidate`, `ThreadRead`, `Add`, and the calls in `flight` come back
through `Return` in any order; `Drain` and `Finish` close the run. `judged` is the
judgments table by thread version, with `recordJudgment`'s rule that only a provider
failure is overwritten. A judgment of version v covers the first v messages.
`Stop` is the signal or the durable stop, `Arrive` new mail. `Throw` is any error of a run that
is no Spark error: the loop ends, the calls out are awaited, the run fails and the job ends.
`Quit` is such an error between runs. With `StoreFails`, the two
writes about the run that stand outside the code's try may be refused.

### Reconnect

`request` keeps the outstanding request of every generation, so that an answer may
come after any number of stops and starts. `Scheduled` is `schedule`, `Rescheduled` the
branch of `setReason`; the listeners of `useReconnect` exist only while mounted. The
displayed counters (`failedChecks`, `failingSince`, `lastChecked`) are left out: they
feed no decision of the poller.

### LiveInbox

`LiveInbox` has `readings` (the stored one of each view), `discovery` (the stored search), `offered`,
the counter of readings (`reads`), the operations of the request handlers (`ops`) and the mailboxes.
An operation begins (`List`, `Search`, `Refresh`), reads page by page (`ReadPage`, which a mailbox may
fail) and settles (`SettleList`, `SettleSearch`, `Settle`). `Move` takes mail in, out, or from unread to
read between any two provider calls, so that pages shift. `changes` counts moves and is the clock of the
model. From the last page to the answer is one stretch of Node, so `Calm` and `Settling` let nothing of
the same process in between. A search awaits the one before it.

A body read that looks its copy up takes four steps, one per stretch between two awaits: `Recheck` (the
copy is not offered), `CopyReadable` (`listMailboxes` answers), `PageLists` (Spark lists the page the row named) and `Rechecked` (the
page arrives and the copy is added to the set offered by then); it may fail at each (`RecheckFails`). A list may begin,
settle or fail between any two of them, and the mail may move after Spark listed the page. In a reading, what Spark lists and its
arrival are one step: in between only its own handler waits for the page, and what an overtaken reading
keeps is its own. `BodyByListing` is the read without a selection, which lists the whole Inbox; the page
always passes a selection. The read of a thread by `body` changes nothing the module keeps.

A page of the provider is a set (`Pages`): the order inside one decides nothing here. Message ids give the order in
which Spark lists; `Date` gives each the date its listing states, which is taken from mail headers (`spark/local-time.ts:6`), so that it
need not follow that order and may be missing. `changesBetween` compares windows by these dates, with a missing one as the oldest. `rechecked`, `held` and
`removed` are history variables: the copies body reads offered since the newest reading began, the cursor of the newest list
answer of each view, and what the last undisturbed refresh said left its view. The code reports how many rows
were removed; the model keeps which.

### RequestJournal, Reviews and OpenWork

`RequestOutcome` is what both journals ask before they write: absent, the same request
again, or another payload under the same id.

`Reviews` has the judgments of each version and the one in force, the reviews stored, the `panel`
with its draft, the attempt it keeps in tab storage (`session`), and the `calls` underway. `Save`,
`CheckOrRetry`, `StoreReview`, `ReviewStatus` and the answers are steps of their own; an answer is
lost (`Lose`) before or after its commit, `Reload` loses the panel but not the tab storage,
`MoveOn` is a new build or a new judgment, `SetClockBack` the wall clock. `Effective` folds
the stored fields to the verdict that holds. Confirming and correcting are one thing:
the value chosen. The panel's status idle stands for choosing, unsaved, saved, refused and failed.
A tab storage that refuses to keep an attempt sends nothing, so that case has no step.

`OpenWork` has the journal (`decisions`, and `asked` for its requests), the copies' place and
version, the operation of each handler (a list, a save) and the page's list (`section`) with its
cursor, which is a snapshot id and the id before which to go on. A save observes the version (`ObserveVersion`), then stores (`Store`); a
list reads the journal when the request arrives, then scans the unread and the read view
(`Scan`), and delivers what the scan proves. The operators of the paged list (`Listable`, `Included`, `NextCursor`) take the
rows of the journal they read, since the invariant compares a page with the journal of an earlier one. Sending a request and the handler's first read are one step.

### TriageRunClient

State: the phase, run, pending start and plan the page has (`page`), what storage keeps (`kept`,
`campaign`), calls underway (`wire`) and the server's runs (`rows`). `StartCampaign`, `ContinueBatch`,
`SkipFailedAndContinue`, `ResetCampaign`, `Resume`, `Poll`, `StopBatch` and `ReloadPage` are guarded by the
conditions under which the control offers them; `ServeStart`, `ServeRead` and `ServeStop` are the
server; the answers come back or are lost (`CallLost`). `stopped` stands for every ending
of a run that is no completion (stopped, failed, interrupted), `other` for every item
that has no judgment but was tried. Calls overtake one another freely: an answer to a read may come
after later runs were started, and a start sent again may be served before the sending the page took for lost. `inOrder` remembers whether
an answer was shown so late that the page could not know better: one to a read or a stop sent before another batch was asked for (`Behind`), or the refusal
of a start whose earlier sending made its run or still may (`Outrun`); each call carries the number of requests made
before it (`after`) for that. `history` remembers the requests
made before the campaign, the runs its plan counted and, as `inSight`, whether the page showed the run it keeps when the campaign began. The server's worklist and the page's have the same messages.

### Workbench

State: what the page shows (`inbox`, `found`, `chosen`), the scans and searches asked for
(`sequence`, `lists`, `searches`), the body held (`body`), the handling step of the open row
(`panel`) and executions whose panel is gone (`owed`); of the world, the mail that arrived and
left, the judgments stored, and the approvals and decisions the server recorded. `Shows` is a render:
the open row follows from the rows shown and the row chosen, the body follows the row, and
the panel is keyed by it, so that it is dropped when another row opens. `ReadNow`, `Evidence`,
`Proposable`, `Observation` and `Stage` are what a render makes of it. `ListAnswered` is one page
of a scan, `Scan` a new one; an answer that is not of the newest call is dropped.
The panel's steps are `Record`, `HandledInSpark`, `SaveAnswered`, `Approve`, `ApproveAnswered`, `RunDone`,
`DoneAnswer` and `Change`; an approval and an execution carry the proposal of the moment
the button was pressed, as the closure in the code does.

Simplified: rows are listed newest first, as the flat queue is (grouping by attention
changes only which row is first); local filters are left out; mail leaves the Inbox only
through Done and a message never changes its thread; `follow_up_later` is `reply_needed`;
a judgment of another rubric or build is folded into a failed one (both name a version
and are not to be proposed on). The answer to a save or an approval whose panel is gone is
dropped, and what the server did then is not seen. `admitApproval` compares with what
the page saw at the press, which `Approve` already checked. A body is not read again after a
refresh, so that a row without a judgment cannot be decided about until it is opened again: this is
the code's. `loading` is read by `reread` when the button is pressed. At `MaxReads` a confirmed
answer that would begin a scan is not taken. The route's reload, which replaces the loader's reading, is left out.

## 3. Runs

| Run | Question | Bounds and why they are enough |
|---|---|---|
| `done_action` | safety of the Done path and the abstract lock | 2 processes, 1 message id, 2 proposals (two copies of it), 2 keys, 2 clock readings, 1 arrival: two racing attempts through different keys and proposals, an expired or backdated approval, a stale thread version. The properties relate at most two keys and one message id. Symmetric in processes and keys. |
| `progress` | what must get done: Done operations, Jev runs, the waiting page; and the poller's safety | Done: 2 processes, 1 proposal, 1 key, since the progress of one process does not depend on more. Runs: 2 ids, 1 request, 1 item, `ReuseAs = {}`. Job: 1 process, 1 row of the store for 2 groups, so that the second cannot begin; 2 threads, budgets 1 and 2, a pool of 2. Page: `MaxStops = 2`, three generations, so that an answer can be two mountings late. |
| `manual_runs` | safety of runs | 2 process ids that die and come back as this app or as a foreign program, 2 requests, 2 items, refused writes: a run, its rival, and mixed endings. Symmetric in all three sets. |
| `manual_runs_queued` | a comment of `runJob` (expected violation) | 1 process, 1 request, 1 item |
| `shadow_pipeline` | ownership, double calls, what completed means; budget and stop of a job | 2 processes, 2 runs and 2 threads of up to 2 messages, in the two ways that `MCBounds` follows. `Rivals`: both processes, crashes and one thread that may grow, jobs of one group and budget 2: two owners in turn and at once, duplicates, growth during a run. `Grouped`: one job over two groups of two threads with budgets 1 and 2 and a pool of 2: calls overlap and the second group inherits what the first left. |
| `shadow_left` | a comment of `applyRun` (expected violation) | 1 process, 2 runs, `StoreFails` |
| `live_inbox` | bodies, cursors, removals and exact readings | 2 handlers, so that one reading or lookup overtakes or interrupts another, over one mailbox of 3 messages on pages of 1 that changes once, between any two calls; the second message has no date and the third arrives above it. `MCReads` starts a third reading only where all three are of one view: the first two are stored and the third meets them. |
| `live_inbox_offered` | a comment of `list` (expected violation) | as `live_inbox` |
| `desk` | decisions about reviews and work | Reviews: 2 versions, a lost answer, a reload; a new build and a clock set back come in different behaviours. Work: decisions about 2 of 3 copies by 2 handlers, pages of one copy, so that the journal grows between two pages of a list. |
| `page` | what the workbench shows and does; the campaign | Workbench: 2 messages of one thread (an arrival moves every row), pages of one row (an arrival pushes the open row off the first page), 3 readings (the loader's and two that overtake each other), 1 proposal, and `Effort` = 3 of readings, arrivals, saves, judgments and proposals together. Campaign: 3 messages in batches of 2 (a full batch, a short one, one sent again), 3 starts, 2 calls at once, 1 fault; `MCBounds` follows a behaviour to its first late answer, since both properties of the campaign end there. |
| `campaign_late` | a comment of the client (expected violation) | as the campaign, past late answers too |
| `page_uncertain` | two comments of the handling step (expected violation) | as the workbench |

Each bound stands in a guard, a constant or a constraint of the MC module: `MaxVersion` (arrivals),
`Time`, `MaxStops`, `Groups`, `Budget`, `PoolSize`, `MaxReads`, `MaxProposals`, `MaxStarts`, `MaxWire`, `MaxFaults`,
`Effort`, `MCBounds`, `MCReads`, and the finite sets. In the code the pool has 2 places, an approval lives five
minutes, the poll interval is ten seconds, a page of the work list has 50 copies and the scan behind
it reads 10 pages of 25; only their order relations matter.

`CHECK_DEADLOCK FALSE` is set where the modelled part really may stop: `progress` and
`manual_runs_queued` once the request has been used and no process id returns, `live_inbox`, `live_inbox_offered`,
`desk`, `page`, `campaign_late` and `page_uncertain` once nothing is underway and the
bounds are used up.

### What the runs show

- The Done path never sends a command for a message id while an earlier command's
  outcome is unknown (`NoBlindRetry`, `OneUnresolved`), sends only what was approved and
  not expired when claimed (`ApprovedAttempt`), and says "confirmed" only of a message
  seen in Archive after its command (`ConfirmedWasArchived`). The last is weaker than "is in
  Archive": another client may have moved it there or away again.
- After "uncertain" the message id stays locked for good, which is what the code means:
  an attempt that cannot be confirmed is never repeated automatically.
- `LockSpec`: seen through the journal alone, the program is a lock per message id whose
  holder sends one command and lets go only after sending it.
- Runs are exclusive and end once. The unconditional `finishManualRun` is safe only
  because a job in memory always still owns its active row (`JobOwnsRun`).
- `EndingAccounts` leaves out `failed` and `interrupted`: see the first finding.
- The pipeline never pays twice for a thread version and never exceeds a job's budget.
- The poller's timer is set exactly when a check is due.
- `OfferedStands`: a body is read only of a copy that a stored reading or search holds, or that a body read added since
  the newest reading began, having found it on its own page at some time. The page may have been listed before that reading
  began, and the set is not closed while a list reads: see the findings.
- `CursorContinues`, `QuietReadingIsExact`: a cursor of the newest list goes on where that
  list stood; and a reading during which nothing moved
  shows exactly what the mailboxes hold, as far as it says it read.
- `RemovedIsGone`: what an undisturbed refresh counts as removed has left its view, unless Spark lists a row above it that is dated
  earlier or not at all. The exception is the code's: the window of a bounded mailbox is compared by dates, and below a row without a date
  (the oldest of all, `live-inbox.server.ts:364`) a copy that a new row shifted out of the window is counted as removed although it is there. The test
  "does not call an older copy removed when a new row shifts it past a full window" (`live-inbox.server.test.ts:928`) covers rows dated in order.
  Without the exception TLC refutes the property with the dates of this run.
- `SavedIsStored`, `ReviewTakesEffect`, `DecisionsAnswered`: what a person is told is saved was stored, once and
  as decided, over lost answers and retries; and the review stored last decides its version, unless the clock
  was set back in between. A save told as failed gives up its id, although an earlier send taken for lost may
  still be stored: no property excludes this.
- `LoadedIsWhole`, `QuietListIsTrue`: a list loaded to its end names exactly the copies that had a decision when
  its first page was read, and in a mailbox that stood still the evidence beside it is true. In one that moves it may not be:
  a message marked unread between the two scans is in neither and is shown as not in the Inbox
  (`domain/open-work.ts:52` calls that proof).
- `CampaignTrue`, `NoBatchTwice`: until an answer is shown late, the campaign's progress is the sum
  of what its runs did and no message is selected by two of its runs, except those failed ones sent again. Calls may be lost, refused, served after the page
  gave them up and overtake one another; only what the page is shown late ends the promise. Three premises were
  found while proving them, and all are the code's:
  - `Behind`: the answer to a read or a stop sent before another batch was asked for shows an earlier run
    again, and the page takes it for the present one. `CountedOnce` is what breaks then: see the findings.
  - `Outrun`: `start` awaits the selection before it claims the run (`triage-runs.server.ts:164`), so that
    a start the page took for lost may be served after the same start, sent again, was refused (2 faults). The page has
    forgotten it by then and asks for the batch under a new id, so that two runs select it.
  - `inSight`: a campaign begun while the page keeps a run it could not read does not know which run came last.
    A start in doubt, a restore that is not answered, a refused start, a reset, a new campaign whose first start is refused and a
    reload (5 faults) let the new campaign count the old run. `CampaignTrue` speaks of campaigns begun with the kept run in sight.
- `ProofIsOfThisReading`, `DecisionTrue`, `SettledStays`, `NewestShown`: nothing the page calls proven was read
  under another reading, no panel shows an approval, a save or a Done that did not happen, an attempt told
  confirmed or uncertain is not made again while its row stays open, and no older scan or search replaces a newer one.

### Findings

1. `manual_runs_queued`: a run whose credentials are gone when its job begins, or whose
   store does not open a second time, is finished as failed with its items still queued,
   although `triage-runs.server.ts:313` says a finished run never leaves an item looking
   as if it may still start. (Interrupted runs keep queued items too; the property leaves
   them out.)
1. `shadow_left`: `pipeline.ts:253` says a run is never left running; a refused
   `linkShadowRun` or `finishRun` leaves the row running under a live process, and every
   later run is answered `run_in_progress` until that process ends.
1. `live_inbox_offered`: `live-inbox.server.ts:145` says nothing is offered while a list reads, and that a list that
   fails offers nothing. A body read awaits two provider calls and then adds its copy (line 188) to whatever set is current, so
   that an older list's copy is offered while a newer one reads, or after it failed. Its body is then read, of a copy that was on its page
   when Spark listed it.
1. `campaign_late`: `triage-run-client.ts:175` says the offset advances only once per completed run.
   The answer to an earlier read that comes after a later batch was started and counted shows the earlier run
   again, and since only the last run counted is remembered, it is counted a second time: messages are skipped.
1. `page_uncertain`: `ActionProposalAction.tsx:74` says a proposal is kept across a reading that lists the
   mailbox again, and `HandlingAction.tsx:134` that an uncertain attempt locks the decision. A refresh shows its
   first page before it reads the next: a row that is not on it loses its panel, and comes back with the
   next page unlocked. The server's journal still refuses a second attempt.

### Fairness

- `DoneAction`: weak fairness of each process's next step. Every provider call ends within
  its 15 second timeout and every store call is synchronous. Nothing is assumed of Spark's
  landing a command, of people or of the clock, and a crash ends the obligation.
- `ManualRuns`: weak fairness of a live job and of a stop begun; strong fairness of reading a
  run that exists, because the page polls it and an event loop that is free again and again
  serves the request. `RunEnds` excuses the case that no server is left.
- `ShadowPipeline`: weak fairness of a job's next step: Spark and Jev calls time out.
- `Reconnect`: a set timer fires, a probe is answered or times out on the server, a read of
  the inbox ends. No fairness on the user or the page.
- The other modules state no fairness: what they promise is safety, and whether a person reads
  on, saves or presses again is nobody's obligation.

## 4. Proofs

The theorems hold for every value of the constants under the named assumptions
of their modules (`DoneActionAssumption` and so on), which give the constants their
types; in `OpenWork` that the journal the model starts from is one the code can have written; in
`TriageRunClient` that `Nil` is none of the values it stands beside.

**DoneActionProofs.** The inductive invariant `IInv` adds to the properties: `Serving` (a busy
process has a job of the kind its place implies), `Owned` (an attempt owns its pending
row and shares its key with no other), `Progress` (its place determines how often its
key was used and what it saw), `Sent` (a key sends at most once and under a row, and the
Archive history misses nothing) and `Told` (an answered attempt is over). `OneUnresolved`
alone is not inductive: that `MarkUncertain` may keep the lock rests on `Owned`, and
`HonestAnswer` on `Told`. From `IInv` follow `TypeCorrect`, `OneUnresolvedHolds`,
`ApprovedAttemptHolds`, `ConfirmedWasArchivedHolds`, `HonestAnswerHolds`, the action
properties `NoBlindRetryHolds` and `JournalFinalHolds`, and `ImplementsLock`: each step
is a step of the abstract lock or leaves it alone.

**ManualRunsProofs.** `IInv` adds `Listed` (a run's items are written with its row) and
`SettledJob` (between a job's last read and its finish the items already agree with the
verdict). `JobOwnsRun` carries `FinalIsFinal`: only an owner of an active row writes an
ending, and every other writer checks for an active row first.

**ShadowPipelineProofs.** Three arguments meet in `IInv`. *Ownership*: `WorkIsOwned` with
`Places` (what each place of the code implies) gives that only one process works, so
whatever changes in a run is changed by its owner (lemmas `Movers`, `Alone`, `Busy`).
*Coverage*: `CompletedCovers` needs an account of every message on the way. `Unlisted` and
`OpenListed` say that a listed message is held in exactly one place of the code;
`CallsCover` that a call's version covers all the run listed of its thread, because the
listing came before the read; and `Accounted` that an outcome tells the truth, including
"duplicate", which relies on another message's call and is safe because a thread seen
ends classified or leaves a failure that keeps the run from being completed (`SeenSettled`).
*Budget*: `Budgeted` equates the calls paid with those charged to earlier groups, those in
flight and those counted, by cardinality, and bounds the calls begun by what was left.
`Sequenced` (calls in flight are for different threads) gives `NoDoubleCallHolds`.

**ReconnectProofs.** `IInv` adds `Fresh`: no generation to come has a request and an unmounted
page shows none, which is what lets a new mounting start clean.

**PagesProofs.** `PageReaches`: when the pages up to one that is not full were read of a list that stood still,
every message was on one of them. It rests on ranks: the messages newer than one are fewer than those newer than an older one, so that
each rank below a taken one is taken. `Least` gives least elements of sets of numbers, by which the proofs below
argue where they would use induction.

**LiveInboxProofs.** For `OfferedStands` the invariant `IInv` says of every operation on the way what it
holds: that the copies it has collected are those its settling will store, and that whatever is offered
was listed by a reading not overtaken or added by a lookup, which has no number among the readings (`Numbered`). For `CursorContinues` it relates the cursor of every stored
reading, and of every search grown from it, to the place that reading reached; a search reads
on from a list without moving the list's own cursor. `Exact` is the invariant behind the other two: what the pages of a
reading, stored or on its way, stand for. A progress that failed or saw a move says nothing; any other holds
the pages before its next one as they are now, and is not bounded only after a short page, so that by `PageReaches` it holds
the view (`ProgressSound`). `RemovedIsGone` needs it of the refreshed reading, whose pages hold the
first rows of its view: a copy of the window before that is dated after one of them and still in the view stands below all of them, so that
the row dated before it is the exception the property names.

**DeskProofs.** `ReviewsIInv` rests on one fact: a request id has one content wherever it is (in the
panel, in tab storage, in a call, in the journal), so that an answer about an id is an answer about what
was decided. For `ReviewTakesEffect` it adds that the times of the reviews of a version follow their order
where the clock was not set back (`Clocked`). The proof covers a new build and a clock set back together,
which the run takes one at a time.
`WorkIInv` numbers the rows of the journal by their ids and gives every
request remembered the row it stands for; a reopening names a row before it about the same copy.
`DecisionsAnswered` is what a page reads off it. `QuietIInv` says what a scan on its way has seen: the pages before its next one, with the
place of every copy on them, if nothing moved (`ScanTrue`); a view is called whole only after a short page, and then `PageReaches` says
that a copy not seen is not there. `WholeIInv` is about two moments of the journal: the rows of the snapshot a cursor names are a prefix of the
rows now, the last decision of a copy within that prefix does not change, and so the copies
after the cursor are those the pages before did not show (`Rest`, `SectionWhole`).

**PageProofs, the workbench.** `DecisionTrue` is not inductive: the answer to an approval overwrites the proposal held
with that of the button press. `AskedIsHeld` says they are the same while the server is asked, because
neither a decision nor its change is possible then; `SavedFirst` that a reply being saved meets no
decision. `ReadsPanel` shows once that no reading, search, arrival or body touches a panel except by opening
another row, and `SettledKept` follows step by step. `ShownIInv` gives the other two: every reading shown and every page asked for carries a number
not beyond `sequence`, and a page still to come of the newest scan is newer than what is shown (`CallsInOrder`, `AllPast`), which gives `NewestShown`; and
a reading tells of each row the version of its moment, while a body tells of its row a version at least that of the reading it was
asked for under, which is what `ProofIsOfThisReading` compares.

**PageProofs, the campaign.** `CampaignIInv` says that `CampaignSound` holds while `inOrder` does. Nothing is assumed of the order of calls: a call on the
wire promises something of its answer only while it is `Timely` (nobody gave it up and no batch was asked for since), and the others promise only that
showing them ends `inOrder`. The invariant holds between steps and inside them: one answer is shown, counted and followed by the
next request in one step of the code, so its parts take the state as parameters and each part of the step keeps them. Its
argument: a start that is out or in doubt is the last request made (`PageFits`, `CallFits`), so
that a run the plan does not know of can only be that one; the run the page keeps is the last one
counted or the next to be counted (`PlanFits`), which is why comparing with the last one suffices; what the
counted runs selected lies behind the plan's offset or waits in its queue, and a message is in two selections only as a retry of a failed read
(`WorkFits`); and the plan's figures are those of the counted runs (`FiguresFit`). `CountFigures`, `CountWork` and `CountPlan` show that counting a run
keeps these, from lemmas on sums over a set of runs (`SpentAdd`), on the n-th failed row of a run (`NthPlaces`) and on the
queue of failed reads (`QueueTail`, `QueueTurned`); `FreshKeeps` and `TakeKeeps` that asking for the next batch and restoring a run do.

**Only model-checked.** Liveness (`DoneAnswered`, `RunEnds`, `JobEnds`, `KeepsChecking`): fairness and ENABLED are
out of the prover's reach. Every safety and action property of a passing run is proved. Induction theorems that take an operator are out of
reach too; sums, ranks and pages are argued by a least counterexample instead.

**Only proved.** The type invariants of `ManualRuns`, `ShadowPipeline` and `Reconnect`,
`LateAnswersIgnored` of `Reconnect` and the inductive invariants are proved and no run repeats them.

## 5. What could follow

- A second check of a review under the same attempt (`ReviewAction.tsx:246`): `Reviews` reaches it, no
  property speaks of it.
- The two dead ends of the run control (`TriageRunControl.tsx:476`), which no document promises to exclude.
- What still holds of a campaign's figures after a late answer was shown.
- The restart command of the run client, once a control calls it.

## 6. Not modelled, and why

Inbox Zero coverage (`app/inbox-coverage.ts`, `app/inbox-coverage-adapter.ts`): pure helpers that combine two scans. No code of
the program gives them a scan's start and result: tests and stories do, the route takes only a start time (`routes/index.tsx:23`) and always asks for the
view `all`. A model of two scans wired to them would be a composition that the program does not contain.

The map covers about an eighth of the implementation's lines. Most of the rest is stories, rendering, styles and copy
of the components, text of the command lines, parsing and reports, which keep no state.

- Parsing of Spark's text output, process plumbing and the vendor's Jev client: text and
  network. The modules use their contract: an answer, an error, or a timeout.
- The release and evaluation commands: sequential computations over files.
- The shadow database's migrations: they rest on how SQLite locks a file whose schema changes.
- The shared readiness probe: every answer it gives is a true one of its moment.
- Thresholds of the policy, attention groups and the queue's filters: pure and short; they have unit tests over their cases.
- The dry run of the pipeline: it changes nothing.
- A message that arrives after preflight and before Spark acts is archived unseen; the
  source states that it accepts this (`mark-as-done.ts:185`), and no property excludes it.
