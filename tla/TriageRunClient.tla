--------------------------- MODULE TriageRunClient ---------------------------
(* The page's controller of Jev runs (src/src/app/triage-run-client.ts) with   *)
(* the buttons that drive it (src/src/components/molecules/TriageRunControl/   *)
(* TriageRunControl.tsx): a campaign goes through a worklist in batches, one   *)
(* run each, over calls that may be lost and a page that may be reloaded. The  *)
(* server is seen through what a start, a read and a stop of a run answer.     *)
EXTENDS Integers, Sequences, FiniteSets, SequencesExt

CONSTANTS
  Size,         \* messages of the worklist
  BatchSize,    \* messages and Jev calls one run may have (100)
  Fate,      \* what may become of a message: "classified", "current", "unread" or "other"
  Allowed,      \* the Jev calls a person allows a campaign
  MaxStarts,    \* bound: start requests
  MaxWire,      \* bound: calls on the wire
  MaxFaults,    \* bound: calls lost or refused, and reloads
  Nil

Status == {"running", "stopping", "completed", "partial", "stopped"}
Row == [status : Status, items : Seq(Fate), calls : Nat]
Plan == [total : {Size}, offset : Nat, calls : Nat, maxCalls : Nat, unread : Int, other : Nat,
         retry : Seq(Nat), retrying : BOOLEAN, last : Nat \union {Nil}]
Snapshot == [id : Nat, status : Status]

ASSUME TriageRunClientAssumption ==
  /\ {Size, BatchSize} \subseteq Nat \ {0}
  /\ Fate \subseteq {"classified", "current", "unread", "other"} /\ Fate # {}
  /\ Allowed \subseteq 1..Size
  /\ {MaxStarts, MaxWire, MaxFaults} \subseteq Nat
  /\ Nil \notin Nat \union Row \union Plan \union Snapshot

VARIABLES
  rows,         \* external: the run each request id made
  wire,         \* calls sent and answers under way
  page,         \* the controller's state: phase, run shown, pending start, plan
  kept,         \* browser storage: the run and the pending start
  campaign,     \* browser storage: the plan
  issued,       \* what each request id asked for, in the order they were made
  history,      \* the requests made before this campaign, the runs its plan counted, and
                \* whether the page showed the run it keeps when the campaign began
  inOrder,      \* history: no answer shown so far was late (Behind, Outrun)
  faults        \* calls lost or refused, and reloads, so far

clientVars == <<rows, wire, page, kept, campaign, issued, history, inOrder, faults>>

ActiveRun == {"running", "stopping"}
Settleable == {"completed", "partial"}

Lesser(a, b) == IF a < b THEN a ELSE b
EndedAs(items, kind) == {i \in DOMAIN items : items[i] = kind}

-----------------------------------------------------------------------------
(* The plan of a campaign, as far as it decides anything.                      *)

NewPlan(calls, last) ==
  [total |-> Size, offset |-> 0, calls |-> 0, maxCalls |-> calls, unread |-> 0, other |-> 0,
   retry |-> <<>>, retrying |-> FALSE, last |-> last]

(* One batch: what is left of the worklist, or one message whose read failed. *)
BatchRequest(plan) ==
  [offset |-> IF plan.retrying THEN Head(plan.retry) ELSE plan.offset,
   messages |-> IF plan.retrying THEN 1 ELSE Lesser(BatchSize, plan.total - plan.offset),
   limit |-> Lesser(BatchSize, plan.maxCalls - plan.calls),
   retrying |-> plan.retrying]

Nth(places, j) == CHOOSE i \in places : Cardinality({k \in places : k <= i}) = j

(* What a settled run adds to its campaign. *)
CountRunItems(plan, r) ==
  LET items   == rows[r].items
      failing == EndedAs(items, "unread")
      missed  == [j \in 1..Cardinality(failing) |-> plan.offset + Nth(failing, j) - 1]
      retry   == IF ~plan.retrying THEN plan.retry \o missed
                 ELSE Tail(plan.retry) \o IF failing = {} THEN <<>> ELSE <<Head(plan.retry)>>
  IN [plan EXCEPT
        !.offset   = IF plan.retrying THEN @ ELSE @ + Len(items),
        !.calls    = @ + rows[r].calls,
        !.unread   = IF ~plan.retrying THEN @ + Cardinality(failing)
                     ELSE IF failing = {} THEN @ - 1 ELSE @,
        !.other    = @ + Cardinality(EndedAs(items, "other")),
        !.retry    = retry,
        !.retrying = @ /\ retry # <<>>,
        !.last     = r]

HasWork(plan) == plan.offset < plan.total \/ plan.retry # <<>>
Remaining(plan) == HasWork(plan) /\ plan.calls < plan.maxCalls

(* A run that completed without other failures may be followed by the next. *)
Continues(plan, r) == rows[r].status = "completed" /\ plan.other = 0

Progress(plan, r) ==
  IF Remaining(plan) THEN IF Continues(plan, r) THEN "running" ELSE "paused"
  ELSE IF plan.offset = plan.total /\ plan.unread = 0 /\ plan.other = 0 THEN "completed" ELSE "paused"

-----------------------------------------------------------------------------
(* Sending. Every call belongs to the page that sent it; `gone` is a call that *)
(* nobody waits for. `after` counts the requests made before it was sent.      *)

OnWire(kind, r, p) ==
  [kind |-> kind, run |-> r, before |-> p.run, from |-> p.runId, phase |-> "sent",
   answer |-> Nil, gone |-> FALSE, after |-> Len(issued)]

Keep(run, pending) == kept' = [run |-> run, pending |-> pending]

(* The start is kept only once it is answered. *)
ExecuteBroken(p, r, others) ==
  /\ Cardinality(others) < MaxWire
  /\ Keep(p.runId, Nil)
  /\ page' = [p EXCEPT !.phase = "starting", !.pending = r]
  /\ wire' = others \union {OnWire("start", r, p)}

(* A start is kept before it is sent. *)
Execute(p, r, others) ==
  /\ Cardinality(others) < MaxWire
  /\ Keep(p.runId, r)
  /\ page' = [p EXCEPT !.phase = "starting", !.pending = r]
  /\ wire' = others \union {OnWire("start", r, p)}

ExecuteFresh(p, others) ==
  LET r == Len(issued) + 1
  IN /\ r <= MaxStarts
     /\ issued' = Append(issued, BatchRequest(p.plan))
     /\ Execute(p, r, others)

(* A run is counted whenever it is shown settled. *)
UncountedBroken(p) ==
  p.plan # Nil /\ p.phase = "run" /\ p.run # Nil /\ p.run.status \notin ActiveRun

(* A run is counted when it is shown settled and was not the last one counted. *)
Uncounted(p) ==
  p.plan # Nil /\ p.phase = "run" /\ p.run # Nil /\ p.run.status \notin ActiveRun
  /\ p.plan.last # p.run.id

(* The state the page takes, with what the campaign does about it: an outcome  *)
(* in doubt pauses it, and a settled run is counted and followed by the next   *)
(* batch when it may be. `run` and `pending` are what storage keeps.           *)
Take(p, run, pending, others) ==
  LET plan == CountRunItems(p.plan, p.run.id)
      next == [p EXCEPT !.plan = plan]
  IN CASE p.plan # Nil /\ p.phase \in {"uncertain", "unavailable", "blocked", "absent"} ->
            /\ page' = [p EXCEPT !.auto = FALSE, !.shown = "paused"]
            /\ Keep(run, pending) /\ wire' = others
            /\ UNCHANGED <<campaign, issued, history>>
       [] Uncounted(p) /\ p.run.status \in Settleable ->
            /\ campaign' = plan
            /\ history' = [history EXCEPT !.counted = Append(@, p.run.id)]
            /\ IF p.auto /\ Remaining(plan) /\ Continues(plan, p.run.id)
               THEN ExecuteFresh([next EXCEPT !.shown = "running"], others)
               ELSE /\ page' = [next EXCEPT !.shown = IF p.auto THEN Progress(plan, p.run.id) ELSE "paused",
                                            !.auto = FALSE]
                    /\ Keep(run, pending) /\ wire' = others /\ UNCHANGED issued
       [] Uncounted(p) /\ p.run.status \notin Settleable ->
            /\ page' = [p EXCEPT !.auto = FALSE, !.shown = "paused"]
            /\ campaign' = p.plan
            /\ Keep(run, pending) /\ wire' = others /\ UNCHANGED <<issued, history>>
       [] OTHER ->
            /\ page' = p /\ Keep(run, pending) /\ wire' = others
            /\ UNCHANGED <<campaign, issued, history>>

(* The page is told of a run: nothing is pending any more. *)
ShowRun(snapshot, others) ==
  Take([page EXCEPT !.phase = "run", !.run = snapshot, !.runId = snapshot.id, !.pending = Nil],
       snapshot.id, Nil, others)

ShowPhase(phase, before, id, pending, others) ==
  Take([page EXCEPT !.phase = phase, !.run = before, !.runId = id, !.pending = pending],
       kept.run, kept.pending, others)

-----------------------------------------------------------------------------
(* What the page offers.                                                       *)

Busy == page.phase \in {"starting", "reading", "stopping"}
ShowsActive == page.run # Nil /\ page.run.status \in ActiveRun
Uncertain == page.phase = "uncertain" /\ page.pending # Nil
InDoubt == page.phase \in {"absent", "unavailable"}
SafetyOnly == Uncertain \/ InDoubt \/ ShowsActive
UnsafeBlock == page.phase = "blocked" /\ page.reason = "run_in_progress"

MayContinue ==
  /\ ~SafetyOnly /\ page.plan # Nil /\ page.shown = "paused"
  /\ page.phase = "run" /\ page.run # Nil /\ page.run.status \in Settleable
  /\ page.plan.other = 0 /\ Remaining(page.plan)

MayReset ==
  /\ page.plan # Nil /\ ~MayContinue
  /\ \/ page.phase = "absent"
     \/ ~SafetyOnly /\ page.phase = "blocked" /\ ~UnsafeBlock
     \/ /\ ~SafetyOnly /\ page.phase = "run"
        /\ \/ page.shown = "completed" \/ page.plan.calls >= page.plan.maxCalls
           \/ ~HasWork(page.plan)
           \/ page.run # Nil /\ page.run.status = "stopped"

MayRead ==
  /\ ~Busy /\ ~Uncertain
  /\ InDoubt \/ (~SafetyOnly /\ ~MayContinue /\ ~MayReset /\ page.run # Nil)

MayStart ==
  /\ page.plan = Nil /\ ~Busy /\ ~ShowsActive /\ ~Uncertain /\ ~UnsafeBlock
  /\ page.phase # "unavailable"

-----------------------------------------------------------------------------
(* What a person does.                                                         *)

StartCampaign(calls) ==
  LET plan == NewPlan(calls, IF page.run = Nil THEN Nil ELSE page.run.id)
  IN /\ MayStart
     /\ campaign' = plan
     /\ history' = [before |-> Len(issued), counted |-> <<>>,
                    inSight |-> page.runId = Nil \/ page.run # Nil]
     /\ ExecuteFresh([page EXCEPT !.plan = plan, !.auto = TRUE, !.shown = "running"], wire)
     /\ UNCHANGED <<rows, inOrder, faults>>

(* Failed reads are tried again one by one before the worklist goes on. *)
ContinueWith(plan) ==
  LET next == [plan EXCEPT !.retrying = plan.retry # <<>>]
  IN /\ campaign' = next
     /\ ExecuteFresh([page EXCEPT !.plan = next, !.auto = TRUE, !.shown = "running"], wire)
     /\ UNCHANGED <<rows, history, inOrder, faults>>

ContinueBatch == MayContinue /\ ContinueWith(page.plan)

SkipFailedAndContinue ==
  /\ MayContinue /\ page.plan.retry # <<>> /\ page.plan.offset < page.plan.total
  /\ ContinueWith([page.plan EXCEPT !.retry = <<>>, !.retrying = FALSE])

ResetCampaign ==
  /\ MayReset
  /\ page' = [page EXCEPT !.plan = Nil, !.auto = FALSE, !.shown = Nil]
  /\ campaign' = Nil
  /\ UNCHANGED <<rows, wire, kept, issued, history, inOrder, faults>>

(* The pending start is sent again under its own id. *)
Resume ==
  /\ Uncertain
  /\ Execute(page, page.pending, wire)
  /\ UNCHANGED <<rows, campaign, issued, history, inOrder, faults>>

ReadRun ==
  /\ MayRead /\ page.runId # Nil /\ page.pending = Nil
  /\ Cardinality(wire) < MaxWire
  /\ page' = [page EXCEPT !.phase = "reading"]
  /\ wire' = wire \union {OnWire("read", page.runId, page)}
  /\ UNCHANGED <<rows, kept, campaign, issued, history, inOrder, faults>>

(* An active run is read every second, again when the page is drawn anew. *)
Poll ==
  /\ page.phase = "run" /\ ShowsActive /\ page.pending = Nil
  /\ Cardinality(wire) < MaxWire
  /\ wire' = wire \union {OnWire("read", page.run.id, page)}
  /\ UNCHANGED <<rows, page, kept, campaign, issued, history, inOrder, faults>>

StopBatch ==
  /\ ~Busy /\ ~Uncertain /\ ~InDoubt /\ ShowsActive /\ page.run.status # "stopping"
  /\ Cardinality(wire) < MaxWire
  /\ page' = [page EXCEPT !.phase = "stopping", !.runId = page.run.id, !.pending = Nil, !.auto = FALSE,
                          !.shown = IF @ = Nil THEN @ ELSE "paused"]
  /\ wire' = wire \union {OnWire("stop", page.run.id, page)}
  /\ UNCHANGED <<rows, kept, campaign, issued, history, inOrder, faults>>

(* The page is loaded again: it takes the plan and the run from storage, reads *)
(* the run, and never sends a start by itself. Starts and stops already sent   *)
(* may still be served.                                                        *)
ReloadPage ==
  LET served == {[c EXCEPT !.gone = TRUE] : c \in {d \in wire : d.kind \in {"start", "stop"} /\ d.phase = "sent"}}
      fresh(phase) == [phase |-> phase, run |-> Nil, runId |-> kept.run, pending |-> kept.pending,
                       reason |-> Nil, auto |-> FALSE, plan |-> campaign,
                       shown |-> IF campaign = Nil THEN Nil ELSE "paused"]
  IN /\ faults < MaxFaults /\ faults' = faults + 1
     /\ \/ /\ kept.run = Nil
           /\ page' = fresh(IF kept.pending = Nil THEN "idle" ELSE "uncertain")
           /\ wire' = served
        \/ /\ kept.run # Nil
           /\ page' = fresh("reading")
           /\ wire' = served \union {OnWire("restore", kept.run, fresh("reading"))}
     /\ UNCHANGED <<rows, kept, campaign, issued, history, inOrder>>

-----------------------------------------------------------------------------
(* The server. A known id answers with the run it made, and one run is active. *)

Found(r) == [is |-> "found", run |-> [id |-> r, status |-> rows'[r].status]]
Said(what) == [is |-> what, run |-> Nil]

Reply(c, answer) == wire' = (wire \ {c}) \union IF c.gone THEN {} ELSE {[c EXCEPT !.phase = "back", !.answer = answer]}

OtherActive(r) == \E q \in DOMAIN rows : q # r /\ rows[q] # Nil /\ rows[q].status \in ActiveRun

ServeStart(c) ==
  /\ c.kind = "start" /\ c.phase = "sent"
  /\ \/ rows[c.run] # Nil /\ UNCHANGED <<rows, faults>> /\ Reply(c, Found(c.run))
     \/ /\ rows[c.run] = Nil /\ OtherActive(c.run)
        /\ UNCHANGED <<rows, faults>> /\ Reply(c, Said("run_in_progress"))
     \/ /\ rows[c.run] = Nil /\ ~OtherActive(c.run) /\ faults < MaxFaults
        /\ faults' = faults + 1
        /\ UNCHANGED rows /\ Reply(c, Said("stale_worklist"))
     \/ /\ rows[c.run] = Nil /\ ~OtherActive(c.run)
        /\ rows' = [rows EXCEPT ![c.run] = [status |-> "running", items |-> <<>>, calls |-> 0]]
        /\ UNCHANGED faults /\ Reply(c, Found(c.run))
  /\ UNCHANGED <<page, kept, campaign, issued, history, inOrder>>

ServeRead(c) ==
  /\ c.kind \in {"read", "restore"} /\ c.phase = "sent"
  /\ UNCHANGED rows
  /\ \/ Reply(c, Found(c.run)) /\ UNCHANGED faults
     \/ /\ faults < MaxFaults /\ faults' = faults + 1
        /\ \E answer \in {"absent", "unavailable"} : Reply(c, Said(answer))
  /\ UNCHANGED <<page, kept, campaign, issued, history, inOrder>>

ServeStop(c) ==
  /\ c.kind = "stop" /\ c.phase = "sent"
  /\ rows' = IF rows[c.run].status = "running" THEN [rows EXCEPT ![c.run].status = "stopping"] ELSE rows
  /\ Reply(c, Found(c.run))
  /\ UNCHANGED <<page, kept, campaign, issued, history, inOrder, faults>>

(* A run ends: each message it selected has an outcome, within its calls; or   *)
(* it was stopped, interrupted or failed, whatever it had done by then.        *)
EndRun(r) ==
  /\ rows[r] # Nil /\ rows[r].status \in ActiveRun
  /\ \/ /\ rows[r].status = "running"
        /\ \E items \in [1..issued[r].messages -> Fate] :
             LET calls == Cardinality(EndedAs(items, "classified"))
                 some(kind) == EndedAs(items, kind) # {}
             IN /\ calls <= issued[r].limit
                /\ \E status \in IF some("unread") THEN {"partial"}
                                 ELSE IF some("other") THEN {"partial", "completed"} ELSE {"completed"} :
                     rows' = [rows EXCEPT ![r] = [status |-> status, items |-> items, calls |-> calls]]
     \/ \E calls \in 0..issued[r].limit :
          rows' = [rows EXCEPT ![r] = [status |-> "stopped", items |-> <<>>, calls |-> calls]]
  /\ UNCHANGED <<wire, page, kept, campaign, issued, history, inOrder, faults>>

-----------------------------------------------------------------------------
(* Answers.                                                                    *)

(* A read or a stop is behind when a batch was asked for after it was sent.    *)
Behind(c, is) == c.kind \in {"read", "stop"} /\ c.after < Len(is)

(* A refusal is outrun when an earlier sending of the same start, taken for    *)
(* lost, made its run or still may.                                            *)
Outrun(c) ==
  /\ c.answer.is # "found"
  /\ rows[c.run] # Nil \/ \E d \in wire : d.kind = "start" /\ d.gone /\ d.run = c.run

(* History only: the page cannot tell a late answer from any other.            *)
Heard(late) == inOrder' = (inOrder /\ ~late)

StartAnswered(c) ==
  LET others == wire \ {c}
  IN /\ c.kind = "start" /\ c.phase = "back"
     /\ IF c.answer.is = "found" THEN ShowRun(c.answer.run, others)
        ELSE Take([page EXCEPT !.phase = "blocked", !.run = c.before, !.runId = c.from,
                               !.pending = Nil, !.reason = c.answer.is], c.from, Nil, others)
     /\ Heard(Outrun(c)) /\ UNCHANGED <<rows, faults>>

ReadAnswered(c) ==
  /\ c.kind = "read" /\ c.phase = "back"
  /\ IF c.answer.is = "found" THEN ShowRun(c.answer.run, wire \ {c})
     ELSE ShowPhase(c.answer.is, c.before, c.run, Nil, wire \ {c})
  /\ Heard(Behind(c, issued)) /\ UNCHANGED <<rows, faults>>

(* The reading of a page just loaded changes no storage. *)
RestoreAnswered(c) ==
  /\ c.kind = "restore" /\ c.phase = "back"
  /\ Take([page EXCEPT !.phase = IF page.pending # Nil THEN "uncertain"
                                 ELSE IF c.answer.is = "found" THEN "run" ELSE c.answer.is,
                       !.run = c.answer.run], kept.run, kept.pending, wire \ {c})
  /\ UNCHANGED <<rows, inOrder, faults>>

StopAnswered(c) ==
  /\ c.kind = "stop" /\ c.phase = "back"
  /\ ShowRun(c.answer.run, wire \ {c})
  /\ Heard(Behind(c, issued)) /\ UNCHANGED <<rows, faults>>

(* A call fails for the page. A start or a stop may have been served before,   *)
(* or may be served later.                                                     *)
CallLost(c) ==
  LET late   == {{}} \union IF c.phase = "sent" /\ c.kind \in {"start", "stop"}
                           THEN {{[c EXCEPT !.gone = TRUE]}} ELSE {}
  IN /\ ~c.gone /\ faults < MaxFaults /\ faults' = faults + 1 /\ Heard(Behind(c, issued))
     /\ \E rest \in late :
          LET others == (wire \ {c}) \union rest
          IN CASE c.kind = "start"   -> ShowPhase("uncertain", c.before, c.from, c.run, others)
               [] c.kind = "restore" -> ShowPhase(IF page.pending # Nil THEN "uncertain" ELSE "unavailable",
                                                  Nil, page.runId, page.pending, others)
               [] OTHER              -> ShowPhase("unavailable", c.before, c.run, Nil, others)
     /\ UNCHANGED rows

-----------------------------------------------------------------------------
ClientInit ==
  /\ rows = [r \in 1..MaxStarts |-> Nil]
  /\ wire = {} /\ issued = <<>> /\ inOrder = TRUE /\ faults = 0
  /\ history = [before |-> 0, counted |-> <<>>, inSight |-> TRUE]
  /\ page = [phase |-> "idle", run |-> Nil, runId |-> Nil, pending |-> Nil, reason |-> Nil,
             auto |-> FALSE, plan |-> Nil, shown |-> Nil]
  /\ kept = [run |-> Nil, pending |-> Nil]
  /\ campaign = Nil

ClientNext ==
  \/ \E calls \in Allowed : StartCampaign(calls)
  \/ ContinueBatch \/ SkipFailedAndContinue \/ ResetCampaign \/ Resume
  \/ ReadRun \/ Poll \/ StopBatch \/ ReloadPage
  \/ \E c \in wire : \/ ServeStart(c) \/ ServeRead(c) \/ ServeStop(c)
                     \/ StartAnswered(c) \/ ReadAnswered(c) \/ RestoreAnswered(c) \/ StopAnswered(c)
                     \/ CallLost(c)
  \/ \E r \in DOMAIN rows : EndRun(r)

ClientSpec == ClientInit /\ [][ClientNext]_clientVars

-----------------------------------------------------------------------------
Campaigns == {r \in DOMAIN issued : r > history.before /\ rows[r] # Nil}
CountedRuns == ToSet(history.counted)

(* What a run was asked for, what it could not read and what it classified. *)
Selects(r, is) == is[r].offset .. is[r].offset + is[r].messages - 1
EndsAs(r, m, fates, rw, is) ==
  \E i \in DOMAIN rw[r].items : m = is[r].offset + i - 1 /\ rw[r].items[i] \in fates
Unread(r, m, rw, is) == EndsAs(r, m, {"unread"}, rw, is)
Covers(r, m, rw, is) == EndsAs(r, m, {"classified", "current"}, rw, is)

Total(f, n) == LET upTo[i \in 0..n] == IF i = 0 THEN 0 ELSE upTo[i - 1] + f[i] IN upTo[n]
SpentBy(rw, runs) ==
  Total([r \in 1..MaxStarts |-> IF r \in runs THEN rw[r].calls ELSE 0], MaxStarts)
Spent(runs) == SpentBy(rows, runs)

(* "Advance only once per completed durable run": a campaign counts no run a   *)
(* second time, whatever is read again. The code does not keep this when the   *)
(* answer to a read or a stop arrives after a later run has been counted: the  *)
(* plan remembers only the last one.                                           *)
CountedOnce == page.plan # Nil => IsInjective(history.counted)

(* The progress of a campaign is what its runs did. It is told from runs of    *)
(* its own, each once; all the calls its runs made, counted or not, stay       *)
(* within what the person allowed; and a campaign shown as completed has       *)
(* classified every message of the worklist, or found it current. It holds     *)
(* until an answer is shown late (CountedOnce is what breaks then), and of a   *)
(* page that showed the run it keeps when the campaign began: a plan made      *)
(* without it does not know which run came last and may count that one.        *)
CampaignTrue ==
  inOrder /\ page.plan # Nil /\ history.inSight =>
    /\ CountedOnce /\ CountedRuns \subseteq Campaigns
    /\ page.plan.calls = Spent(CountedRuns)
    /\ Spent(Campaigns) <= page.plan.maxCalls
    /\ page.shown = "completed" =>
         \A m \in 0..page.plan.total - 1 : \E r \in CountedRuns : Covers(r, m, rows, issued)

(* No two runs of a campaign are made for the same message, whatever was lost, *)
(* answered twice or reloaded in between and whatever is still under way,      *)
(* unless the first could not read it and the second tries it again. It holds  *)
(* until an answer is shown late: a refused start whose earlier sending is     *)
(* served after it makes a run the page does not know of.                      *)
NoBatchTwice ==
  inOrder /\ page.plan # Nil =>
    \A q, r \in Campaigns : \A m \in Selects(q, issued) \cap Selects(r, issued) :
      q < r => issued[r].retrying /\ Unread(q, m, rows, issued)

-----------------------------------------------------------------------------
(* The invariant behind CampaignTrue and NoBatchTwice until an answer is shown *)
(* late. Its parts take the state as parameters: they are kept step by step *)
(* within one action, when an answer is shown, counted and followed.           *)

Phase == {"idle", "starting", "reading", "stopping", "run", "uncertain", "blocked", "absent",
          "unavailable"}
Run == 1..MaxStarts
Request == [offset : Nat, messages : Int, limit : Int, retrying : BOOLEAN]
Answer == [is : {"found", "absent", "unavailable", "run_in_progress", "stale_worklist"},
           run : Snapshot \union {Nil}]
Call == [kind : {"start", "read", "restore", "stop"}, run : Run, before : Snapshot \union {Nil},
         from : Run \union {Nil}, phase : {"sent", "back"}, answer : Answer \union {Nil}, gone : BOOLEAN,
         after : Nat]

Controller == [phase : Phase, run : Snapshot \union {Nil}, runId : Run \union {Nil}, pending : Run \union {Nil},
               reason : {Nil, "found", "absent", "unavailable", "run_in_progress", "stale_worklist"},
               auto : BOOLEAN, plan : Plan \union {Nil}, shown : {Nil, "running", "paused", "completed"}]
History == [before : Nat, counted : Seq(Run), inSight : BOOLEAN]

(* The shape of the state; storage keeps the run and the pending start shown. *)
ClientTyped(rw, wr, pg, kp, is, hs) ==
  /\ rw \in [Run -> Row \union {Nil}] /\ wr \subseteq Call /\ pg \in Controller
  /\ kp = [run |-> pg.runId, pending |-> pg.pending]
  /\ is \in Seq(Request) /\ Len(is) <= MaxStarts
  /\ hs \in History

(* A run is made from its request, and a settled one accounts for it. *)
RowFits(row, request) ==
  /\ row.calls <= request.limit \/ row.calls = 0
  /\ row.status \in ActiveRun => row.items = <<>> /\ row.calls = 0
  /\ row.status \in Settleable => DOMAIN row.items = 1..request.messages
  /\ row.status = "completed" => EndedAs(row.items, "unread") = {}

RowsFit(rw, is) ==
  \A r \in Run : rw[r] # Nil => r <= Len(is) /\ RowFits(rw[r], is[r])

(* What was read of a run stays so once it has settled. *)
SnapshotTrue(snapshot, r, rw) ==
  snapshot # Nil => /\ snapshot.id = r /\ rw[r] # Nil
                    /\ snapshot.status \notin ActiveRun => rw[r].status = snapshot.status

(* The page shows the run it keeps, and has a start pending only while it is   *)
(* sent or in doubt.                                                           *)
PageFits(rw, pg, is) ==
  /\ pg.runId # Nil => rw[pg.runId] # Nil
  /\ SnapshotTrue(pg.run, pg.runId, rw)
  /\ pg.pending # Nil => /\ pg.phase \in {"starting", "uncertain", "reading"}
                         /\ pg.pending = Len(is)

AnswerTrue(c, rw) ==
  c.phase = "back" =>
    /\ c.answer \in Answer
    /\ c.answer.is = "found" <=> c.answer.run # Nil
    /\ SnapshotTrue(c.answer.run, c.run, rw)

(* A call somebody waits for and whose answer will not be late: a start or the *)
(* reading of a page just loaded is the only one; a read or a stop is of the   *)
(* run the page keeps. Any other start is the pending one or made its run.     *)
Timely(c, is) == ~c.gone /\ ~Behind(c, is)

CallFits(c, rw, wr, pg, is) ==
  /\ c.after <= Len(is)
  /\ c.gone => c.phase = "sent" /\ c.kind \in {"start", "stop"}
  /\ c.kind = "start" => c.run = pg.pending \/ (c.gone /\ rw[c.run] # Nil)
  /\ c.kind # "start" => rw[c.run] # Nil
  /\ Timely(c, is) =>
       /\ AnswerTrue(c, rw)
       /\ c.kind \in {"start", "restore"} => \A d \in wr : Timely(d, is) => d = c
       /\ c.kind = "start" =>
            /\ pg.phase = "starting" /\ c.before = pg.run /\ c.from = pg.runId
            /\ c.phase = "back" => c.answer.is \in {"found", "run_in_progress", "stale_worklist"}
       /\ c.kind # "start" =>
            /\ c.run = pg.runId
            /\ c.phase = "back" => c.answer.is \in {"found", "absent", "unavailable"}
       /\ c.kind = "restore" => pg.phase = "reading" /\ pg.run = Nil
       /\ c.kind \in {"read", "stop"} => pg.pending = Nil /\ SnapshotTrue(c.before, c.run, rw)
       /\ c.kind = "stop" /\ c.phase = "back" => c.answer.is = "found"

WireFits(rw, wr, pg, is) == \A c \in wr : CallFits(c, rw, wr, pg, is)

(* The requests of a campaign: the pending start, or the run the page keeps if *)
(* it is not counted yet, asks for what the plan asks next; every other run of *)
(* the campaign is counted, and what the counted ones selected is behind the   *)
(* plan, or waits in it to be read again.                                      *)
Made(r, rw, is, hs) == r \in 1..Len(is) /\ r > hs.before /\ rw[r] # Nil
IsNext(r, pg, is, hs) ==
  r > hs.before /\ r = Len(is) /\ r \notin ToSet(hs.counted) /\ is[r] = BatchRequest(pg.plan)

PlanFits(rw, pg, is, hs) ==
  LET plan    == pg.plan
      counted == ToSet(hs.counted)
  IN /\ hs.before <= Len(is)
     /\ plan.retrying => plan.retry # <<>>
     /\ pg.pending # Nil => IsNext(pg.pending, pg, is, hs)
     /\ \/ pg.runId \in {Nil, plan.last}
        \/ pg.pending = Nil /\ IsNext(pg.runId, pg, is, hs)
        \/ ~hs.inSight /\ pg.runId <= hs.before /\ hs.counted = <<>>
     /\ plan.last # Nil => plan.last \in counted \/ plan.last <= hs.before
     /\ \A r \in Run : Made(r, rw, is, hs) => r \in counted \union {pg.pending, pg.runId}
     /\ \A r \in counted : /\ rw[r] # Nil /\ rw[r].status \in Settleable
                           /\ hs.inSight => r > hs.before

WorkFits(rw, pg, is, hs) ==
  LET plan == pg.plan
      done == {r \in ToSet(hs.counted) : r > hs.before}
  IN /\ IsInjective(plan.retry)
     /\ \A m \in ToSet(plan.retry) : m < plan.offset
     /\ \A r \in done : \A m \in Selects(r, is) :
          m < plan.offset /\ (m \in ToSet(plan.retry) => Unread(r, m, rw, is))
     /\ \A q, r \in done : \A m \in Selects(q, is) \cap Selects(r, is) :
          q < r => is[r].retrying /\ Unread(q, m, rw, is)

(* The figures of the plan. Failed reads are those waiting and those skipped.  *)
FiguresFit(rw, pg, is, hs) ==
  LET plan == pg.plan
  IN /\ IsInjective(hs.counted)
     /\ plan.calls = SpentBy(rw, ToSet(hs.counted)) /\ plan.calls <= plan.maxCalls
     /\ plan.offset <= plan.total
     /\ plan.unread >= Len(plan.retry)
     /\ plan.unread = Len(plan.retry) /\ plan.other = 0 =>
          \A m \in 0..plan.offset - 1 :
            m \in ToSet(plan.retry) \/ \E r \in ToSet(hs.counted) : Covers(r, m, rw, is)

CampaignFits(rw, pg, is, hs) ==
  pg.plan # Nil =>
    /\ PlanFits(rw, pg, is, hs) /\ WorkFits(rw, pg, is, hs)
    /\ hs.inSight => FiguresFit(rw, pg, is, hs)

(* A campaign is shown as completed when nothing is left or went wrong. *)
CompletedFits(pg) ==
  pg.plan # Nil /\ pg.shown = "completed" =>
    pg.plan.offset = pg.plan.total /\ pg.plan.unread = 0 /\ pg.plan.other = 0

(* A run shown as settled was the last one counted. *)
SettledFits(pg) ==
  pg.plan # Nil /\ pg.phase = "run" /\ pg.run # Nil /\ pg.run.status \in Settleable =>
    pg.plan.last = pg.run.id

RunsFit(rw, wr, pg, kp, is, hs) ==
  /\ ClientTyped(rw, wr, pg, kp, is, hs) /\ RowsFit(rw, is)
  /\ PageFits(rw, pg, is) /\ WireFits(rw, wr, pg, is)
  /\ CampaignFits(rw, pg, is, hs)

CampaignSound ==
  /\ RunsFit(rows, wire, page, kept, issued, history)
  /\ campaign = page.plan /\ CompletedFits(page) /\ SettledFits(page)

CampaignIInv == inOrder => CampaignSound
=============================================================================
