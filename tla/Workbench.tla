------------------------------ MODULE Workbench ------------------------------
(* The workbench of one browser page (src/src/routes/index.tsx and             *)
(* src/src/components/pages/WorkbenchPage): the readings it shows, the row     *)
(* that is open, the body read for it, and the decision a person records       *)
(* about it with the proposal, approval and execution that may follow, over    *)
(* mail that moves and calls answered late, refused or lost.                   *)
EXTENDS Naturals, FiniteSets

CONSTANTS
  Message,       \* messages 1..n, in the order they arrive
  Thread,        \* the thread of each message
  Initially,     \* how many messages there are at first
  PageSize,      \* messages on one page of a list
  MaxReads,      \* bound: scans and searches begun
  MaxProposals,  \* bound: proposals made
  Nothing

Outcome == {"handle_now", "reply_needed", "read_only"}

ASSUME WorkbenchAssumption ==
  /\ Message \subseteq Nat \ {0}
  /\ Thread = [m \in Message |-> Thread[m]]
  /\ Initially \in Nat
  /\ PageSize \in Nat \ {0}
  /\ MaxReads \in Nat /\ MaxProposals \in Nat
  /\ Nothing \notin Nat

VARIABLES
  arrived,    \* external: the newest message that arrived
  gone,       \* external: messages out of the Inbox
  store,      \* external: the version of each message last judged, and last tried
  approvals,  \* external: the proposals whose approval the server recorded
  saved,      \* external: the decisions the server stored
  sequence,   \* the scans and searches begun (`sequence.current`)
  lists,      \* pages of a scan asked for and not answered
  searches,   \* searches asked for and not answered
  inbox,      \* the reading of the Inbox
  found,      \* the answer to a search, or Nothing
  chosen,     \* the row the person chose, or Nothing (`openId`)
  body,       \* the body held (`held` of useMessageBody)
  panel,      \* the handling step of the open row
  proposals,  \* proposals made; they are numbered
  owed,       \* executions whose panel is gone
  doubt       \* history: rows told uncertain since the person last moved

mail == <<arrived, gone, store>>
server == <<approvals, saved>>
reading == <<sequence, lists, searches>>
shown == <<inbox, found, chosen, body, panel, owed>>
workbenchVars == <<mail, server, reading, shown, proposals, doubt>>

-----------------------------------------------------------------------------
(* Spark and the store.                                                        *)

InInbox == {m \in Message : m <= arrived} \ gone

(* The latest message of the thread of m once n messages had arrived. *)
VersionAt(m, n) ==
  CHOOSE v \in Message :
    /\ v <= n /\ Thread[v] = Thread[m]
    /\ \A w \in Message : w <= n /\ Thread[w] = Thread[m] => w <= v

Version(m) == VersionAt(m, arrived)

(* The latest version the store met in the thread of m. *)
SeenVersion(m) ==
  LET tried == {store[k].tried : k \in {k \in Message : Thread[k] = Thread[m]}}
  IN CHOOSE v \in tried : \A w \in tried : w <= v

(* What the store alone says about a message. A failed attempt and a judgment  *)
(* of another rubric or build are one case: named, and not to be proposed on.  *)
Stored(m) ==
  LET s == store[m]
  IN [state   |-> IF s.judged # 0 /\ s.judged = SeenVersion(m) THEN "unverified"
                  ELSE IF s.judged # 0 THEN "stale"
                  ELSE IF s.tried # 0 /\ s.tried = SeenVersion(m) THEN "failed" ELSE "none",
      version |-> IF s.judged # 0 THEN s.judged ELSE s.tried]

(* The same, against the thread a body read returned. *)
Verified(stored, version) ==
  IF stored.state # "unverified" THEN stored
  ELSE [stored EXCEPT !.state = IF stored.version = version THEN "current" ELSE "stale"]

Arrive ==
  /\ arrived + 1 \in Message
  /\ arrived' = arrived + 1
  /\ UNCHANGED <<gone, store, server, reading, shown, proposals, doubt>>

Judge(m) ==
  /\ m \in InInbox
  /\ \E judged \in {store[m].judged, Version(m)} :
       store' = [store EXCEPT ![m] = [judged |-> judged, tried |-> Version(m)]]
  /\ UNCHANGED <<arrived, gone, server, reading, shown, proposals, doubt>>

-----------------------------------------------------------------------------
(* What a render makes of the state.                                           *)

(* A reading carries what the store said of its rows. asOf is history: the     *)
(* versions of the threads when the reading was made.                          *)
Reading(id, rows) ==
  [id |-> id, rows |-> rows, listed |-> [m \in rows |-> Stored(m)],
   asOf |-> [m \in rows |-> Version(m)]]

Page(n) ==
  {m \in InInbox : Cardinality({k \in InInbox : k > m}) \div PageSize = n - 1}

ShownOf(i, f) == IF f = Nothing THEN i ELSE f

Shown == ShownOf(inbox, found)

(* The chosen row while it is listed, else the first one. *)
OpenedMessage(r, choice) ==
  IF choice \in r.rows THEN choice
  ELSE IF r.rows = {} THEN Nothing
  ELSE CHOOSE m \in r.rows : \A k \in r.rows : k <= m

Open == OpenedMessage(Shown, chosen)

IdleBody == [status |-> "idle", row |-> Nothing, reading |-> Nothing]

RequestBody(m, r) ==
  [status |-> "loading", row |-> m, reading |-> r.id, since |-> arrived]

(* Another message opened: its body is asked for and the old one is dropped. *)
Follow(held, m, r) == IF m = Nothing \/ held.row = m THEN held ELSE RequestBody(m, r)

Undecided  == [outcome |-> "none", target |-> Nothing]
NoProposal == [id |-> 0, target |-> Nothing, approved |-> FALSE]
Free       == [kind |-> "none", held |-> NoProposal, free |-> FALSE]

(* The step of a row nobody decided about: no decision, no proposal held,      *)
(* nothing asked of the server and nothing being saved.                        *)
NewPanel ==
  [decided |-> Undecided, held |-> NoProposal, execution |-> "none", busy |-> Free,
   saving |-> Undecided, uncertain |-> FALSE, asked |-> 0]

Executing(p) == p.busy.kind = "execute"

(* The next reading, choice and panel as rendered: the open row keys the panel *)
(* and the body follows it. An execution goes on when its panel is gone.       *)
Shows(i, f, choice, p, outlived) ==
  LET r == ShownOf(i, f)
      m == OpenedMessage(r, choice)
  IN /\ inbox' = i /\ found' = f /\ chosen' = choice
     /\ body' = Follow(body, m, r)
     /\ panel' = IF m = Open THEN p ELSE NewPanel
     /\ owed' = IF m # Open /\ Executing(p)
                THEN outlived \union {[row |-> Open, free |-> p.busy.free]} ELSE outlived

Rendered(i, f, choice, p) == Shows(i, f, choice, p, owed)

(* Mutant of ReadNow: what was read of the open row counts under any reading. *)
ReadNowBroken == IF body.status = "ready" /\ body.row = Open THEN body ELSE Nothing

(* The body read under the very reading that is shown, or Nothing. *)
ReadNow ==
  IF body.status = "ready" /\ body.row = Open /\ body.reading = Shown.id
  THEN body ELSE Nothing

(* A read answers only an unverified listing, and only of the same judgment. *)
EvidenceFor(listed, read) ==
  IF /\ listed.state = "unverified" /\ read # Nothing
     /\ read.judged.state \in {"current", "stale"}
     /\ read.judged.version = listed.version
  THEN read.judged ELSE listed

Evidence == EvidenceFor(Shown.listed[Open], ReadNow)

(* The version of the open row a decision may name, or Nothing. *)
Proposable ==
  IF ReadNow # Nothing THEN [row |-> Open, version |-> ReadNow.version]
  ELSE IF Evidence.state \in {"current", "unverified"}
  THEN [row |-> Open, version |-> Evidence.version]
  ELSE Nothing

Observation ==
  IF ReadNow # Nothing
  THEN [observed |-> "named", version |-> ReadNow.version, proven |-> TRUE]
  ELSE IF Evidence.state = "none" THEN Nothing
  ELSE IF Evidence.state = "stale" THEN [observed |-> "moved"]
  ELSE [observed |-> "named", version |-> Evidence.version,
        proven |-> Evidence.state = "current"]

TargetStanding(target, seen) ==
  IF seen = Nothing THEN "unobserved"
  ELSE IF seen.observed = "moved" \/ seen.version # target.version THEN "broken"
  ELSE IF seen.proven THEN "holds" ELSE "unproven"

(* How far the held proposal has got. *)
Stage(p) ==
  IF TargetStanding(p.held.target, Observation) = "broken" THEN "invalidated"
  ELSE IF p.held.approved THEN "approved" ELSE "proposed"

-----------------------------------------------------------------------------
(* Readings: a scan asks for page after page; a later scan or search           *)
(* overtakes it.                                                               *)

(* Mutant of Current: whatever was not begun later counts. *)
CurrentBroken(call) == call.seq <= sequence

Current(call) == call.seq = sequence

Scanning == \E call \in lists : Current(call)

Loading == Scanning \/ \E call \in searches : Current(call)

(* Begin a scan, which drops the answer to a search; the panel and executions  *)
(* given are what the handler left.                                            *)
Scan(p, outlived) ==
  /\ sequence < MaxReads
  /\ sequence' = sequence + 1
  /\ lists' = lists \union {[seq |-> sequence + 1, page |-> 1, rows |-> {}]}
  /\ UNCHANGED searches
  /\ Shows(inbox, Nothing, chosen, p, outlived)

Refresh ==
  /\ ~Loading
  /\ Scan(panel, owed)
  /\ doubt' = IF found = Nothing THEN doubt ELSE {}
  /\ UNCHANGED <<mail, server, proposals>>

(* A page of a scan: ignored when the scan was overtaken; else it replaces the *)
(* reading shown, and the next is asked for while the mailbox may hold more.   *)
(* Or the page, or one mailbox of it, could not be read and the scan ends.     *)
ListAnswered(call) ==
  LET rows == call.rows \union Page(call.page)
      full == Cardinality(Page(call.page)) = PageSize
      next == IF full THEN {[call EXCEPT !.page = @ + 1, !.rows = rows]} ELSE {}
  IN /\ call \in lists
     /\ \/ /\ Current(call)
           /\ Rendered(Reading(<<call.seq, call.page>>, rows), found, chosen, panel)
           /\ \E more \in {next, {}} : lists' = (lists \ {call}) \union more
        \/ lists' = lists \ {call} /\ UNCHANGED shown
     /\ UNCHANGED <<mail, server, sequence, searches, proposals, doubt>>

Search ==
  /\ ~Scanning
  /\ sequence < MaxReads
  /\ sequence' = sequence + 1
  /\ searches' = searches \union {[seq |-> sequence + 1]}
  /\ UNCHANGED <<mail, server, lists, shown, proposals, doubt>>

SearchAnswered(call) ==
  /\ call \in searches
  /\ searches' = searches \ {call}
  /\ \/ /\ Current(call)
        /\ \/ \E rows \in SUBSET InInbox :
                Rendered(inbox, Reading(<<call.seq, 0>>, rows), chosen, panel)
           \/ Rendered(inbox, Nothing, chosen, panel)
        /\ doubt' = {}
     \/ ~Current(call) /\ UNCHANGED <<shown, doubt>>
  /\ UNCHANGED <<mail, server, sequence, lists, proposals>>

ClearSearch ==
  /\ found # Nothing
  /\ Rendered(inbox, Nothing, chosen, panel)
  /\ doubt' = {}
  /\ UNCHANGED <<mail, server, reading, proposals>>

OpenMessage(m) ==
  /\ m \in Shown.rows
  /\ Rendered(inbox, found, m, panel)
  /\ doubt' = IF m = Open THEN doubt ELSE {}
  /\ UNCHANGED <<mail, server, reading, proposals>>

(* The body of the open row. An older request is aborted and its answer never  *)
(* delivered; the thread was read at some moment since the request.            *)

BodyAnswered ==
  /\ body.status = "loading"
  /\ \/ body' = [status |-> "error", row |-> body.row]
     \/ \E n \in body.since..arrived :
          LET version == VersionAt(body.row, n)
          IN body' = [status |-> "ready", row |-> body.row, reading |-> body.reading,
                      version |-> version, judged |-> Verified(Stored(body.row), version)]
  /\ UNCHANGED <<mail, server, reading, inbox, found, chosen, panel, owed, proposals, doubt>>

Retry ==
  /\ body.status = "error" /\ body.row = Open
  /\ body' = RequestBody(Open, Shown)
  /\ UNCHANGED <<mail, server, reading, inbox, found, chosen, panel, owed, proposals, doubt>>

-----------------------------------------------------------------------------
(* The handling step of the open row.                                          *)

(* A step of the panel that leaves the rest of the page alone. *)
Panel(p) ==
  /\ panel' = p
  /\ UNCHANGED <<mail, reading, inbox, found, chosen, body, owed>>

Write(outcome) ==
  /\ Panel([panel EXCEPT !.saving = [outcome |-> outcome, target |-> Proposable]])
  /\ UNCHANGED <<server, proposals, doubt>>

(* A decision names the version the page may propose on. A reply owed is saved *)
(* first; handling now makes a proposal; reading needs neither.                *)
Record(outcome) ==
  /\ Open # Nothing /\ Proposable # Nothing
  /\ panel.decided = Undecided /\ panel.saving = Undecided /\ ~panel.uncertain
  /\ LET decided == [panel EXCEPT !.decided = [outcome |-> outcome, target |-> Proposable]]
     IN \/ outcome = "reply_needed" /\ Write(outcome)
        \/ /\ outcome = "read_only"
           /\ Panel(decided) /\ UNCHANGED <<server, proposals, doubt>>
        \/ /\ outcome = "handle_now"
           /\ proposals < MaxProposals
           /\ proposals' = proposals + 1
           /\ Panel([decided EXCEPT
                !.held = [id |-> proposals', target |-> Proposable, approved |-> FALSE],
                !.execution = "none"])
           /\ UNCHANGED <<server, doubt>>

(* "I handled this in Spark" is saved beside whatever was decided. *)
HandledInSpark ==
  /\ Open # Nothing /\ Proposable # Nothing
  /\ panel.saving = Undecided /\ ~panel.uncertain
  /\ Write("handled_in_spark")

(* The decision is told as made only when the server says it stored it. *)
SaveAnswered ==
  /\ panel.saving # Undecided
  /\ LET write == panel.saving
         done == [panel EXCEPT !.saving = Undecided]
     IN \/ /\ write.target.version = Version(write.target.row)
           /\ saved' = saved \union {write}
           /\ \/ Panel([done EXCEPT !.uncertain = TRUE])
              \/ Panel([done EXCEPT !.decided = IF write.outcome = "reply_needed"
                                               THEN write ELSE @])
        \/ /\ \E uncertain \in BOOLEAN : Panel([done EXCEPT !.uncertain = uncertain])
           /\ UNCHANGED saved
  /\ UNCHANGED <<approvals, proposals, doubt>>

(* Approving: the panel as it was when the button was pressed comes back with  *)
(* the approval the server recorded after its own preflight.                   *)
Approve ==
  /\ panel.held.id # 0 /\ panel.busy = Free
  /\ Stage(panel) = "proposed"
  /\ Panel([panel EXCEPT !.busy = [kind |-> "approve", held |-> panel.held, free |-> FALSE]])
  /\ UNCHANGED <<server, proposals, doubt>>

Approving == panel.busy.kind = "approve"

ApproveAnswered ==
  /\ Approving
  /\ LET target == panel.busy.held.target
         done == [panel EXCEPT !.busy = Free]
     IN \/ /\ target.version = Version(target.row) /\ target.row \in InInbox
           /\ approvals' = approvals \union {panel.busy.held.id}
           /\ \/ Panel([done EXCEPT !.held = [panel.busy.held EXCEPT !.approved = TRUE]])
              \/ Panel(done)
        \/ Panel(done) /\ UNCHANGED approvals
  /\ UNCHANGED <<saved, proposals, doubt>>

(* Mutant of MayExecute: what the last attempt came to is not asked. *)
MayExecuteBroken(p) ==
  p.held.id # 0 /\ p.held.approved /\ Stage(p) = "approved" /\ p.busy = Free

(* What `executionRequest` asks of the panel before a request leaves. *)
MayExecute(p) ==
  /\ p.held.id # 0 /\ p.held.approved
  /\ Stage(p) = "approved"
  /\ p.busy = Free /\ p.execution = "none"

(* Whether the Inbox may be read anew on success is settled here: not while it *)
(* is being read, nor while a batch of Jev runs goes on.                       *)
RunDone ==
  /\ MayExecute(panel)
  /\ \E free \in {FALSE, ~Loading} :
       Panel([panel EXCEPT !.busy = [kind |-> "execute", held |-> panel.held, free |-> free],
                           !.asked = @ + 1])
  /\ UNCHANGED <<server, proposals, doubt>>

(* Confirmed: Spark archived the message, and the Inbox is read anew unless it *)
(* was not to be when the button was pressed. Uncertain: it may have, and a    *)
(* lost answer is told so too. Blocked: nothing was asked of Spark.            *)
DoneAnswer ==
  /\ Executing(panel)
  /\ LET row == panel.held.target.row
         told(result) == [panel EXCEPT !.busy = Free, !.execution = result]
     IN \/ /\ row \in InInbox /\ gone' = gone \union {row}
           /\ \/ panel.busy.free /\ Scan(told("confirmed"), owed)
              \/ /\ ~panel.busy.free /\ panel' = told("confirmed")
                 /\ UNCHANGED <<reading, inbox, found, chosen, body, owed>>
           /\ UNCHANGED <<arrived, store, doubt>>
        \/ /\ \E left \in {{}, {row}} : gone' = gone \union left
           /\ panel' = told("uncertain")
           /\ doubt' = doubt \union {row}
           /\ UNCHANGED <<arrived, store, reading, inbox, found, chosen, body, owed>>
        \/ /\ Panel([told("blocked") EXCEPT !.asked = @ - 1])
           /\ UNCHANGED doubt
  /\ UNCHANGED <<server, proposals>>

(* An execution that outlived its panel ends: told confirmed it still asks for *)
(* a scan, whatever is being read by now.                                      *)
OutlivedAnswered(e) ==
  /\ e \in owed
  /\ \E left \in {{}, {e.row}} : gone' = gone \union left
  /\ \/ e.free /\ e.row \in gone' /\ Scan(panel, owed \ {e})
     \/ owed' = owed \ {e} /\ UNCHANGED <<reading, inbox, found, chosen, body, panel>>
  /\ UNCHANGED <<arrived, store, server, proposals, doubt>>

(* A decision whose attempt is confirmed or may have reached Spark is locked. *)
Locked(p) == p.execution \in {"confirmed", "uncertain"}

(* Mutant of Change: a decision is taken back while the server is asked. *)
ChangeBroken ==
  /\ panel.decided # Undecided /\ ~Locked(panel)
  /\ Panel([panel EXCEPT !.decided = Undecided, !.held = NoProposal, !.execution = "none"])
  /\ UNCHANGED <<server, proposals, doubt>>

(* Another decision may be made: the one held is withdrawn with its proposal. *)
Change ==
  /\ panel.decided # Undecided
  /\ ~Locked(panel) /\ panel.busy = Free
  /\ Panel([panel EXCEPT !.decided = Undecided, !.held = NoProposal, !.execution = "none"])
  /\ UNCHANGED <<server, proposals, doubt>>

-----------------------------------------------------------------------------
(* The page opens with what its loader read, and goes on scanning from there.  *)

FirstPage == Reading(<<1, 1>>, Page(1))

WorkbenchInit ==
  /\ arrived = Initially /\ gone = {}
  /\ store = [m \in Message |-> [judged |-> 0, tried |-> 0]]
  /\ approvals = {} /\ saved = {}
  /\ sequence = 1 /\ searches = {}
  /\ inbox = FirstPage
  /\ lists = IF Cardinality(Page(1)) = PageSize
             THEN {[seq |-> 1, page |-> 2, rows |-> Page(1)]} ELSE {}
  /\ found = Nothing /\ chosen = Nothing
  /\ body = Follow(IdleBody, OpenedMessage(FirstPage, Nothing), FirstPage)
  /\ panel = NewPanel /\ owed = {}
  /\ proposals = 0 /\ doubt = {}

WorkbenchNext ==
  \/ Arrive \/ \E m \in Message : Judge(m) \/ OpenMessage(m)
  \/ Refresh \/ \E call \in lists : ListAnswered(call)
  \/ Search \/ \E call \in searches : SearchAnswered(call)
  \/ ClearSearch \/ BodyAnswered \/ Retry
  \/ \E outcome \in Outcome : Record(outcome)
  \/ HandledInSpark \/ SaveAnswered
  \/ Approve \/ ApproveAnswered
  \/ RunDone \/ DoneAnswer \/ \E e \in owed : OutlivedAnswered(e)
  \/ Change

WorkbenchSpec == WorkbenchInit /\ [][WorkbenchNext]_workbenchVars

-----------------------------------------------------------------------------
(* Properties.                                                                 *)

(* What the page calls proven of the open row was read after the reading it is *)
(* shown under was made, and a judgment it calls current is the very one that  *)
(* reading listed: a body asked for under an earlier reading proves nothing.   *)
ProofIsOfThisReading ==
  Open # Nothing =>
    /\ Observation # Nothing /\ Observation.observed = "named" /\ Observation.proven
         => Observation.version >= Shown.asOf[Open]
    /\ Evidence.state = "current" =>
         /\ Evidence.version >= Shown.asOf[Open]
         /\ Evidence.version = Shown.listed[Open].version

(* What the panel says of a decision is so: a proposal is held only by the     *)
(* decision that made it, approved only where the server recorded that very    *)
(* approval, a reply owed is told only once stored, and mail told Done left.   *)
DecisionTrue ==
  /\ panel.held.id # 0 =>
       /\ panel.decided.outcome = "handle_now"
       /\ panel.held.target = panel.decided.target
       /\ panel.held.approved => panel.held.id \in approvals
  /\ panel.decided.outcome = "reply_needed" => panel.decided \in saved
  /\ panel.execution = "confirmed" => panel.held.target.row \in gone

(* While its row stays open, an attempt told confirmed or uncertain keeps that *)
(* answer and no second request leaves, whatever is read, arrives or answers.  *)
SettledStays ==
  [][panel.execution \in {"confirmed", "uncertain"} /\ Open' = Open =>
       panel'.execution = panel.execution /\ panel'.asked = panel.asked]_workbenchVars

(* The page never goes back to an older reading of the Inbox, and never shows  *)
(* the answer to a search over a scan that was begun after it.                 *)
NewestShown ==
  [][/\ inbox'.id # inbox.id =>
          \/ inbox'.id[1] > inbox.id[1]
          \/ inbox'.id[1] = inbox.id[1] /\ inbox'.id[2] > inbox.id[2]
     /\ found' # Nothing /\ found' # found => found'.id[1] = sequence]_workbenchVars

(* A row told uncertain stays locked while the person stays on it, a reading   *)
(* that lists the mailbox again included. Refuted: such a reading comes page   *)
(* by page, and the panel is gone as soon as one page leaves the row out.      *)
UncertainKeepsItsLock == Open # Nothing /\ Open \in doubt => Locked(panel)

=============================================================================
