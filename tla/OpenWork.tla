------------------------------ MODULE OpenWork ------------------------------
(* Recorded work: decisions about mailbox copies appended to a journal         *)
(* (src/src/shadow/follow-ups.ts), the rechecks against Spark before one is    *)
(* stored and when the list is read (src/src/app/open-work.server.ts), where   *)
(* each copy stands (src/src/domain/open-work.ts, follow-up.ts), and the list  *)
(* the browser loads page by page (src/src/routes/index.tsx).                  *)
EXTENDS Integers, Sequences, FiniteSets, SequencesExt, RequestJournal, Pages

CONSTANTS
  Copy,         \* copies of one mailbox: message ids 1..n, a higher id is newer
  Placed,       \* where the copies may be at first
  Decided,      \* the journals the application may have written before
  Choice,       \* what people decide: a copy and a kind, under a request id
  WorkRequest,  \* request ids
  Handler,      \* request handlers of the server process
  CopiesPerPage,\* decided copies one reading shows (50)
  ScanSize,     \* messages on one provider page (25)
  ScanPages,    \* provider pages one scan of a view reads (10)
  MaxChecks,    \* bound: readings of the list begun anew
  MaxDecisions, \* bound: decisions stored
  MaxWorkChanges, \* bound: changes of the mailbox
  Nothing

Kind == {"reply_needed", "handled_in_spark", "reopen"}
Where == {"elsewhere", "unread", "read"}

Asking == [copy : Copy, version : Nat, kind : Kind]
Remembering == [payload : Asking, result : {Recorded, "nothing_to_reopen"}]
Cursor == [snapshot : Nat, before : Nat]
Decision == [copy : Copy, version : Nat, kind : Kind, request : WorkRequest \union {Nothing}]

(* Every reopen directly answers a closure of its copy. *)
ReopensAnswer(rows) ==
  \A i \in DOMAIN rows : rows[i].kind = "reopen" =>
    \E j \in 1..(i - 1) : /\ rows[j].copy = rows[i].copy /\ rows[j].kind = "handled_in_spark"
                          /\ \A k \in (j + 1)..(i - 1) : rows[k].copy # rows[i].copy

ASSUME OpenWorkAssumption ==
  /\ Copy \subseteq Nat /\ IsFiniteSet(Copy)
  /\ Placed \subseteq [Copy -> Where] /\ Choice \subseteq [request : WorkRequest, copy : Copy, kind : Kind]
  /\ CopiesPerPage \in Nat \ {0} /\ ScanSize \in Nat \ {0} /\ ScanPages \in Nat \ {0}
  /\ {MaxChecks, MaxDecisions, MaxWorkChanges} \subseteq Nat
  /\ Nothing \notin Nat /\ Nothing \notin WorkRequest /\ Nothing \notin Remembering \union Cursor
  /\ \A rows \in Decided : /\ rows \in Seq(Decision) /\ ReopensAnswer(rows)
                           /\ \A i \in DOMAIN rows : rows[i].request = Nothing

VARIABLES
  place,        \* external: where each copy is in Spark
  version,      \* external: the newest message of each copy's thread
  moved,        \* external: how often the mailbox changed; it serves as the clock
  decisions,    \* follow_up_decisions, by row id
  asked,        \* follow_up_requests
  handlers,     \* what each request handler is doing
  section       \* the list in the browser

sparkVars == <<place, version, moved>>
workVars == <<sparkVars, decisions, asked, handlers, section>>

-----------------------------------------------------------------------------
(* The journal.                                                                *)

RowsAbout(rows, c) == {i \in DOMAIN rows : rows[i].copy = c}
LastOf(ids) == CHOOSE i \in ids : \A j \in ids : j <= i
Latest(rows, c) == rows[LastOf(RowsAbout(rows, c))]

(* Only a reopen is gated: the last decision about the copy must have closed it. *)
Admitted(content) ==
  content.kind = "reopen" =>
    \E last \in RowsAbout(decisions, content.copy) :
      /\ decisions[last].kind = "handled_in_spark"
      /\ \A i \in RowsAbout(decisions, content.copy) : i <= last

(* One decision, or a refused reopen, with the answer its request id keeps. *)
AppendDecision(r, content) ==
  IF Admitted(content)
  THEN /\ decisions' = Append(decisions, [copy |-> content.copy, version |-> content.version,
                                          kind |-> content.kind, request |-> r])
       /\ asked' = [asked EXCEPT ![r] = Remembered(content, Recorded)]
  ELSE /\ UNCHANGED decisions
       /\ asked' = [asked EXCEPT ![r] = Remembered(content, "nothing_to_reopen")]

(* The transaction trusts the lookup made before the recheck. *)
RecordFollowUpBroken(r, content) == AppendDecision(r, content)

(* One write transaction: a known id repeats its answer, and nothing is stored. *)
RecordFollowUp(r, content) ==
  IF RequestOutcome(asked[r], content, Nothing) # Absent THEN UNCHANGED <<decisions, asked>>
  ELSE AppendDecision(r, content)

(* The copies are ordered by what is stored now. *)
LatestIdBroken(rows, c, cursor) == IF RowsAbout(rows, c) = {} THEN 0 ELSE LastOf(RowsAbout(rows, c))

(* One page of decided copies, most recently decided first. A continuation     *)
(* orders the copies by what was stored at the first page.                     *)
LatestId(rows, c, cursor) ==
  LET frozen == {i \in RowsAbout(rows, c) : cursor = Nothing \/ i <= cursor.snapshot}
  IN IF frozen = {} THEN 0 ELSE LastOf(frozen)

Listable(rows, cursor) ==
  {c \in Copy : /\ LatestId(rows, c, cursor) > 0
                /\ cursor = Nothing \/ LatestId(rows, c, cursor) < cursor.before}

DecidedAfter(rows, c, cursor) ==
  {d \in Listable(rows, cursor) : LatestId(rows, d, cursor) > LatestId(rows, c, cursor)}

Included(rows, cursor) ==
  {c \in Listable(rows, cursor) : Cardinality(DecidedAfter(rows, c, cursor)) < CopiesPerPage}

IdsOf(rows, copies, cursor) == {LatestId(rows, c, cursor) : c \in copies}
FirstOf(ids) == CHOOSE i \in ids : \A j \in ids : i <= j

NextCursor(rows, cursor) ==
  IF Listable(rows, cursor) = Included(rows, cursor) THEN Nothing
  ELSE [snapshot |-> IF cursor = Nothing THEN LastOf(IdsOf(rows, Listable(rows, cursor), cursor))
                     ELSE cursor.snapshot,
        before   |-> FirstOf(IdsOf(rows, Included(rows, cursor), cursor))]

-----------------------------------------------------------------------------
(* Evidence from Spark. A scan reads the unread view and then the read one,    *)
(* page by page, and only a short page ends a view.                            *)

ScanPage(view, p) ==
  PageOf({c \in Copy : place[c] = view}, p, ScanSize)

NewScan == [view |-> "unread", page |-> 1, listed |-> {}, cut |-> {}, from |-> moved, failed |-> FALSE]

(* A scan is whole when the last view was read to its end. *)
WholeBroken(scan) == "read" \notin scan.cut
Whole(scan) == scan.cut = {}

Evidence(scan, c) ==
  CASE scan.failed                             -> "unreadable"
    [] ~scan.failed /\ c \in scan.listed       -> "listed"
    [] ~scan.failed /\ c \notin scan.listed    -> IF Whole(scan) THEN "read_completely" ELSE "bounded"

Standing(evidence) ==
  CASE evidence = "listed"          -> "in_inbox"
    [] evidence = "read_completely" -> "not_in_inbox"
    [] OTHER                        -> "unknown"

(* Where the work of a decision stands, for the version its thread was read at. *)
WorkState(decision, seen) ==
  IF seen = Nothing THEN "unobserved"
  ELSE CASE seen # decision.version -> "lapsed"
         [] seen = decision.version -> IF decision.kind = "handled_in_spark" THEN "handled" ELSE "open"

-----------------------------------------------------------------------------
(* Spark: mail is moved, marked, and threads grow.                             *)

Changed == moved < MaxWorkChanges /\ moved' = moved + 1

Move(c, w) ==
  /\ w # place[c] /\ Changed
  /\ place' = [place EXCEPT ![c] = w]
  /\ UNCHANGED <<version, decisions, asked, handlers, section>>

Grow(c) ==
  /\ Changed
  /\ version' = [version EXCEPT ![c] = @ + 1]
  /\ UNCHANGED <<place, decisions, asked, handlers, section>>

-----------------------------------------------------------------------------
(* Request handlers.                                                           *)

Idle == [kind |-> "idle"]

Inspecting(op) == [handlers EXCEPT ![op.handler] = op]

(* A page of the list: the decisions are read first, and the evidence after. *)
ListOp(h, cursor, current) ==
  LET copies == Included(decisions, cursor)
      later(a, b) == LatestId(decisions, a, cursor) > LatestId(decisions, b, cursor)
  IN [kind |-> "list", handler |-> h, phase |-> "scan", scan |-> NewScan, wanted |-> copies,
      todo |-> SetToSortSeq(copies, later), seen |-> [c \in Copy |-> Nothing],
      cursor |-> cursor, next |-> NextCursor(decisions, cursor),
      rows |-> [c \in copies |-> Latest(decisions, c)], current |-> current, status |-> "ready",
      first |-> IF cursor = Nothing THEN Listable(decisions, cursor) ELSE {}]

(* An unknown id is rechecked against Spark before anything is stored. *)
SaveOp(h, r, content) ==
  [kind |-> "save", handler |-> h, phase |-> "scan", scan |-> NewScan, wanted |-> {content.copy},
   todo |-> <<content.copy>>, seen |-> [c \in Copy |-> Nothing], request |-> r, content |-> content]

BeginSave(h, r, content) ==
  /\ handlers[h] = Idle
  /\ RequestOutcome(asked[r], content, Nothing) = Absent
  /\ handlers' = Inspecting(SaveOp(h, r, content))
  /\ UNCHANGED <<sparkVars, decisions, asked, section>>

(* The list is read anew; whatever was under way for it no longer counts. *)
CheckWork(h) ==
  /\ section.current < MaxChecks
  /\ section' = [section EXCEPT !.current = @ + 1, !.loading = TRUE, !.more = FALSE]
  /\ handlers' = Inspecting(ListOp(h, Nothing, section.current + 1))

BeginCheck(h) ==
  /\ handlers[h] = Idle
  /\ CheckWork(h)
  /\ UNCHANGED <<sparkVars, decisions, asked>>

LoadMore(h) ==
  /\ handlers[h] = Idle
  /\ ~section.loading /\ ~section.more
  /\ section.status = "ready" /\ section.cursor # Nothing
  /\ section' = [section EXCEPT !.more = TRUE]
  /\ handlers' = Inspecting(ListOp(h, section.cursor, section.current))
  /\ UNCHANGED <<sparkVars, decisions, asked>>

(* One provider page of the scan; what it says of other copies is not used. *)
Scan(h) ==
  LET op     == handlers[h]
      scan   == op.scan
      rows   == ScanPage(scan.view, scan.page)
      listed == [scan EXCEPT !.listed = @ \union (rows \cap op.wanted)]
      over(cut) == IF scan.view = "unread"
                   THEN [op EXCEPT !.scan = [listed EXCEPT !.view = "read", !.page = 1, !.cut = @ \union cut]]
                   ELSE [op EXCEPT !.scan = [listed EXCEPT !.page = 1, !.cut = @ \union cut], !.phase = "observe"]
  IN /\ op # Idle /\ op.phase = "scan"
     /\ handlers' = Inspecting(IF Cardinality(rows) < ScanSize THEN over({})
                               ELSE IF scan.page = ScanPages THEN over({scan.view})
                               ELSE [op EXCEPT !.scan = [listed EXCEPT !.page = @ + 1]])
     /\ UNCHANGED <<sparkVars, decisions, asked, section>>

(* The mailbox cannot be read: nothing is known of any copy of it. *)
ScanFails(h) ==
  LET op == handlers[h]
  IN /\ op # Idle /\ op.phase = "scan"
     /\ handlers' = Inspecting([op EXCEPT !.scan.failed = TRUE, !.todo = <<>>, !.phase = "observe"])
     /\ UNCHANGED <<sparkVars, decisions, asked, section>>

(* The thread of one copy is read; a failure leaves its version unknown. *)
ObserveVersion(h) ==
  LET op == handlers[h]
  IN /\ op # Idle /\ op.phase = "observe" /\ op.todo # <<>>
     /\ \E seen \in {version[Head(op.todo)], Nothing} :
          handlers' = Inspecting([op EXCEPT !.seen[Head(op.todo)] = seen, !.todo = Tail(@)])
     /\ UNCHANGED <<sparkVars, decisions, asked, section>>

MayBeOutsideInbox(kind) == kind \in {"reopen", "handled_in_spark"}

(* The copy and the version still are what the person was shown. *)
Verified(op) ==
  /\ op.seen[op.content.copy] = op.content.version
  /\ ~MayBeOutsideInbox(op.content.kind) => Evidence(op.scan, op.content.copy) = "listed"

(* Refusals of the recheck are not remembered. An open section that is told of *)
(* a recorded decision reads the list again (BeginCheck).                      *)
Store(h) ==
  LET op == handlers[h]
  IN /\ op # Idle /\ op.kind = "save" /\ op.phase = "observe" /\ op.todo = <<>>
     /\ handlers' = [handlers EXCEPT ![h] = Idle]
     /\ \/ Verified(op) /\ Len(decisions) < MaxDecisions /\ RecordFollowUp(op.request, op.content)
        \/ UNCHANGED <<decisions, asked>>
     /\ UNCHANGED <<sparkVars, section>>

-----------------------------------------------------------------------------
(* The list in the browser.                                                    *)

Items(op) ==
  [c \in DOMAIN op.rows |->
     [work  |-> WorkState(op.rows[c], op.seen[c]), inbox |-> Standing(Evidence(op.scan, c))]]

Ended == [section EXCEPT !.loading = FALSE, !.more = FALSE]

Replaced(op) ==
  [Ended EXCEPT !.status = "ready", !.items = Items(op), !.cursor = op.next, !.whole = op.first]

(* Another page is merged only into the list it continues; what is listed stays. *)
Merged(op) ==
  IF section.status # "ready" \/ section.cursor # op.cursor THEN Ended
  ELSE [Ended EXCEPT !.cursor = op.next,
                     !.items = [c \in DOMAIN @ \union DOMAIN op.rows |->
                                  IF c \in DOMAIN @ THEN @[c] ELSE Items(op)[c]]]

(* A page arrives, or the request failed: a list read anew is then unavailable, *)
(* and one that was to go on stays as it is. Nobody waits for an earlier list.  *)
Deliver(h) ==
  LET op == handlers[h]
  IN /\ op # Idle /\ op.kind = "list"
     /\ handlers' = [handlers EXCEPT ![h] = Idle]
     /\ \/ /\ op.phase = "observe" /\ op.todo = <<>>
           /\ section' = IF op.current # section.current THEN section
                         ELSE IF op.cursor = Nothing THEN Replaced(op) ELSE Merged(op)
        \/ section' = IF op.current # section.current THEN section
                      ELSE IF op.cursor = Nothing
                      THEN [Ended EXCEPT !.status = "unavailable", !.cursor = Nothing,
                                         !.items = <<>>, !.whole = {}]
                      ELSE Ended
     /\ UNCHANGED <<sparkVars, decisions, asked>>

-----------------------------------------------------------------------------
WorkInit ==
  /\ place \in Placed
  /\ version = [c \in Copy |-> 1]
  /\ moved = 0
  /\ decisions \in Decided
  /\ asked = [r \in WorkRequest |-> Nothing]
  /\ handlers = [h \in Handler |-> Idle]
  /\ section = [status |-> "none", items |-> <<>>, cursor |-> Nothing, current |-> 0,
                loading |-> FALSE, more |-> FALSE, whole |-> {}]

(* What a person may decide about a copy: the version shown may be an old one. *)
Content(choice) == {[copy |-> choice.copy, version |-> v, kind |-> choice.kind] : v \in 1..version[choice.copy]}

WorkNext ==
  \/ \E c \in Copy : Grow(c) \/ \E w \in Where : Move(c, w)
  \/ \E h \in Handler :
       \/ BeginCheck(h) \/ LoadMore(h) \/ Scan(h) \/ ScanFails(h) \/ ObserveVersion(h)
       \/ Store(h) \/ Deliver(h)
       \/ \E choice \in Choice : \E content \in Content(choice) :
            BeginSave(h, choice.request, content)

WorkSpec == WorkInit /\ [][WorkNext]_workVars

-----------------------------------------------------------------------------
DecisionsOf(r) == {i \in DOMAIN decisions : decisions[i].request = r}

(* Whatever handlers recheck side by side: a request id is recorded exactly    *)
(* when one decision, and no other, stands in the journal for it, with what    *)
(* was asked; and every reopen in the history of a copy directly answers a     *)
(* closure, though it was admitted long after the person saw one.              *)
DecisionsAnswered ==
  /\ \A r \in WorkRequest :
       /\ Cardinality(DecisionsOf(r)) <= 1
       /\ DecisionsOf(r) # {} <=> asked[r] # Nothing /\ asked[r].result = Recorded
       /\ \A i \in DecisionsOf(r) : asked[r].payload.copy = decisions[i].copy
                                   /\ asked[r].payload.kind = decisions[i].kind
  /\ ReopensAnswer(decisions)

(* A list loaded to its end names every copy that had a decision when its      *)
(* first page was read, though decisions stored between the pages reorder the  *)
(* copies ("a later decision cannot shift an older copy past the cursor").     *)
LoadedIsWhole ==
  section.status = "ready" =>
    /\ section.cursor = Nothing => DOMAIN section.items = section.whole
    /\ DOMAIN section.items \subseteq section.whole

(* A list read while the mailbox stood still is true: a copy said to be in or  *)
(* out of the Inbox is, whatever the scan was cut by, and work said to be open *)
(* or handled was decided about the newest version of its thread.              *)
QuietListIsTrue ==
  \A h \in Handler :
    LET op == handlers[h]
    IN op # Idle /\ op.kind = "list" /\ op.phase = "observe" /\ op.todo = <<>> /\ op.scan.from = moved =>
         \A c \in DOMAIN op.rows :
           /\ Items(op)[c].inbox = "in_inbox" => place[c] # "elsewhere"
           /\ Items(op)[c].inbox = "not_in_inbox" => place[c] = "elsewhere"
           /\ Items(op)[c].work \in {"open", "handled"} => op.rows[c].version = version[c]

-----------------------------------------------------------------------------
(* The inductive invariant behind DecisionsAnswered.                           *)

JournalTyped ==
  /\ version \in [Copy -> Nat]
  /\ decisions \in Seq(Decision)
  /\ asked \in [WorkRequest -> Remembering \union {Nothing}]

(* A handler under way carries what it was asked until it ends. *)
SavesCarry ==
  /\ handlers = [h \in Handler |-> handlers[h]]
  /\ \A h \in Handler : handlers[h] # Idle =>
       LET op == handlers[h]
       IN /\ op = [x \in DOMAIN op |-> op[x]]
          /\ {"kind", "handler"} \subseteq DOMAIN op /\ op.handler = h
          /\ op.kind = "save" => /\ {"request", "content"} \subseteq DOMAIN op
                                 /\ op.request \in WorkRequest /\ op.content \in Asking

OneEach ==
  \A r \in WorkRequest :
    /\ \A i, j \in DecisionsOf(r) : i = j
    /\ DecisionsOf(r) # {} <=> asked[r] # Nothing /\ asked[r].result = Recorded
    /\ \A i \in DecisionsOf(r) : asked[r].payload.copy = decisions[i].copy
                                /\ asked[r].payload.kind = decisions[i].kind

WorkIInv == JournalTyped /\ SavesCarry /\ OneEach /\ ReopensAnswer(decisions)

-----------------------------------------------------------------------------
(* The inductive invariant behind QuietListIsTrue.                             *)

InPlace(where, view) == {c \in Copy : where[c] = view}

(* The pages of a view before the one to come left nothing wanted out. *)
ReadUpTo(op, view, where) ==
  \A k \in 1..(op.scan.page - 1) : PageOf(InPlace(where, view), k, ScanSize) \cap op.wanted \subseteq op.scan.listed

ReadThrough(op, view, where) ==
  view \notin op.scan.cut => InPlace(where, view) \cap op.wanted \subseteq op.scan.listed

(* What a scan of a mailbox that stood still since it began has found. *)
ScanTrue(op, where, newest) ==
  /\ \A c \in op.scan.listed : where[c] # "elsewhere"
  /\ op.phase = "scan" => ReadUpTo(op, op.scan.view, where)
  /\ op.phase = "scan" /\ op.scan.view = "read" => ReadThrough(op, "unread", where)
  /\ op.phase = "observe" /\ ~op.scan.failed =>
       ReadThrough(op, "unread", where) /\ ReadThrough(op, "read", where)
  /\ \A c \in Copy : op.seen[c] \in {newest[c], Nothing}

ListField == {"phase", "scan", "wanted", "todo", "seen", "cursor", "next", "rows", "first"}
ScanField == {"view", "page", "listed", "cut", "from", "failed"}

ListShape(op, now) ==
  /\ ListField \subseteq DOMAIN op
  /\ op.scan = [x \in ScanField |-> op.scan[x]]
  /\ op.seen = [c \in Copy |-> op.seen[c]]
  /\ op.phase \in {"scan", "observe"} /\ op.scan.view \in {"unread", "read"}
  /\ op.scan.page \in Nat \ {0} /\ op.scan.listed \subseteq Copy
  /\ op.scan.from \in Nat /\ op.scan.from <= now
  /\ DOMAIN op.rows = op.wanted /\ op.wanted \subseteq Copy

ListsTrue ==
  \A h \in Handler :
    LET op == handlers[h]
    IN op # Idle /\ op.kind = "list" =>
         ListShape(op, moved) /\ (op.scan.from = moved => ScanTrue(op, place, version))

-----------------------------------------------------------------------------
(* The inductive invariant behind LoadedIsWhole: what a list shows and what    *)
(* its cursor still lists are together what it began with.                     *)

Rest(rows, cursor) == IF cursor = Nothing THEN {} ELSE Listable(rows, cursor)

(* A cursor orders the copies by a journal that is already written. *)
CursorFits(rows, cursor) ==
  cursor # Nothing => cursor \in Cursor /\ cursor.snapshot <= Len(rows)

ListsWhole ==
  \A h \in Handler :
    LET op == handlers[h]
    IN op # Idle /\ op.kind = "list" =>
         /\ {"cursor", "next", "rows", "first"} \subseteq DOMAIN op
         /\ CursorFits(decisions, op.cursor) /\ CursorFits(decisions, op.next)
         /\ IF op.cursor = Nothing THEN op.first = DOMAIN op.rows \union Rest(decisions, op.next)
            ELSE Listable(decisions, op.cursor) = DOMAIN op.rows \union Rest(decisions, op.next)

SectionWhole ==
  /\ section = [x \in {"status", "items", "cursor", "current", "loading", "more", "whole"} |-> section[x]]
  /\ section.status = "ready" =>
       /\ CursorFits(decisions, section.cursor)
       /\ section.whole = DOMAIN section.items \union Rest(decisions, section.cursor)

QuietIInv == moved \in Nat /\ place \in [Copy -> Where] /\ ListsTrue
WholeIInv == ListsWhole /\ SectionWhole
=============================================================================
