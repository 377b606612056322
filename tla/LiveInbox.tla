------------------------------ MODULE LiveInbox ------------------------------
(* The live inbox of one server process (src/src/app/live-inbox.server.ts):    *)
(* lists, searches and refreshes that overlap at their provider calls over a   *)
(* mailbox that moves, the copies whose bodies may be read, and the cursors    *)
(* that continue a reading.                                                    *)
EXTENDS Integers, Sequences, FiniteSets, SequencesExt, Pages

CONSTANTS
  Mailbox,      \* mailboxes Spark knows
  Message,      \* message ids 1..n; Spark lists a higher id before a lower one
  Date,         \* the date each listing states, None where it has none: Spark's
                \* dates come from mail headers, so they need not follow its order
  Initial,      \* where the messages of each mailbox are at first
  Access,       \* the sets of mailboxes Spark may say it can read
  View,         \* the views the browser asks for, of AllViews
  Query,        \* search texts
  Matches,      \* the messages each text matches: [Query -> SUBSET Message]
  Request,      \* request handlers of the process
  PageSize,     \* messages on one provider page
  MaxReads,     \* bound: readings begun
  MaxChanges,   \* bound: changes of the mailboxes
  None

Place == {"elsewhere", "unread", "read"}
AllViews == {"all", "unread", "other"}

ASSUME LiveInboxAssumption ==
  /\ Message \subseteq Nat
  /\ IsFiniteSet(Message)
  /\ IsFiniteSet(Mailbox)
  /\ Date \in [Message -> Nat \cup {None}]
  /\ Initial \subseteq [Mailbox -> [Message -> Place]]
  /\ Access \subseteq SUBSET Mailbox
  /\ View \subseteq AllViews
  /\ Matches \in [Query -> SUBSET Message]
  /\ PageSize \in Nat \ {0}
  /\ MaxReads \in Nat
  /\ MaxChanges \in Nat
  /\ None \notin Nat /\ None \notin AllViews

VARIABLES
  folder,       \* external: where each message of a mailbox is
  changes,      \* external: how often the mailboxes changed; it serves as the clock
  offered,      \* copies whose bodies may be read
  readings,     \* the last stored reading of each view
  discovery,    \* the last stored search
  reads,        \* readings begun
  ops,          \* what each request handler is doing
  held,         \* history: the cursor of the newest list answer of each view
  rechecked,    \* history: copies a body read offered since the last reading began
  removed       \* history: what the last undisturbed refresh said left its view

vars == <<folder, changes, offered, readings, discovery, reads, ops, held, rechecked, removed>>

-----------------------------------------------------------------------------
(* Spark's folders.                                                            *)

Listed(mail, v, b) ==
  {m \in Message : mail[b][m] \in CASE v = "all"    -> {"unread", "read"}
                                    [] v = "unread" -> {"unread"}
                                    [] v = "other"  -> {"read"}}

InView(v, b) == Listed(folder, v, b)

ProviderPage(v, b, p) == PageOf(InView(v, b), p, PageSize)

-----------------------------------------------------------------------------
(* Readings: per mailbox the pages read so far, whether more may follow, and   *)
(* (for the properties) the times of its first and its last page.              *)

NoReading == [view |-> None, cursor |-> None, boxes |-> {}, query |-> None, at |-> <<>>]

NoProgress ==
  [pages |-> <<>>, bounded |-> TRUE, failed |-> FALSE, incomplete |-> FALSE,
   from |-> -1, to |-> -1]

StartedReading(v, boxes) ==
  [view |-> v, cursor |-> None, boxes |-> boxes, query |-> None,
   at |-> [b \in boxes |-> NoProgress]]

Held(progress) == UNION {progress.pages[p] : p \in DOMAIN progress.pages}
CopiesOf(reading) == UNION {{b} \X Held(reading.at[b]) : b \in reading.boxes}

Matched(reading) ==
  {c \in CopiesOf(reading) : reading.query = None \/ c[2] \in Matches[reading.query]}

(* Only a page longer than asked for would count as cut. *)
PageAddedBroken(progress, rows) ==
  [pages |-> Append(progress.pages, rows), bounded |-> Cardinality(rows) > PageSize,
   failed |-> FALSE, incomplete |-> FALSE,
   from |-> IF progress.pages = <<>> THEN changes ELSE progress.from, to |-> changes]

(* One provider page more: its rows are kept and a short page ends the mailbox. *)
PageAdded(progress, rows) ==
  [pages |-> Append(progress.pages, rows), bounded |-> Cardinality(rows) >= PageSize,
   failed |-> FALSE, incomplete |-> FALSE,
   from |-> IF progress.pages = <<>> THEN changes ELSE progress.from, to |-> changes]

(* A first page that fails costs the mailbox, a later one only itself. *)
PageFailed(progress) ==
  IF progress.pages = <<>> THEN [progress EXCEPT !.failed = TRUE, !.bounded = FALSE]
  ELSE [progress EXCEPT !.incomplete = TRUE, !.bounded = TRUE]

BoxOrder(boxes) == SetToSeq(boxes)

(* The page reads still due: a mailbox that ended or failed has none. *)
Due(reading, todo) == SelectSeq(todo, LAMBDA b : reading.at[b].bounded)

OnePageEach(reading) == Due(reading, BoxOrder(reading.boxes))

PagesToRefresh(before, b) ==
  IF b \notin before.boxes THEN 1
  ELSE LET p == before.at[b]
           n == Len(p.pages) + IF p.incomplete THEN 1 ELSE 0
       IN IF n > 1 THEN n ELSE 1

LoadedDepth(before, boxes) ==
  FlattenSeq([i \in 1..Cardinality(boxes) |->
                LET b == BoxOrder(boxes)[i] IN [j \in 1..PagesToRefresh(before, b) |-> b]])

(* Every copy the window no longer lists counts. *)
RemovedFromBroken(before, after, b) == Held(before.at[b]) \ Held(after.at[b])

(* A row without a date counts as the oldest. *)
ListedTime(m) == IF Date[m] = None THEN -1 ELSE Date[m]

(* Copies of the window before that a refresh no longer lists. Of a bounded     *)
(* mailbox those do not count that are not dated after its oldest refreshed row. *)
RemovedFrom(before, after, b) ==
  LET old == Held(before.at[b])
      new == Held(after.at[b])
  IN {m \in old \ new : ~(after.at[b].bounded /\ \A n \in new : ListedTime(m) <= ListedTime(n))}

RemovedCopies(before, after) ==
  UNION {{after.view} \X {b} \X RemovedFrom(before, after, b) :
           b \in {c \in after.boxes \cap before.boxes :
                    ~after.at[c].failed /\ ~after.at[c].incomplete}}

(* What a handler is doing: a reading on its way from its start to its answer. *)
NoOp == [kind |-> "none", stage |-> "idle", view |-> None, query |-> None, read |-> 0,
         before |-> NoReading, cur |-> NoReading, todo |-> <<>>, copy |-> None]

-----------------------------------------------------------------------------
Init ==
  /\ folder \in Initial
  /\ changes = 0
  /\ offered = {}
  /\ readings = [v \in AllViews |-> NoReading]
  /\ discovery = NoReading
  /\ reads = 0
  /\ ops = [q \in Request |-> NoOp]
  /\ held = [v \in AllViews |-> None]
  /\ rechecked = {}
  /\ removed = {}

(* Node runs on from the last page to the answer: nothing of the process comes *)
(* between. What Spark lists for a reading and its arrival are one step: in     *)
(* between only its handler waits for it, and a reading that is overtaken       *)
(* meanwhile keeps nothing of it. A copy looked up is added whoever began       *)
(* meanwhile, so there they are two.                                           *)
Settling(q) == ops[q].stage = "pages" /\ ops[q].todo = <<>>
Calm == \A q \in Request : ~Settling(q)

server == <<offered, readings, discovery, reads, held, rechecked>>
world  == <<folder, changes>>

(* Spark's mailboxes change at any time. *)
Move(b, m) ==
  /\ changes < MaxChanges
  /\ \E place \in Place \ {folder[b][m]} :
       folder' = [folder EXCEPT ![b][m] = place]
  /\ changes' = changes + 1
  /\ removed' = {}
  /\ UNCHANGED <<server, ops>>

(* Every reading closes what was offered before it reads. *)
BeginReading(q, op) ==
  /\ Calm
  /\ ops[q] = NoOp
  /\ reads < MaxReads
  /\ reads' = reads + 1
  /\ offered' = {}
  /\ rechecked' = {}
  /\ ops' = [ops EXCEPT ![q] = [op EXCEPT !.read = reads + 1]]
  /\ UNCHANGED <<world, readings, held, removed>>

(* list(): a cursor continues the stored reading, and only the current cursor  *)
(* advances it; without one, or without a reading, a new reading begins.       *)
List(q, v, cursor, kind) ==
  /\ discovery' = NoReading
  /\ LET op == [NoOp EXCEPT !.kind = kind, !.view = v]
         reading == readings[v]
     IN BeginReading(q,
          IF cursor = None \/ reading = NoReading
          THEN [op EXCEPT !.stage = "boxes"]
          ELSE [op EXCEPT !.stage = "pages", !.cur = reading,
                  !.todo = IF reading.cursor = cursor THEN OnePageEach(reading) ELSE <<>>])

Refresh(q, v) ==
  /\ discovery' = NoReading
  /\ BeginReading(q, [NoOp EXCEPT !.kind = "refresh", !.stage = "boxes", !.view = v,
                                  !.before = readings[v]])

(* search(): one search at a time. Its own cursor advances it; a new text      *)
(* searches what the view's reading holds.                                     *)
Search(q, v, s, cursor) ==
  /\ \A r \in Request : ops[r].kind # "search"
  /\ UNCHANGED discovery
  /\ LET same == discovery.view = v /\ discovery.query = s
         op == [NoOp EXCEPT !.kind = "search", !.stage = "pages", !.view = v, !.query = s,
                            !.before = readings[v]]
     IN BeginReading(q,
          IF cursor # None /\ same
          THEN [op EXCEPT !.cur = discovery,
                  !.todo = IF discovery.cursor = cursor THEN OnePageEach(discovery) ELSE <<>>]
          ELSE IF readings[v] # NoReading THEN [op EXCEPT !.cur = readings[v]]
          ELSE [op EXCEPT !.stage = "boxes"])

(* listMailboxes() answers. *)
Boxes(q) ==
  /\ Calm
  /\ ops[q].stage = "boxes"
  /\ \E boxes \in Access :
       LET op  == ops[q]
           cur == StartedReading(op.view, boxes)
       IN ops' = [ops EXCEPT ![q] =
            [op EXCEPT !.stage = "pages", !.cur = cur,
                       !.todo = CASE op.kind \in {"list", "body"} -> OnePageEach(cur)
                                  [] op.kind = "refresh" -> LoadedDepth(op.before, boxes)
                                  [] op.kind = "search"  -> <<>>]]
  /\ UNCHANGED <<world, server, removed>>

(* One page of one mailbox is read, or its read fails. *)
ReadPage(q) ==
  /\ Calm
  /\ ops[q].stage = "pages" /\ ops[q].todo # <<>>
  /\ LET op == ops[q]
         b  == Head(op.todo)
         p  == op.cur.at[b]
     IN \E progress \in {PageAdded(p, ProviderPage(op.view, b, Len(p.pages) + 1)),
                         PageFailed(p)} :
          LET cur == [op.cur EXCEPT !.at[b] = progress]
          IN ops' = [ops EXCEPT ![q] = [op EXCEPT !.cur = cur,
                                                  !.todo = Due(cur, Tail(op.todo))]]
  /\ UNCHANGED <<world, server, removed>>

-----------------------------------------------------------------------------
(* Only the latest reading decides what is offered and what is stored. *)
Latest(op) == op.read = reads

(* An overtaken list still opens its copies. *)
SettleListBroken(q) ==
  LET op  == ops[q]
      cur == [op.cur EXCEPT !.cursor = op.read]
  IN /\ op.kind \in {"list", "refresh", "body"}
     /\ IF Latest(op)
        THEN /\ readings' = [readings EXCEPT ![op.view] = cur]
             /\ held' = [held EXCEPT ![op.view] = IF op.kind = "body" THEN None ELSE op.read]
        ELSE UNCHANGED <<readings, held>>
     /\ offered' = CopiesOf(cur)
     /\ UNCHANGED <<discovery, removed>>

SettleList(q) ==
  LET op  == ops[q]
      cur == [op.cur EXCEPT !.cursor = op.read]
  IN /\ op.kind \in {"list", "refresh", "body"}
     /\ IF Latest(op)
        THEN /\ readings' = [readings EXCEPT ![op.view] = cur]
             /\ offered' = CopiesOf(cur)
             /\ held' = [held EXCEPT ![op.view] = IF op.kind = "body" THEN None ELSE op.read]
        ELSE UNCHANGED <<readings, offered, held>>
     /\ removed' = IF op.kind = "refresh" /\ \A b \in cur.boxes : cur.at[b].from = changes
                   THEN RemovedCopies(op.before, cur) ELSE {}
     /\ UNCHANGED discovery

(* A search puts its own cursor on the list's reading. *)
StoredBySearchBroken(op, cur) == [cur EXCEPT !.query = None]

(* A search keeps the list's cursor valid over the pages it added. *)
StoredBySearch(op, cur) ==
  [cur EXCEPT !.query = None,
              !.cursor = IF op.before = NoReading THEN cur.cursor ELSE op.before.cursor]

SettleSearch(q) ==
  LET op  == ops[q]
      cur == [op.cur EXCEPT !.cursor = op.read, !.query = op.query]
  IN /\ op.kind = "search"
     /\ IF Latest(op)
        THEN /\ discovery' = cur
             /\ readings' = [readings EXCEPT ![op.view] = StoredBySearch(op, cur)]
             /\ offered' = Matched(cur)
        ELSE UNCHANGED <<discovery, readings, offered>>
     /\ UNCHANGED <<held, removed>>

Settle(q) ==
  /\ Settling(q)
  /\ SettleList(q) \/ SettleSearch(q)
  /\ ops' = [ops EXCEPT ![q] = NoOp]
  /\ UNCHANGED <<world, reads, rechecked>>

(* No mailboxes, or the browser gave up: the reading is unavailable. *)
Unavailable(q) ==
  /\ Calm
  /\ ops[q].stage \in {"boxes", "pages"}
  /\ ops' = [ops EXCEPT ![q] = NoOp]
  /\ UNCHANGED <<world, server, removed>>

-----------------------------------------------------------------------------
(* body(): a copy that is not offered is looked up on the page its row named,  *)
(* or the whole Inbox is listed again. Reading the thread of an offered copy   *)
(* changes nothing here.                                                       *)
Recheck(q, copy) ==
  /\ Calm
  /\ ops[q] = NoOp
  /\ copy \notin offered
  /\ ops' = [ops EXCEPT ![q] = [NoOp EXCEPT !.stage = "access", !.copy = copy]]
  /\ UNCHANGED <<world, server, removed>>

(* selectedPageOffers: listMailboxes() says the mailbox of the copy is readable. *)
CopyReadable(q) ==
  /\ Calm
  /\ ops[q].stage = "access"
  /\ \E boxes \in Access : ops[q].copy[1] \in boxes
  /\ ops' = [ops EXCEPT ![q].stage = "page"]
  /\ UNCHANGED <<world, server, removed>>

(* Spark lists the page the row named, of any view, and the copy is on it. The *)
(* page is under way to the process.                                           *)
PageLists(q) ==
  /\ Calm
  /\ ops[q].stage = "page"
  /\ \E v \in View, p \in 1..Cardinality(Message) :
       ops[q].copy[2] \in ProviderPage(v, ops[q].copy[1], p)
  /\ ops' = [ops EXCEPT ![q].stage = "found"]
  /\ UNCHANGED <<world, server, removed>>

(* The page arrives: the copy is added to what is offered now. *)
Rechecked(q) ==
  /\ Calm
  /\ ops[q].stage = "found"
  /\ offered' = offered \cup {ops[q].copy}
  /\ rechecked' = rechecked \cup {ops[q].copy}
  /\ ops' = [ops EXCEPT ![q] = NoOp]
  /\ UNCHANGED <<world, readings, discovery, reads, held, removed>>

(* The mailbox is not readable, the page does not list the copy, or Spark fails. *)
RecheckFails(q) ==
  /\ Calm
  /\ ops[q].stage \in {"access", "page", "found"}
  /\ ops' = [ops EXCEPT ![q] = NoOp]
  /\ UNCHANGED <<world, server, removed>>

BodyByListing(q) == offered # Mailbox \X Message /\ List(q, "all", None, "body")

-----------------------------------------------------------------------------
Cursor == 1..reads \cup {None}

Next ==
  \/ \E b \in Mailbox, m \in Message : Move(b, m)
  \/ \E q \in Request :
       \/ \E v \in View : \E c \in Cursor : List(q, v, c, "list")
       \/ \E v \in View : Refresh(q, v)
       \/ \E v \in View, s \in Query : \E c \in Cursor : Search(q, v, s, c)
       \/ Boxes(q)
       \/ ReadPage(q)
       \/ Settle(q)
       \/ Unavailable(q)
       \/ BodyByListing(q)
       \/ \E copy \in Mailbox \X Message : Recheck(q, copy)
       \/ CopyReadable(q)
       \/ PageLists(q)
       \/ Rechecked(q)
       \/ RecheckFails(q)

Spec == Init /\ [][Next]_vars

-----------------------------------------------------------------------------
(* Properties.                                                                 *)

(* Every copy whose body may be read stands in a stored reading or search, or  *)
(* a body read that found it on its own page added it since the newest reading *)
(* began, however long before that the page was listed. A reading that was      *)
(* overtaken or that failed opens nothing (`read === reads` in live-inbox).    *)
OfferedStands ==
  \A c \in offered :
    \/ c \in rechecked
    \/ c \in CopiesOf(discovery)
    \/ \E v \in AllViews : c \in CopiesOf(readings[v])

(* The cursor of the newest list answer of a view continues that view's        *)
(* reading, whatever searches, failures and overtaken readings came between    *)
(* ("Keep a list's cursor valid").                                             *)
CursorContinues ==
  \A v \in AllViews : held[v] # None => readings[v].cursor = held[v]

Quiet(progress) ==
  ~progress.failed /\ progress.from = changes /\ progress.to = changes

(* A reading of a mailbox that did not move meanwhile, and that the scope says *)
(* is neither bounded nor failed, holds exactly what the view holds, over any  *)
(* number of continued pages, retries and stale cursors.                       *)
QuietReadingIsExact ==
  \A v \in AllViews : \A b \in readings[v].boxes :
    LET p == readings[v].at[b]
    IN Quiet(p) /\ ~p.bounded => Held(p) = InView(v, b)

(* What an undisturbed refresh counted as removed has left the view, although  *)
(* the refresh reads no further than the window loaded before; unless Spark     *)
(* lists a row above it that is dated earlier or not at all: below such a row   *)
(* changesBetween takes a copy that was shifted out of the window for a gone one. *)
RemovedIsGone ==
  \A r \in removed :
    \/ r[3] \notin InView(r[1], r[2])
    \/ \E n \in InView(r[1], r[2]) : n > r[3] /\ ListedTime(n) < ListedTime(r[3])

(* live-inbox.server.ts:145: "Nothing is offered while a list reads." A body   *)
(* read that ends meanwhile adds its copy all the same.                        *)
NothingWhileListReads ==
  \A q \in Request : ops[q].kind \in {"list", "body"} /\ Latest(ops[q]) => offered = {}

-----------------------------------------------------------------------------
(* The inductive invariant behind OfferedStands and CursorContinues.           *)

ReadingField == {"view", "cursor", "boxes", "query", "at"}
IsReading(r) == r = [x \in ReadingField |-> r[x]]
OpField == {"kind", "stage", "view", "query", "read", "before", "cur", "todo", "copy"}
IsOp(op) == op = [x \in OpField |-> op[x]]

Shapes ==
  /\ reads \in Nat
  /\ readings = [v \in AllViews |-> readings[v]] /\ \A v \in AllViews : IsReading(readings[v])
  /\ held = [v \in AllViews |-> held[v]]
  /\ IsReading(discovery)

OpShapes ==
  /\ ops = [q \in Request |-> ops[q]]
  /\ \A q \in Request : IsOp(ops[q]) /\ IsReading(ops[q].cur) /\ IsReading(ops[q].before)

(* Every reading under way has a number of its own, and one that only looks a  *)
(* copy up has none.                                                           *)
Numbered ==
  /\ \A q \in Request : ops[q].kind # "none" <=> ops[q].stage \in {"boxes", "pages"}
  /\ \A q \in Request : ops[q].kind # "none" =>
       ops[q].view \in AllViews /\ ops[q].read \in 1..reads
  /\ \A q, r \in Request :
       ops[q].kind # "none" /\ ops[r].kind # "none" /\ ops[q].read = ops[r].read => q = r

(* While a search is the latest reading nobody changes what it started from. *)
SearchKeeps ==
  \A q \in Request : ops[q].kind = "search" /\ Latest(ops[q]) =>
    ops[q].before = readings[ops[q].view]

IInv == Shapes /\ OpShapes /\ Numbered /\ SearchKeeps /\ OfferedStands /\ CursorContinues

-----------------------------------------------------------------------------
(* The inductive invariant behind QuietReadingIsExact and RemovedIsGone: what  *)
(* the pages of a reading, stored or on its way, stand for.                    *)

ProgressField == {"pages", "bounded", "failed", "incomplete", "from", "to"}

(* The pages are read within the interval they state, and those of a mailbox   *)
(* that did not move since then are the provider's. A mailbox that ended        *)
(* without a failure ended with a short page.                                  *)
ProgressSound(p, listed, now) ==
  /\ p = [x \in ProgressField |-> p[x]]
  /\ p.pages \in Seq(SUBSET Message)
  /\ p.from \in Int /\ p.to \in Int /\ p.from <= p.to /\ p.to <= now
  /\ p.pages = <<>> => p.from = -1
  /\ p.failed => p.pages = <<>>
  /\ p.from = now => \A k \in 1..Len(p.pages) : p.pages[k] = PageOf(listed, k, PageSize)
  /\ ~p.bounded /\ ~p.failed =>
       p.pages # <<>> /\ Cardinality(p.pages[Len(p.pages)]) < PageSize

Sound(r, mail, now) ==
  /\ r.boxes \subseteq Mailbox
  /\ r.at = [b \in r.boxes |-> r.at[b]]
  /\ \A b \in r.boxes : ProgressSound(r.at[b], Listed(mail, r.view, b), now)

(* A stored reading or search, and one on its way, is of the view it is for. *)
ReadingsSound ==
  /\ \A v \in AllViews : /\ Sound(readings[v], folder, changes)
                         /\ readings[v] # NoReading => readings[v].view = v
  /\ Sound(discovery, folder, changes)

OpSound(op, mail, now) ==
  op.stage = "pages" => Sound(op.cur, mail, now) /\ op.cur.view = op.view

OpsSound == \A q \in Request : OpSound(ops[q], folder, changes)

Books == changes \in Nat

Exact == Books /\ ReadingsSound /\ OpsSound /\ RemovedIsGone
=============================================================================
