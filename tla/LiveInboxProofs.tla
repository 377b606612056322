--------------------------- MODULE LiveInboxProofs ---------------------------
(* Proofs about LiveInbox, for any mailboxes, messages and number of readings  *)
(* side by side: a body may be read only of a copy that stands in what is       *)
(* stored or that a body read added, and the newest list answer of a view keeps *)
(* a cursor that continues it. A reading stores and opens only while it is the latest one, which IInv   *)
(* turns into facts about the readings under way (Numbered, SearchKeeps).       *)
(* What the pages of a reading stand for is Exact: of a mailbox that did not    *)
(* move they are the provider's pages, which hold every message down to the     *)
(* last rank they reach (PageReaches), and all of them after a short page       *)
(* (ShortPageEnds). Exact readings and removals follow from it.                 *)
EXTENDS LiveInbox, PagesProofs

LEMMA NoOpShape ==
  /\ IsOp(NoOp) /\ IsReading(NoReading)
  /\ NoOp.kind = "none" /\ NoOp.stage = "idle"
  /\ NoOp.cur = NoReading /\ NoOp.before = NoReading
<1>1. IsOp(NoOp) /\ IsReading(NoReading)
  BY DEF IsOp, OpField, NoOp, IsReading, ReadingField, NoReading
<1>2. NoOp.kind = "none" /\ NoOp.stage = "idle" /\ NoOp.cur = NoReading /\ NoOp.before = NoReading
  BY DEF NoOp
<1> QED
  BY <1>1, <1>2

\* Nothing is offered, stored or under way at first.
LEMMA InitIInv == Init => IInv
<1> SUFFICES ASSUME Init PROVE IInv
  OBVIOUS
<1>3. Shapes
  BY NoOpShape DEF Init, Shapes
<1>4. OpShapes /\ Numbered /\ SearchKeeps
  BY NoOpShape DEF Init, OpShapes, Numbered, SearchKeeps
<1>5. OfferedStands /\ CursorContinues
  BY DEF Init, OfferedStands, CursorContinues
<1> QED
  BY <1>3, <1>4, <1>5 DEF IInv

\* What the properties say stays true while nothing they speak of changes.
LEMMA SameAnswers ==
  ASSUME OfferedStands, CursorContinues, Shapes,
         UNCHANGED <<offered, rechecked, readings, discovery, held, reads>>
  PROVE  OfferedStands' /\ CursorContinues' /\ Shapes'
<1>1. OfferedStands'
  BY DEF OfferedStands, CopiesOf, Held
<1>2. CursorContinues'
  BY DEF CursorContinues
<1>3. Shapes'
  BY DEF Shapes, IsReading
<1> QED
  BY <1>1, <1>2, <1>3

\* A reading that goes on keeps its number; one that ended has none.
LEMMA OpStep ==
  ASSUME OpShapes, Numbered, reads \in Nat, reads' = reads,
         NEW q \in Request, NEW op, ops' = [ops EXCEPT ![q] = op],
         IsOp(op), IsReading(op.cur), IsReading(op.before),
         \/ op.kind = "none" /\ op.stage \notin {"boxes", "pages"}
         \/ /\ ops[q].kind # "none" /\ op.kind = ops[q].kind /\ op.stage = "pages"
            /\ op.view = ops[q].view /\ op.read = ops[q].read /\ op.before = ops[q].before
  PROVE  /\ OpShapes' /\ Numbered'
         /\ SearchKeeps /\ readings' = readings => SearchKeeps'
<1>1. ops'[q] = op /\ \A r \in Request : r # q => ops'[r] = ops[r]
  BY DEF OpShapes
<1>2. OpShapes'
  BY <1>1 DEF OpShapes, IsOp, IsReading
<1>3. Numbered'
  BY <1>1 DEF Numbered
<1>4. ASSUME SearchKeeps, readings' = readings PROVE SearchKeeps'
  BY <1>1, <1>4 DEF SearchKeeps, Latest
<1> QED
  BY <1>2, <1>3, <1>4

\* A new reading closes what was offered and takes the next number.
LEMMA BeginKeeps ==
  ASSUME IInv, NEW q \in Request, NEW op, BeginReading(q, op), discovery' \in {discovery, NoReading},
         IsOp(op), IsReading(op.cur), IsReading(op.before),
         op.kind # "none", op.stage \in {"boxes", "pages"}, op.view \in AllViews,
         op.kind = "search" => op.before = readings[op.view]
  PROVE  IInv'
<1> DEFINE new == [op EXCEPT !.read = reads + 1]
<1>1. /\ reads \in Nat /\ reads' = reads + 1 /\ ops' = [ops EXCEPT ![q] = new]
      /\ offered' = {} /\ UNCHANGED <<readings, held>>
  BY DEF BeginReading, IInv, Shapes
<1>2. /\ IsOp(new) /\ new.read = reads + 1 /\ new.kind = op.kind /\ new.stage = op.stage
      /\ new.view = op.view /\ new.before = op.before /\ new.cur = op.cur
  BY DEF IsOp, OpField
<1>3. ops'[q] = new /\ \A r \in Request : r # q => ops'[r] = ops[r]
  BY <1>1 DEF IInv, OpShapes
<1> HIDE DEF new
<1>4. IsReading(discovery')
  BY NoOpShape DEF IInv, Shapes
<1>5. Shapes'
  BY <1>1, <1>4 DEF IInv, Shapes, IsReading
<1>6. OpShapes'
  BY <1>1, <1>2, <1>3 DEF IInv, OpShapes, IsOp, IsReading
<1>7. Numbered'
  BY <1>1, <1>2, <1>3 DEF IInv, Numbered
<1>8. SearchKeeps'
  BY <1>1, <1>2, <1>3 DEF IInv, SearchKeeps, Numbered, Latest
<1>9. OfferedStands' /\ CursorContinues'
  BY <1>1 DEF IInv, OfferedStands, CursorContinues
<1> QED
  BY <1>5, <1>6, <1>7, <1>8, <1>9 DEF IInv

\* A list or a search that begins or continues a stored reading.
LEMMA ListKeeps ==
  ASSUME IInv, NEW q \in Request, NEW v \in AllViews, NEW cursor, NEW kind \in {"list", "body"},
         List(q, v, cursor, kind)
  PROVE  IInv'
<1> DEFINE op == [NoOp EXCEPT !.kind = kind, !.view = v]
           begun == [op EXCEPT !.stage = "boxes"]
           more == [op EXCEPT !.stage = "pages", !.cur = readings[v],
                      !.todo = IF readings[v].cursor = cursor THEN OnePageEach(readings[v]) ELSE <<>>]
<1>1. discovery' \in {discovery, NoReading}
  BY DEF List
<1>2. BeginReading(q, begun) \/ BeginReading(q, more)
  BY DEF List
<1>3. IsReading(readings[v]) /\ IsReading(NoReading)
  BY NoOpShape DEF IInv, Shapes
<1>4. /\ IsOp(begun) /\ begun.kind = kind /\ begun.stage = "boxes" /\ begun.view = v
      /\ begun.cur = NoReading /\ begun.before = NoReading
  BY NoOpShape DEF IsOp, OpField
<1>5. /\ IsOp(more) /\ more.kind = kind /\ more.stage = "pages" /\ more.view = v
      /\ more.cur = readings[v] /\ more.before = NoReading
  BY NoOpShape DEF IsOp, OpField
<1> HIDE DEF begun, more
<1>6. CASE BeginReading(q, begun)
  BY <1>1, <1>3, <1>4, <1>6, BeginKeeps
<1>7. CASE BeginReading(q, more)
  BY <1>1, <1>3, <1>5, <1>7, BeginKeeps
<1> QED
  BY <1>2, <1>6, <1>7

LEMMA RefreshKeeps ==
  ASSUME IInv, NEW q \in Request, NEW v \in AllViews, Refresh(q, v)
  PROVE  IInv'
<1> DEFINE op == [NoOp EXCEPT !.kind = "refresh", !.stage = "boxes", !.view = v,
                              !.before = readings[v]]
<1>1. discovery' \in {discovery, NoReading} /\ BeginReading(q, op)
  BY DEF Refresh
<1>2. IsReading(readings[v]) /\ IsReading(NoReading)
  BY NoOpShape DEF IInv, Shapes
<1>3. /\ IsOp(op) /\ op.kind = "refresh" /\ op.stage = "boxes" /\ op.view = v
      /\ op.cur = NoReading /\ op.before = readings[v]
  BY NoOpShape DEF IsOp, OpField
<1> HIDE DEF op
<1> QED
  BY <1>1, <1>2, <1>3, BeginKeeps

LEMMA SearchBegins ==
  ASSUME IInv, NEW q \in Request, NEW v \in AllViews, NEW s, NEW cursor, Search(q, v, s, cursor)
  PROVE  IInv'
<1> DEFINE op == [NoOp EXCEPT !.kind = "search", !.stage = "pages", !.view = v, !.query = s,
                              !.before = readings[v]]
           more == [op EXCEPT !.cur = discovery,
                      !.todo = IF discovery.cursor = cursor THEN OnePageEach(discovery) ELSE <<>>]
           over == [op EXCEPT !.cur = readings[v]]
           begun == [op EXCEPT !.stage = "boxes"]
<1>1. discovery' \in {discovery, NoReading}
  BY DEF Search
<1>2. BeginReading(q, more) \/ BeginReading(q, over) \/ BeginReading(q, begun)
  BY DEF Search
<1>3. IsReading(readings[v]) /\ IsReading(discovery) /\ IsReading(NoReading)
  BY NoOpShape DEF IInv, Shapes
<1>4. /\ IsOp(more) /\ more.kind = "search" /\ more.stage = "pages" /\ more.view = v
      /\ more.cur = discovery /\ more.before = readings[v]
  BY NoOpShape DEF IsOp, OpField
<1>5. /\ IsOp(over) /\ over.kind = "search" /\ over.stage = "pages" /\ over.view = v
      /\ over.cur = readings[v] /\ over.before = readings[v]
  BY NoOpShape DEF IsOp, OpField
<1>6. /\ IsOp(begun) /\ begun.kind = "search" /\ begun.stage = "boxes" /\ begun.view = v
      /\ begun.cur = NoReading /\ begun.before = readings[v]
  BY NoOpShape DEF IsOp, OpField
<1> HIDE DEF more, over, begun
<1>7. CASE BeginReading(q, more)
  BY <1>1, <1>3, <1>4, <1>7, BeginKeeps
<1>8. CASE BeginReading(q, over)
  BY <1>1, <1>3, <1>5, <1>8, BeginKeeps
<1>9. CASE BeginReading(q, begun)
  BY <1>1, <1>3, <1>6, <1>9, BeginKeeps
<1> QED
  BY <1>2, <1>7, <1>8, <1>9

\* The mailboxes are known, or one page more is: the reading goes on.
LEMMA GoesOn ==
  ASSUME IInv, NEW q \in Request, Boxes(q) \/ ReadPage(q)
  PROVE  IInv'
<1> DEFINE was == ops[q]
<1>1. /\ IsOp(was) /\ IsReading(was.cur) /\ IsReading(was.before) /\ reads \in Nat
  BY DEF IInv, OpShapes, Shapes
<1>2. was.stage \in {"boxes", "pages"} /\ was.kind # "none"
  BY DEF Boxes, ReadPage, IInv, Numbered
<1>3. PICK cur, todo : /\ ops' = [ops EXCEPT ![q] = [was EXCEPT !.stage = "pages", !.cur = cur, !.todo = todo]]
                       /\ IsReading(cur)
  <2>1. CASE Boxes(q)
    <3>1. PICK boxes \in Access :
            LET c == StartedReading(was.view, boxes)
            IN ops' = [ops EXCEPT ![q] =
                 [was EXCEPT !.stage = "pages", !.cur = c,
                             !.todo = CASE was.kind \in {"list", "body"} -> OnePageEach(c)
                                        [] was.kind = "refresh" -> LoadedDepth(was.before, boxes)
                                        [] was.kind = "search"  -> <<>>]]
      BY <2>1 DEF Boxes
    <3>2. IsReading(StartedReading(was.view, boxes))
      BY DEF IsReading, ReadingField, StartedReading
    <3> QED
      BY <3>1, <3>2
  <2>2. CASE ReadPage(q)
    <3>1. PICK progress :
            LET c == [was.cur EXCEPT !.at[Head(was.todo)] = progress]
            IN ops' = [ops EXCEPT ![q] = [was EXCEPT !.cur = c, !.todo = Due(c, Tail(was.todo))]]
      BY <2>2 DEF ReadPage
    <3> DEFINE c == [was.cur EXCEPT !.at[Head(was.todo)] = progress]
    <3>2. IsReading(c)
      BY <1>1 DEF IsReading, ReadingField
    <3>3. was.stage = "pages"
      BY <2>2 DEF ReadPage
    <3> HIDE DEF c
    <3>4. \A todo : [was EXCEPT !.cur = c, !.todo = todo]
                    = [was EXCEPT !.stage = "pages", !.cur = c, !.todo = todo]
      BY <1>1, <3>3 DEF IsOp, OpField
    <3>5. ops' = [ops EXCEPT ![q] = [was EXCEPT !.cur = c, !.todo = Due(c, Tail(was.todo))]]
      BY <3>1 DEF c
    <3> HIDE DEF was
    <3> QED
      BY <3>2, <3>4, <3>5
  <2> QED
    BY <2>1, <2>2
<1> DEFINE op == [was EXCEPT !.stage = "pages", !.cur = cur, !.todo = todo]
<1>4. /\ IsOp(op) /\ op.kind = was.kind /\ op.stage = "pages" /\ op.view = was.view
      /\ op.read = was.read /\ op.before = was.before /\ op.cur = cur
  BY <1>1 DEF IsOp, OpField
<1>5. UNCHANGED <<offered, rechecked, readings, discovery, held, reads>>
  BY DEF Boxes, ReadPage, server
<1>6. ops' = [ops EXCEPT ![q] = op]
  BY <1>3
<1> HIDE DEF op
<1>7. OpShapes' /\ Numbered' /\ SearchKeeps'
  BY <1>1, <1>2, <1>3, <1>4, <1>5, <1>6, OpStep DEF IInv
<1>8. OfferedStands' /\ CursorContinues' /\ Shapes'
  BY <1>5, SameAnswers DEF IInv
<1> QED
  BY <1>7, <1>8 DEF IInv

\* Only the latest list, refresh or body listing stores what it read.
LEMMA ListSettles ==
  ASSUME IInv, NEW q \in Request, Settle(q), SettleList(q)
  PROVE  IInv'
<1> DEFINE op == ops[q]
           cur == [op.cur EXCEPT !.cursor = op.read]
<1>1. /\ reads \in Nat /\ op.kind # "none" /\ op.view \in AllViews /\ op.read \in 1..reads
      /\ IsReading(op.cur) /\ op.kind # "search"
  BY DEF Settle, Settling, SettleList, IInv, Shapes, OpShapes, Numbered
<1>2. IsReading(cur) /\ cur.cursor = op.read
  BY <1>1 DEF IsReading, ReadingField
<1>3. ops' = [ops EXCEPT ![q] = NoOp] /\ UNCHANGED <<reads, rechecked, discovery>>
  BY DEF Settle, SettleList
<1>4. ops'[q] = NoOp /\ \A r \in Request : r # q => ops'[r] = ops[r]
  BY <1>3 DEF IInv, OpShapes
<1>5. OpShapes' /\ Numbered' /\ (readings' = readings => SearchKeeps')
  BY <1>1, <1>3, NoOpShape, OpStep DEF IInv
<1>6. CASE ~Latest(op)
  <2>1. UNCHANGED <<offered, rechecked, readings, discovery, held, reads>>
    BY <1>3, <1>6 DEF SettleList
  <2> QED
    BY <1>5, <2>1, SameAnswers DEF IInv
<1>7. CASE Latest(op)
  <2>1. /\ readings' = [readings EXCEPT ![op.view] = cur] /\ offered' = CopiesOf(cur)
        /\ held' = [held EXCEPT ![op.view] = IF op.kind = "body" THEN None ELSE op.read]
    BY <1>7 DEF SettleList
  <2> HIDE DEF cur
  <2>2. readings'[op.view] = cur /\ \A v \in AllViews : v # op.view => readings'[v] = readings[v]
    BY <1>1, <2>1 DEF IInv, Shapes
  <2>3. Shapes'
    BY <1>1, <1>2, <1>3, <2>1, <2>2 DEF IInv, Shapes, IsReading
  <2>4. SearchKeeps'
    BY <1>1, <1>3, <1>4, <1>7, NoOpShape DEF IInv, SearchKeeps, Numbered, Latest
  <2>5. OfferedStands'
    BY <1>1, <2>1, <2>2 DEF OfferedStands, CopiesOf, Held
  <2>6. CursorContinues'
    BY <1>1, <1>2, <2>1, <2>2 DEF IInv, Shapes, CursorContinues
  <2> QED
    BY <1>5, <2>3, <2>4, <2>5, <2>6 DEF IInv
<1> QED
  BY <1>6, <1>7

\* The latest search stores its copies and leaves the list's cursor valid.
LEMMA SearchSettles ==
  ASSUME IInv, NEW q \in Request, Settle(q), SettleSearch(q)
  PROVE  IInv'
<1> DEFINE op == ops[q]
           cur == [op.cur EXCEPT !.cursor = op.read, !.query = op.query]
           stored == StoredBySearch(op, cur)
<1>1. /\ reads \in Nat /\ op.kind = "search" /\ op.view \in AllViews /\ op.read \in 1..reads
      /\ IsReading(op.cur)
  BY DEF Settle, Settling, SettleSearch, IInv, Shapes, OpShapes, Numbered
<1>2. IsReading(cur) /\ cur.cursor = op.read
  BY <1>1 DEF IsReading, ReadingField
<1>3. ops' = [ops EXCEPT ![q] = NoOp] /\ UNCHANGED <<reads, rechecked, held>>
  BY DEF Settle, SettleSearch
<1>4. ops'[q] = NoOp /\ \A r \in Request : r # q => ops'[r] = ops[r]
  BY <1>3 DEF IInv, OpShapes
<1>5. OpShapes' /\ Numbered' /\ (readings' = readings => SearchKeeps')
  BY <1>1, <1>3, NoOpShape, OpStep DEF IInv
<1>6. CASE ~Latest(op)
  <2>1. UNCHANGED <<offered, rechecked, readings, discovery, held, reads>>
    BY <1>3, <1>6 DEF SettleSearch
  <2> QED
    BY <1>5, <2>1, SameAnswers DEF IInv
<1>7. CASE Latest(op)
  <2>1. /\ readings' = [readings EXCEPT ![op.view] = stored] /\ offered' = Matched(cur)
        /\ discovery' = cur
    BY <1>7 DEF SettleSearch
  <2>2. /\ IsReading(stored)
        /\ stored.cursor = IF op.before = NoReading THEN cur.cursor ELSE op.before.cursor
        /\ stored.boxes = cur.boxes /\ stored.at = cur.at
    BY <1>1, <1>2 DEF IsReading, ReadingField, StoredBySearch
  <2> HIDE DEF cur, stored
  <2>3. readings'[op.view] = stored /\ \A v \in AllViews : v # op.view => readings'[v] = readings[v]
    BY <1>1, <2>1 DEF IInv, Shapes
  <2>4. Shapes'
    BY <1>1, <1>2, <1>3, <2>1, <2>2, <2>3 DEF IInv, Shapes, IsReading
  <2>5. SearchKeeps'
    BY <1>1, <1>3, <1>4, <1>7, NoOpShape DEF IInv, SearchKeeps, Numbered, Latest
  <2>6. offered' \subseteq CopiesOf(cur) /\ CopiesOf(discovery)' = CopiesOf(cur)
    BY <2>1 DEF Matched, CopiesOf, Held
  <2>7. OfferedStands'
    BY <2>6 DEF OfferedStands
  <2>8. ASSUME held[op.view] # None
        PROVE  readings'[op.view].cursor = held[op.view]
    <3>1. op.before = readings[op.view] /\ readings[op.view].cursor = held[op.view]
      BY <1>1, <1>7, <2>8 DEF IInv, SearchKeeps, CursorContinues
    <3>2. op.before # NoReading
      BY <3>1, <2>8 DEF NoReading
    <3> QED
      BY <2>2, <2>3, <3>1, <3>2
  <2>9. CursorContinues'
    BY <1>1, <1>3, <2>3, <2>8 DEF IInv, CursorContinues
  <2> QED
    BY <1>5, <2>4, <2>5, <2>7, <2>9 DEF IInv
<1> QED
  BY <1>6, <1>7

\* What a handler does that neither reads for a list nor settles: it gives up, or
\* looks one copy up.
Aside(q, copy) ==
  \/ Unavailable(q) \/ Recheck(q, copy) \/ CopyReadable(q) \/ PageLists(q)
  \/ Rechecked(q) \/ RecheckFails(q)

\* A handler that looks a copy up has no reading under way, before and after.
LEMMA AsideSteps ==
  ASSUME IInv, NEW q \in Request, NEW copy, Aside(q, copy)
  PROVE  /\ UNCHANGED <<world, readings, discovery, held, reads, removed>>
         /\ \E op : /\ ops' = [ops EXCEPT ![q] = op] /\ IsOp(op)
                    /\ op.kind = "none" /\ op.stage \notin {"boxes", "pages"}
                    /\ IsReading(op.cur) /\ IsReading(op.before)
<1> DEFINE look == [NoOp EXCEPT !.stage = "access", !.copy = copy]
           more(stage) == [ops[q] EXCEPT !.stage = stage]
<1>1. UNCHANGED <<world, readings, discovery, held, reads, removed>>
  BY DEF Aside, Unavailable, Recheck, CopyReadable, PageLists, Rechecked, RecheckFails, server
<1>2. CASE Recheck(q, copy)
  <2>1. /\ IsOp(look) /\ look.kind = "none" /\ look.stage = "access"
        /\ look.cur = NoReading /\ look.before = NoReading
    BY NoOpShape DEF IsOp, OpField
  <2>2. ops' = [ops EXCEPT ![q] = look]
    BY <1>2 DEF Recheck
  <2> HIDE DEF look
  <2> QED
    BY <1>1, <2>1, <2>2, NoOpShape
<1>3. CASE CopyReadable(q) \/ PageLists(q)
  <2>1. PICK stage \in {"page", "found"} : /\ ops' = [ops EXCEPT ![q] = more(stage)]
                                          /\ ops[q].stage \in {"access", "page"}
    <3>1. /\ ops[q].stage \in {"access", "page"}
          /\ \/ ops' = [ops EXCEPT ![q].stage = "page"] \/ ops' = [ops EXCEPT ![q].stage = "found"]
      BY <1>3 DEF CopyReadable, PageLists
    <3>2. [ops EXCEPT ![q].stage = "page"] = [ops EXCEPT ![q] = more("page")]
      OBVIOUS
    <3>3. [ops EXCEPT ![q].stage = "found"] = [ops EXCEPT ![q] = more("found")]
      OBVIOUS
    <3> QED
      BY <3>1, <3>2, <3>3
  <2>2. IsOp(ops[q]) /\ IsReading(ops[q].cur) /\ IsReading(ops[q].before) /\ ops[q].kind = "none"
    BY <2>1 DEF IInv, OpShapes, Numbered
  <2>3. /\ IsOp(more(stage)) /\ more(stage).kind = "none" /\ more(stage).stage = stage
        /\ more(stage).cur = ops[q].cur /\ more(stage).before = ops[q].before
    BY <2>2 DEF IsOp, OpField
  <2> HIDE DEF more
  <2> QED
    BY <1>1, <2>1, <2>2, <2>3
<1>4. CASE Unavailable(q) \/ Rechecked(q) \/ RecheckFails(q)
  <2>1. ops' = [ops EXCEPT ![q] = NoOp]
    BY <1>4 DEF Unavailable, Rechecked, RecheckFails
  <2> QED
    BY <1>1, <2>1, NoOpShape
<1> QED
  BY <1>2, <1>3, <1>4 DEF Aside

\* A reading given up, or a copy looked up on the page its row named.
LEMMA LeavesReadings ==
  ASSUME IInv, NEW q \in Request, NEW copy, Aside(q, copy)
  PROVE  IInv'
<1>1. UNCHANGED <<readings, discovery, held, reads>>
  BY AsideSteps
<1>2. PICK op : /\ ops' = [ops EXCEPT ![q] = op] /\ IsOp(op)
                /\ op.kind = "none" /\ op.stage \notin {"boxes", "pages"}
                /\ IsReading(op.cur) /\ IsReading(op.before)
  BY AsideSteps
<1>3. OpShapes' /\ Numbered' /\ SearchKeeps'
  BY <1>1, <1>2, OpStep DEF IInv, Shapes
<1>4. Shapes' /\ CursorContinues'
  BY <1>1 DEF IInv, Shapes, CursorContinues, IsReading
<1>5. OfferedStands'
  <2>1. UNCHANGED <<offered, rechecked>> \/ \E c : offered' = offered \cup {c} /\ rechecked' = rechecked \cup {c}
    BY DEF Aside, Unavailable, Recheck, CopyReadable, PageLists, Rechecked, RecheckFails, server
  <2> QED
    BY <1>1, <2>1 DEF IInv, OfferedStands, CopiesOf, Held
<1> QED
  BY <1>3, <1>4, <1>5 DEF IInv

LEMMA NextIInv == IInv /\ [Next]_vars => IInv'
<1> SUFFICES ASSUME IInv, [Next]_vars PROVE IInv'
  OBVIOUS
<1>1. CASE UNCHANGED vars
  BY <1>1, SameAnswers DEF vars, IInv, OpShapes, IsOp, IsReading, Numbered, SearchKeeps, Latest, Shapes
<1>2. ASSUME NEW b \in Mailbox, NEW m \in Message, Move(b, m) PROVE IInv'
  BY <1>2, SameAnswers DEF Move, server, IInv, OpShapes, IsOp, IsReading, Numbered, SearchKeeps, Latest, Shapes
<1>3. ASSUME NEW q \in Request, NEW v \in View,
             \/ \E c \in Cursor : List(q, v, c, "list")
             \/ Refresh(q, v)
             \/ \E s \in Query : \E c \in Cursor : Search(q, v, s, c)
      PROVE  IInv'
  BY <1>3, ListKeeps, RefreshKeeps, SearchBegins, LiveInboxAssumption
<1>4. ASSUME NEW q \in Request, Boxes(q) \/ ReadPage(q) PROVE IInv'
  BY <1>4, GoesOn
<1>5. ASSUME NEW q \in Request, Settle(q) PROVE IInv'
  BY <1>5, ListSettles, SearchSettles DEF Settle
<1>6. ASSUME NEW q \in Request, NEW copy, Aside(q, copy) PROVE IInv'
  BY <1>6, LeavesReadings
<1>7. ASSUME NEW q \in Request, BodyByListing(q) PROVE IInv'
  BY <1>7, ListKeeps DEF BodyByListing, AllViews
<1> QED
  BY <1>1, <1>2, <1>3, <1>4, <1>5, <1>6, <1>7 DEF Next, Aside

LEMMA Invariance == Spec => []IInv
  BY InitIInv, NextIInv, PTL DEF Spec

\* OfferedStands for every instance: a reading that was overtaken or that failed
\* opens no body (live-inbox.server.ts, `read === reads`), and what stands in no
\* reading a body read added since the newest one began.
THEOREM BodiesOfStoredReadings == Spec => []OfferedStands
<1>1. IInv => OfferedStands
  BY DEF IInv
<1> QED
  BY <1>1, Invariance, PTL

\* CursorContinues for every instance: the newest list answer of a view can be
\* continued, whatever searches and failures came after it.
THEOREM CursorsStayValid == Spec => []CursorContinues
<1>1. IInv => CursorContinues
  BY DEF IInv
<1> QED
  BY <1>1, Invariance, PTL

-----------------------------------------------------------------------------
(* What a reading holds.                                                       *)

LEMMA ListedFinite ==
  ASSUME NEW mail, NEW v, NEW b
  PROVE  /\ Listed(mail, v, b) \subseteq Message /\ Listed(mail, v, b) \subseteq Nat
         /\ IsFiniteSet(Listed(mail, v, b))
<1>1. Listed(mail, v, b) \subseteq Message /\ Message \subseteq Nat /\ IsFiniteSet(Message)
  BY LiveInboxAssumption DEF Listed
<1>2. IsFiniteSet(Listed(mail, v, b))
  BY <1>1, FS_Subset
<1> QED
  BY <1>1, <1>2

\* The pages of an undisturbed reading hold nothing but what its view lists, all
\* of it once a short page came, and with every message also the newer ones.
LEMMA ExactPages ==
  ASSUME NEW mail, NEW v, NEW b, NEW now \in Nat, NEW p, ~p.failed, p.from = now,
         ProgressSound(p, Listed(mail, v, b), now)
  PROVE  /\ Held(p) \subseteq Listed(mail, v, b)
         /\ ~p.bounded => Held(p) = Listed(mail, v, b)
         /\ \A m \in Listed(mail, v, b) : \A n \in Held(p) : n <= m => m \in Held(p)
<1> DEFINE S == Listed(mail, v, b)
           last == Len(p.pages)
<1>1. S \subseteq Nat /\ IsFiniteSet(S) /\ PageSize \in Nat \ {0}
  BY ListedFinite, LiveInboxAssumption
<1>2. /\ p.pages \in Seq(SUBSET Message) /\ p.pages # <<>>
      /\ \A k \in 1..last : p.pages[k] = PageOf(S, k, PageSize)
  <2>1. /\ p.pages \in Seq(SUBSET Message) /\ (p.pages = <<>> => p.from = -1)
        /\ p.from = now => \A k \in 1..last : p.pages[k] = PageOf(S, k, PageSize)
    BY DEF ProgressSound
  <2>2. p.from # -1
    OBVIOUS
  <2> HIDE DEF S, last
  <2> QED
    BY <2>1, <2>2
<1>3. last \in Nat \ {0} /\ DOMAIN p.pages = 1..last
  BY <1>2
<1> HIDE DEF S, last
<1>4. \A m : m \in Held(p) <=> \E k \in 1..last : m \in PageOf(S, k, PageSize)
  BY <1>2, <1>3 DEF Held
<1>5. \A k : PageOf(S, k, PageSize) \subseteq S
  BY DEF PageOf
<1>6. ASSUME NEW m \in S, Cardinality(Newer(S, m)) < last * PageSize PROVE m \in Held(p)
  BY <1>1, <1>3, <1>4, <1>6, PageReaches
<1>7. ASSUME ~p.bounded PROVE Held(p) = S
  <2>1. Cardinality(PageOf(S, last, PageSize)) < PageSize
    <3>1. Cardinality(p.pages[last]) < PageSize
      BY <1>7 DEF ProgressSound, last
    <3> QED
      BY <1>2, <1>3, <3>1
  <2>2. \A m \in S : m \in Held(p)
    BY <1>1, <1>3, <1>6, <2>1, ShortPageEnds
  <2> QED
    BY <1>4, <1>5, <2>2
<1>8. ASSUME NEW m \in S, NEW n \in Held(p), n <= m PROVE m \in Held(p)
  <2>1. PICK k \in 1..last : n \in PageOf(S, k, PageSize)
    BY <1>4
  <2>2. n \in S /\ Cardinality(Newer(S, n)) < k * PageSize
    BY <2>1 DEF PageOf
  <2>3. Cardinality(Newer(S, m)) <= Cardinality(Newer(S, n))
    BY <1>1, <1>8, <2>2, OlderRank
  <2>4. k * PageSize <= last * PageSize /\ k * PageSize \in Nat /\ last * PageSize \in Nat
    <3>1. k \in Nat /\ last \in Nat /\ PageSize \in Nat /\ last - k \in Nat
      BY <1>1, <1>3
    <3>2. (last - k) * PageSize \in Nat
      BY <3>1
    <3> QED
      BY <3>1, <3>2
  <2>5. Cardinality(Newer(S, m)) \in Nat /\ Cardinality(Newer(S, n)) \in Nat
    BY <1>1, NewerFinite
  <2>6. Cardinality(Newer(S, m)) < last * PageSize
    BY <2>2, <2>3, <2>4, <2>5
  <2> QED
    BY <1>6, <2>6
<1>9. Held(p) \subseteq S
  BY <1>4, <1>5
<1> QED
  BY <1>7, <1>8, <1>9 DEF S

LEMMA OneMore ==
  ASSUME NEW T, NEW s \in Seq(T), NEW e \in T, NEW new, new = Append(s, e)
  PROVE  /\ new \in Seq(T) /\ Len(new) = Len(s) + 1 /\ new # <<>> /\ new[Len(new)] = e
         /\ \A k \in 1..Len(s) : new[k] = s[k]
  OBVIOUS

\* A page more, or a page that fails, keeps the account of the pages.
LEMMA PageKeeps ==
  ASSUME NEW p, NEW listed, listed \subseteq Message, changes \in Nat,
         ProgressSound(p, listed, changes),
         NEW new, \/ new = PageAdded(p, PageOf(listed, Len(p.pages) + 1, PageSize))
                  \/ new = PageFailed(p)
  PROVE  ProgressSound(new, listed, changes)
<1> DEFINE rows == PageOf(listed, Len(p.pages) + 1, PageSize)
<1>1. /\ p = [x \in ProgressField |-> p[x]] /\ p.pages \in Seq(SUBSET Message)
      /\ p.from \in Int /\ p.to \in Int /\ p.from <= p.to /\ p.to <= changes
      /\ p.pages = <<>> => p.from = -1
      /\ p.failed => p.pages = <<>>
      /\ p.from = changes => \A k \in 1..Len(p.pages) : p.pages[k] = PageOf(listed, k, PageSize)
      /\ ~p.bounded /\ ~p.failed =>
           p.pages # <<>> /\ Cardinality(p.pages[Len(p.pages)]) < PageSize
  BY DEF ProgressSound
<1>2. CASE new = PageAdded(p, rows)
  <2>1. rows \in SUBSET Message
    BY DEF PageOf
  <2>2. /\ new = [x \in ProgressField |-> new[x]] /\ new.pages = Append(p.pages, rows)
        /\ new.bounded = (Cardinality(rows) >= PageSize) /\ new.failed = FALSE
        /\ new.from = (IF p.pages = <<>> THEN changes ELSE p.from) /\ new.to = changes
    BY <1>2 DEF PageAdded, ProgressField
  <2> HIDE DEF rows
  <2>3. /\ new.pages \in Seq(SUBSET Message) /\ Len(new.pages) = Len(p.pages) + 1 /\ new.pages # <<>>
        /\ new.pages[Len(new.pages)] = rows
        /\ \A k \in 1..Len(p.pages) : new.pages[k] = p.pages[k]
    <3> DEFINE T == SUBSET Message
    <3>1. p.pages \in Seq(T) /\ rows \in T /\ new.pages = Append(p.pages, rows)
      BY <1>1, <2>1, <2>2
    <3> HIDE DEF T
    <3>2. /\ new.pages \in Seq(T) /\ Len(new.pages) = Len(p.pages) + 1 /\ new.pages # <<>>
          /\ new.pages[Len(new.pages)] = rows
          /\ \A k \in 1..Len(p.pages) : new.pages[k] = p.pages[k]
      BY ONLY <3>1, OneMore
    <3> QED
      BY <3>2 DEF T
  <2>4. new.from \in Int /\ new.to \in Int /\ new.from <= new.to /\ new.to <= changes
    BY <1>1, <2>2
  <2>5. ASSUME new.from = changes, NEW k \in 1..Len(new.pages) PROVE new.pages[k] = PageOf(listed, k, PageSize)
    <3>1. CASE k = Len(new.pages)
      BY <2>3, <3>1 DEF rows
    <3>2. CASE k # Len(new.pages)
      <4>1. k \in 1..Len(p.pages) /\ p.pages # <<>>
        BY <1>1, <2>3, <3>2
      <4> QED
        BY <1>1, <2>2, <2>3, <2>5, <4>1
    <3> QED
      BY <3>1, <3>2
  <2>6. ~new.bounded => Cardinality(rows) < PageSize
    <3>1. PageSize \in Nat /\ IsFiniteSet(Message)
      BY LiveInboxAssumption
    <3>2. IsFiniteSet(rows)
      BY <2>1, <3>1, FS_Subset
    <3>3. Cardinality(rows) \in Nat
      BY <3>2, FS_CardinalityType
    <3>4. ASSUME NEW n \in Nat, ~(n >= PageSize) PROVE n < PageSize
      BY <3>1, <3>4
    <3> QED
      BY <2>2, <3>3, <3>4
  <2> QED
    BY <2>2, <2>3, <2>4, <2>5, <2>6 DEF ProgressSound
<1>3. CASE new = PageFailed(p)
  <2>1. CASE p.pages = <<>>
    <3>1. new = [p EXCEPT !.failed = TRUE, !.bounded = FALSE]
      BY <1>3, <2>1 DEF PageFailed
    <3>2. /\ new = [x \in ProgressField |-> new[x]] /\ new.pages = p.pages /\ new.failed = TRUE
          /\ new.from = p.from /\ new.to = p.to
      BY <1>1, <3>1 DEF ProgressField
    <3> QED
      BY <1>1, <2>1, <3>2 DEF ProgressSound
  <2>2. CASE p.pages # <<>>
    <3>1. new = [p EXCEPT !.incomplete = TRUE, !.bounded = TRUE]
      BY <1>3, <2>2 DEF PageFailed
    <3>2. /\ new = [x \in ProgressField |-> new[x]] /\ new.pages = p.pages
          /\ new.failed = p.failed /\ new.bounded = TRUE
          /\ new.from = p.from /\ new.to = p.to
      BY <1>1, <3>1 DEF ProgressField
    <3> QED
      BY <1>1, <2>2, <3>2 DEF ProgressSound
  <2> QED
    BY <2>1, <2>2
<1> QED
  BY <1>2, <1>3

\* A move leaves a reading behind: what it read was before.
LEMMA MovedOn ==
  ASSUME NEW r, NEW mail, NEW now \in Nat, NEW after, Sound(r, mail, now)
  PROVE  Sound(r, after, now + 1)
<1> SUFFICES ASSUME NEW b \in r.boxes
             PROVE  ProgressSound(r.at[b], Listed(after, r.view, b), now + 1)
  BY DEF Sound
<1>1. ProgressSound(r.at[b], Listed(mail, r.view, b), now)
  BY DEF Sound
<1>2. r.at[b].from <= now /\ r.at[b].to <= now + 1 /\ r.at[b].from # now + 1
  BY <1>1 DEF ProgressSound
<1> QED
  BY <1>1, <1>2 DEF ProgressSound

\* Nothing is known of a reading that has only begun.
LEMMA StartedSound ==
  ASSUME NEW v, NEW boxes \in SUBSET Mailbox, NEW mail, NEW now \in Nat
  PROVE  Sound(StartedReading(v, boxes), mail, now) /\ Sound(NoReading, mail, now)
<1> DEFINE r == StartedReading(v, boxes)
<1>1. r.boxes = boxes /\ r.at = [b \in boxes |-> NoProgress]
  BY DEF StartedReading
<1>2. ASSUME NEW listed PROVE ProgressSound(NoProgress, listed, now)
  <2>1. /\ NoProgress = [x \in ProgressField |-> NoProgress[x]] /\ NoProgress.pages = <<>>
        /\ NoProgress.bounded = TRUE /\ NoProgress.failed = FALSE
        /\ NoProgress.from = -1 /\ NoProgress.to = -1
    BY DEF NoProgress, ProgressField
  <2>2. <<>> \in Seq(SUBSET Message)
    OBVIOUS
  <2>3. -1 \in Int /\ -1 <= -1 /\ -1 <= now /\ -1 # now
    OBVIOUS
  <2> QED
    BY <2>1, <2>2, <2>3 DEF ProgressSound
<1> HIDE DEF r
<1>3. Sound(r, mail, now)
  BY <1>1, <1>2 DEF Sound
<1>4. Sound(NoReading, mail, now)
  BY DEF Sound, NoReading
<1> QED
  BY <1>3, <1>4 DEF r

\* A cursor or a search text on a reading changes nothing it holds.
LEMMA RelabelledSound ==
  ASSUME NEW r, NEW new, NEW mail, NEW now, Sound(r, mail, now),
         new.boxes = r.boxes, new.at = r.at, new.view = r.view
  PROVE  Sound(new, mail, now)
  BY DEF Sound

-----------------------------------------------------------------------------
(* IInv /\ Exact is inductive.                                                     *)

LEMMA InitExact == Init => Exact
<1> SUFFICES ASSUME Init PROVE Exact
  OBVIOUS
<1>1. Books
  BY DEF Init, Books
<1>2. Sound(NoReading, folder, changes)
  BY StartedSound DEF Init
<1>3. ReadingsSound
  BY <1>2 DEF Init, ReadingsSound
<1>4. OpsSound
  BY NoOpShape DEF Init, OpsSound, OpSound
<1>5. RemovedIsGone
  BY DEF Init, RemovedIsGone
<1> QED
  BY <1>1, <1>3, <1>4, <1>5 DEF Exact

\* The mail stands still and one handler does something.
LEMMA OpsKeep ==
  ASSUME IInv, OpsSound, UNCHANGED world, NEW q \in Request, NEW op,
         ops' = [ops EXCEPT ![q] = op], OpSound(op, folder, changes)
  PROVE  OpsSound'
<1>1. ops'[q] = op /\ \A r \in Request : r # q => ops'[r] = ops[r]
  BY DEF IInv, OpShapes
<1>2. ASSUME NEW r \in Request PROVE OpSound(ops'[r], folder, changes)
  BY <1>1 DEF OpsSound
<1> QED
  BY <1>2 DEF OpsSound, world

LEMMA ReadingsKeep ==
  ASSUME ReadingsSound, UNCHANGED <<world, readings>>, Books,
         discovery' = discovery \/ Sound(discovery', folder, changes)
  PROVE  ReadingsSound'
  BY DEF ReadingsSound, world

LEMMA RemovedKeeps ==
  ASSUME RemovedIsGone, UNCHANGED folder, removed' = removed
  PROVE  RemovedIsGone'
  BY DEF RemovedIsGone, InView

LEMMA BeginExact ==
  ASSUME IInv, Exact, NEW q \in Request, NEW op, BeginReading(q, op),
         discovery' \in {discovery, NoReading}, IsOp(op), OpSound(op, folder, changes)
  PROVE  Exact'
<1> DEFINE new == [op EXCEPT !.read = reads + 1]
<1>1. /\ ops' = [ops EXCEPT ![q] = new] /\ UNCHANGED <<world, readings, removed>>
  BY DEF BeginReading
<1>2. new.stage = op.stage /\ new.cur = op.cur /\ new.view = op.view
  BY DEF IsOp, OpField
<1> HIDE DEF new
<1>3. OpSound(new, folder, changes)
  BY <1>2 DEF OpSound
<1>4. Sound(NoReading, folder, changes)
  BY StartedSound DEF Exact, Books
<1>5. ReadingsSound'
  BY <1>1, <1>4, ReadingsKeep DEF Exact
<1>6. OpsSound'
  BY <1>1, <1>3, OpsKeep DEF Exact
<1>7. RemovedIsGone' /\ Books'
  BY <1>1, RemovedKeeps DEF Exact, world, Books
<1> QED
  BY <1>5, <1>6, <1>7 DEF Exact

LEMMA ListExact ==
  ASSUME IInv, Exact, NEW q \in Request, NEW v \in AllViews, NEW cursor, NEW kind,
         List(q, v, cursor, kind)
  PROVE  Exact'
<1> DEFINE op == [NoOp EXCEPT !.kind = kind, !.view = v]
           begun == [op EXCEPT !.stage = "boxes"]
           more == [op EXCEPT !.stage = "pages", !.cur = readings[v],
                      !.todo = IF readings[v].cursor = cursor THEN OnePageEach(readings[v]) ELSE <<>>]
<1>1. discovery' \in {discovery, NoReading}
  BY DEF List
<1>2. BeginReading(q, begun) \/ (readings[v] # NoReading /\ BeginReading(q, more))
  BY DEF List
<1>3. IsOp(begun) /\ begun.stage = "boxes"
  BY NoOpShape DEF IsOp, OpField
<1>4. IsOp(more) /\ more.stage = "pages" /\ more.view = v /\ more.cur = readings[v]
  BY NoOpShape DEF IsOp, OpField
<1> HIDE DEF begun, more
<1>5. OpSound(begun, folder, changes)
  BY <1>3 DEF OpSound
<1>6. readings[v] # NoReading => OpSound(more, folder, changes)
  BY <1>4 DEF OpSound, Exact, ReadingsSound
<1> QED
  BY <1>1, <1>2, <1>3, <1>4, <1>5, <1>6, BeginExact

LEMMA RefreshExact ==
  ASSUME IInv, Exact, NEW q \in Request, NEW v, Refresh(q, v)
  PROVE  Exact'
<1> DEFINE op == [NoOp EXCEPT !.kind = "refresh", !.stage = "boxes", !.view = v,
                              !.before = readings[v]]
<1>1. discovery' \in {discovery, NoReading} /\ BeginReading(q, op)
  BY DEF Refresh
<1>2. IsOp(op) /\ op.stage = "boxes"
  BY NoOpShape DEF IsOp, OpField
<1> HIDE DEF op
<1>3. OpSound(op, folder, changes)
  BY <1>2 DEF OpSound
<1> QED
  BY <1>1, <1>2, <1>3, BeginExact

LEMMA SearchExact ==
  ASSUME IInv, Exact, NEW q \in Request, NEW v \in AllViews, NEW s, NEW cursor,
         Search(q, v, s, cursor)
  PROVE  Exact'
<1> DEFINE op == [NoOp EXCEPT !.kind = "search", !.stage = "pages", !.view = v, !.query = s,
                              !.before = readings[v]]
           more == [op EXCEPT !.cur = discovery,
                      !.todo = IF discovery.cursor = cursor THEN OnePageEach(discovery) ELSE <<>>]
           over == [op EXCEPT !.cur = readings[v]]
           begun == [op EXCEPT !.stage = "boxes"]
<1>1. discovery' \in {discovery, NoReading}
  BY DEF Search
<1>2. \/ discovery.view = v /\ BeginReading(q, more)
      \/ readings[v] # NoReading /\ BeginReading(q, over)
      \/ BeginReading(q, begun)
  BY DEF Search
<1>3. IsOp(more) /\ more.stage = "pages" /\ more.view = v /\ more.cur = discovery
  BY NoOpShape DEF IsOp, OpField
<1>4. IsOp(over) /\ over.stage = "pages" /\ over.view = v /\ over.cur = readings[v]
  BY NoOpShape DEF IsOp, OpField
<1>5. IsOp(begun) /\ begun.stage = "boxes"
  BY NoOpShape DEF IsOp, OpField
<1> HIDE DEF more, over, begun
<1>6. discovery.view = v => OpSound(more, folder, changes)
  BY <1>3 DEF OpSound, Exact, ReadingsSound
<1>7. readings[v] # NoReading => OpSound(over, folder, changes)
  BY <1>4 DEF OpSound, Exact, ReadingsSound
<1>8. OpSound(begun, folder, changes)
  BY <1>5 DEF OpSound
<1> QED
  BY <1>1, <1>2, <1>3, <1>4, <1>5, <1>6, <1>7, <1>8, BeginExact

LEMMA BoxesExact ==
  ASSUME IInv, Exact, NEW q \in Request, Boxes(q)
  PROVE  Exact'
<1> DEFINE was == ops[q]
<1>1. IsOp(was)
  BY DEF IInv, OpShapes
<1>10. PICK boxes \in Access :
         \E todo :
           ops' = [ops EXCEPT ![q] = [was EXCEPT !.stage = "pages", !.cur = StartedReading(was.view, boxes),
                                                 !.todo = todo]]
  BY DEF Boxes
<1>2. PICK todo :
        ops' = [ops EXCEPT ![q] = [was EXCEPT !.stage = "pages", !.cur = StartedReading(was.view, boxes),
                                              !.todo = todo]]
  BY <1>10
<1> DEFINE op == [was EXCEPT !.stage = "pages", !.cur = StartedReading(was.view, boxes), !.todo = todo]
<1>3. op.stage = "pages" /\ op.view = was.view /\ op.cur = StartedReading(was.view, boxes)
  BY <1>1 DEF IsOp, OpField
<1> HIDE DEF op
<1>4. boxes \in SUBSET Mailbox /\ changes \in Nat
  BY LiveInboxAssumption DEF Exact, Books
<1>5. StartedReading(was.view, boxes).view = was.view
  BY DEF StartedReading
<1>6. OpSound(op, folder, changes)
  BY <1>3, <1>4, <1>5, StartedSound DEF OpSound
<1>7. UNCHANGED <<world, server, removed>>
  BY DEF Boxes
<1>8. OpsSound'
  BY <1>2, <1>6, <1>7, OpsKeep DEF Exact, op
<1> QED
  BY <1>7, <1>8, ReadingsKeep, RemovedKeeps DEF Exact, Books, world, server

LEMMA PageExact ==
  ASSUME IInv, Exact, NEW q \in Request, ReadPage(q)
  PROVE  Exact'
<1> DEFINE was == ops[q]
           b == Head(was.todo)
           p == was.cur.at[b]
           listed == Listed(folder, was.view, b)
<1>1. IsOp(was) /\ IsReading(was.cur) /\ was.stage = "pages"
  BY DEF IInv, OpShapes, ReadPage
<1>2. PICK progress \in {PageAdded(p, PageOf(listed, Len(p.pages) + 1, PageSize)), PageFailed(p)} :
        ops' = [ops EXCEPT ![q] = [was EXCEPT
                  !.cur = [was.cur EXCEPT !.at[b] = progress],
                  !.todo = Due([was.cur EXCEPT !.at[b] = progress], Tail(was.todo))]]
  BY DEF ReadPage, ProviderPage, InView
<1> DEFINE cur == [was.cur EXCEPT !.at[b] = progress]
           op == [was EXCEPT !.cur = cur, !.todo = Due(cur, Tail(was.todo))]
<1>3. Sound(was.cur, folder, changes) /\ was.cur.view = was.view
  BY <1>1 DEF Exact, OpsSound, OpSound
<1>4. /\ cur.boxes = was.cur.boxes /\ cur.view = was.cur.view
      /\ cur.at = [was.cur.at EXCEPT ![b] = progress]
  BY <1>1 DEF IsReading, ReadingField
<1>5. op.stage = "pages" /\ op.view = was.view /\ op.cur = cur
  BY <1>1 DEF IsOp, OpField
<1>6. ops' = [ops EXCEPT ![q] = op]
  BY <1>2
<1> HIDE DEF cur, op
<1>7. ASSUME b \in was.cur.boxes PROVE ProgressSound(progress, listed, changes)
  <2>1. ProgressSound(p, listed, changes)
    BY <1>3, <1>7 DEF Sound
  <2>2. listed \subseteq Message /\ changes \in Nat
    BY ListedFinite DEF Exact, Books
  <2> HIDE DEF listed, p
  <2> QED
    BY <1>2, <2>1, <2>2, PageKeeps
<1>8. Sound(cur, folder, changes)
  <2>1. cur.boxes \subseteq Mailbox
    BY <1>3, <1>4 DEF Sound
  <2>2. cur.at = [c \in cur.boxes |-> IF c = b THEN progress ELSE was.cur.at[c]]
    BY <1>3, <1>4 DEF Sound
  <2>3. ASSUME NEW c \in cur.boxes PROVE ProgressSound(cur.at[c], Listed(folder, cur.view, c), changes)
    <3>1. CASE c = b
      BY <1>3, <1>4, <1>7, <2>2, <3>1
    <3>2. CASE c # b
      BY <1>3, <1>4, <2>2, <3>2 DEF Sound
    <3> QED
      BY <3>1, <3>2
  <2> QED
    BY <2>1, <2>2, <2>3 DEF Sound
<1>9. OpSound(op, folder, changes)
  BY <1>3, <1>4, <1>5, <1>8 DEF OpSound
<1>10. UNCHANGED <<world, server, removed>>
  BY DEF ReadPage
<1>11. OpsSound'
  BY <1>6, <1>9, <1>10, OpsKeep DEF Exact
<1> QED
  BY <1>10, <1>11, ReadingsKeep, RemovedKeeps DEF Exact, Books, world, server

\* A copy that an undisturbed refresh counts as removed has left the view, or a
\* row listed above it is dated earlier: in a mailbox that was read to its end the
\* window holds all there is, in another one only rows above a copy that is left.
LEMMA RemovedGone ==
  ASSUME NEW before, NEW cur, NEW mail, NEW now \in Nat, Sound(cur, mail, now),
         \A b \in cur.boxes : cur.at[b].from = now
  PROVE  \A r \in RemovedCopies(before, cur) :
           \/ r[3] \notin Listed(mail, r[1], r[2])
           \/ \E n \in Listed(mail, r[1], r[2]) : n > r[3] /\ ListedTime(n) < ListedTime(r[3])
<1> SUFFICES ASSUME NEW r \in RemovedCopies(before, cur), r[3] \in Listed(mail, r[1], r[2])
             PROVE  \E n \in Listed(mail, r[1], r[2]) : n > r[3] /\ ListedTime(n) < ListedTime(r[3])
  OBVIOUS
<1>1. PICK b \in cur.boxes \cap before.boxes :
        /\ ~cur.at[b].failed /\ ~cur.at[b].incomplete
        /\ r \in {cur.view} \X {b} \X RemovedFrom(before, cur, b)
  BY DEF RemovedCopies
<1> DEFINE p == cur.at[b]
           m == r[3]
<1>2. r[1] = cur.view /\ r[2] = b /\ m \in RemovedFrom(before, cur, b)
  BY <1>1
<1>3. m \in Listed(mail, cur.view, b) /\ m \notin Held(p)
  BY <1>2 DEF RemovedFrom
<1>4. ProgressSound(p, Listed(mail, cur.view, b), now) /\ p.from = now /\ ~p.failed
  BY <1>1 DEF Sound
<1>5. /\ Held(p) \subseteq Listed(mail, cur.view, b)
      /\ ~p.bounded => Held(p) = Listed(mail, cur.view, b)
      /\ \A n \in Held(p) : n <= m => m \in Held(p)
  BY <1>3, <1>4, ExactPages
<1>6. p.bounded
  BY <1>3, <1>5
<1>7. PICK n \in Held(p) : ~(ListedTime(m) <= ListedTime(n))
  BY <1>2, <1>6 DEF RemovedFrom
<1>8. /\ m \in Message /\ n \in Message /\ m \in Nat /\ n \in Nat
      /\ n \in Listed(mail, cur.view, b)
  <2>1. Listed(mail, cur.view, b) \subseteq Message /\ Message \subseteq Nat
    BY ListedFinite, LiveInboxAssumption
  <2> QED
    BY <1>3, <1>5, <1>7, <2>1
<1>9. ListedTime(m) \in Int /\ ListedTime(n) \in Int
  BY <1>8, LiveInboxAssumption DEF ListedTime
<1>10. ListedTime(n) < ListedTime(m)
  BY <1>7, <1>9
<1>11. n > m
  <2>1. ~(n <= m)
    BY <1>3, <1>5, <1>7
  <2> QED
    BY <1>8, <2>1
<1> QED
  BY <1>2, <1>8, <1>10, <1>11

LEMMA ListSettlesExact ==
  ASSUME IInv, Exact, NEW q \in Request, Settle(q), SettleList(q)
  PROVE  Exact'
<1> DEFINE op == ops[q]
           cur == [op.cur EXCEPT !.cursor = op.read]
<1>1. /\ op.stage = "pages" /\ op.kind # "none" /\ op.view \in AllViews /\ IsReading(op.cur)
      /\ changes \in Nat
  BY DEF Settle, Settling, SettleList, IInv, OpShapes, Numbered, Exact, Books
<1>2. cur.boxes = op.cur.boxes /\ cur.at = op.cur.at /\ cur.view = op.cur.view
  BY <1>1 DEF IsReading, ReadingField
<1>3. /\ ops' = [ops EXCEPT ![q] = NoOp] /\ UNCHANGED <<world, discovery>>
      /\ readings' = readings \/ readings' = [readings EXCEPT ![op.view] = cur]
      /\ \/ removed' = {}
         \/ /\ \A b \in cur.boxes : cur.at[b].from = changes
            /\ removed' = RemovedCopies(op.before, cur)
  BY DEF Settle, SettleList
<1>4. Sound(op.cur, folder, changes) /\ op.cur.view = op.view
  BY <1>1 DEF Exact, OpsSound, OpSound
<1> HIDE DEF cur
<1>5. Sound(cur, folder, changes) /\ cur.view = op.view
  BY <1>2, <1>4, RelabelledSound
<1>6. folder' = folder /\ changes' = changes
  BY <1>3 DEF world
<1>7. ReadingsSound'
  <2>1. ASSUME NEW v \in AllViews
        PROVE  Sound(readings'[v], folder, changes) /\ (readings'[v] # NoReading => readings'[v].view = v)
    <3>1. readings'[v] = readings[v] \/ (v = op.view /\ readings'[v] = cur)
      BY <1>3 DEF IInv, Shapes
    <3> QED
      BY <1>5, <3>1 DEF Exact, ReadingsSound
  <2> QED
    BY <1>3, <1>6, <2>1 DEF Exact, ReadingsSound
<1>8. OpsSound'
  BY <1>3, NoOpShape, OpsKeep DEF Exact, OpSound
<1>9. Books'
  BY <1>6 DEF Exact, Books
<1>10. RemovedIsGone'
  <2>1. ASSUME NEW r \in removed'
        PROVE  \/ r[3] \notin Listed(folder, r[1], r[2])
               \/ \E n \in Listed(folder, r[1], r[2]) : n > r[3] /\ ListedTime(n) < ListedTime(r[3])
    BY <1>1, <1>3, <1>5, <2>1, RemovedGone
  <2> QED
    BY <1>6, <2>1 DEF RemovedIsGone, InView
<1> QED
  BY <1>7, <1>8, <1>9, <1>10 DEF Exact

LEMMA SearchSettlesExact ==
  ASSUME IInv, Exact, NEW q \in Request, Settle(q), SettleSearch(q)
  PROVE  Exact'
<1> DEFINE op == ops[q]
           cur == [op.cur EXCEPT !.cursor = op.read, !.query = op.query]
           stored == StoredBySearch(op, cur)
<1>1. /\ op.stage = "pages" /\ op.kind # "none" /\ op.view \in AllViews /\ IsReading(op.cur)
  BY DEF Settle, Settling, SettleSearch, IInv, OpShapes, Numbered
<1>2. cur.boxes = op.cur.boxes /\ cur.at = op.cur.at /\ cur.view = op.cur.view /\ IsReading(cur)
  BY <1>1 DEF IsReading, ReadingField
<1>3. stored.boxes = op.cur.boxes /\ stored.at = op.cur.at /\ stored.view = op.cur.view
  BY <1>1 DEF IsReading, ReadingField, StoredBySearch
<1>4. /\ ops' = [ops EXCEPT ![q] = NoOp] /\ UNCHANGED <<world, removed>>
      /\ \/ UNCHANGED <<readings, discovery>>
         \/ discovery' = cur /\ readings' = [readings EXCEPT ![op.view] = stored]
  BY DEF Settle, SettleSearch
<1>5. Sound(op.cur, folder, changes) /\ op.cur.view = op.view
  BY <1>1 DEF Exact, OpsSound, OpSound
<1> HIDE DEF cur, stored
<1>6. /\ Sound(cur, folder, changes) /\ Sound(stored, folder, changes)
      /\ cur.view = op.view /\ stored.view = op.view
  BY <1>2, <1>3, <1>5, RelabelledSound
<1>7. folder' = folder /\ changes' = changes
  BY <1>4 DEF world
<1>8. ReadingsSound'
  <2>1. ASSUME NEW v \in AllViews
        PROVE  Sound(readings'[v], folder, changes) /\ (readings'[v] # NoReading => readings'[v].view = v)
    <3>1. readings'[v] = readings[v] \/ (v = op.view /\ readings'[v] = stored)
      BY <1>4 DEF IInv, Shapes
    <3> QED
      BY <1>6, <3>1 DEF Exact, ReadingsSound
  <2>2. Sound(discovery', folder, changes)
    BY <1>4, <1>6 DEF Exact, ReadingsSound
  <2> QED
    BY <1>7, <2>1, <2>2 DEF ReadingsSound
<1>9. OpsSound'
  BY <1>4, NoOpShape, OpsKeep DEF Exact, OpSound
<1> QED
  BY <1>4, <1>7, <1>8, <1>9, RemovedKeeps DEF Exact, Books

\* A reading given up leaves what is stored; a copy looked up stores nothing.
LEMMA LeavesExact ==
  ASSUME IInv, Exact, NEW q \in Request, NEW copy, Aside(q, copy)
  PROVE  Exact'
<1>1. UNCHANGED <<world, readings, discovery, removed>>
  BY AsideSteps
<1>2. PICK op : ops' = [ops EXCEPT ![q] = op] /\ op.stage \notin {"boxes", "pages"}
  BY AsideSteps
<1>3. OpsSound'
  BY <1>1, <1>2, OpsKeep DEF Exact, OpSound
<1>4. ReadingsSound' /\ RemovedIsGone' /\ Books'
  BY <1>1, ReadingsKeep, RemovedKeeps DEF Exact, world, Books
<1> QED
  BY <1>3, <1>4 DEF Exact

\* When mail moves, whatever was read was read before.
LEMMA MoveExact ==
  ASSUME IInv, Exact, NEW b \in Mailbox, NEW m \in Message, Move(b, m)
  PROVE  Exact'
<1>1. /\ changes \in Nat /\ changes' = changes + 1 /\ removed' = {}
      /\ UNCHANGED <<readings, discovery, ops>>
  BY DEF Move, server, Exact, Books
<1>2. \A r : Sound(r, folder, changes) => Sound(r, folder', changes')
  BY <1>1, MovedOn
<1>3. ReadingsSound'
  BY <1>1, <1>2 DEF Exact, ReadingsSound
<1>4. ASSUME NEW q \in Request PROVE OpSound(ops[q], folder', changes')
  BY <1>2 DEF Exact, OpsSound, OpSound
<1>5. OpsSound'
  BY <1>1, <1>4 DEF OpsSound
<1>6. Books' /\ RemovedIsGone'
  BY <1>1 DEF Books, RemovedIsGone
<1> QED
  BY <1>3, <1>5, <1>6 DEF Exact

LEMMA NextExact == IInv /\ Exact /\ [Next]_vars => Exact'
<1> SUFFICES ASSUME IInv, Exact, [Next]_vars PROVE Exact'
  OBVIOUS
<1>1. CASE UNCHANGED vars
  BY <1>1 DEF vars, Exact, Books, ReadingsSound, OpsSound, RemovedIsGone, InView
<1>2. ASSUME NEW b \in Mailbox, NEW m \in Message, Move(b, m) PROVE Exact'
  BY <1>2, MoveExact
<1>3. ASSUME NEW q \in Request, NEW v \in View,
             \/ \E c \in Cursor : List(q, v, c, "list")
             \/ Refresh(q, v)
             \/ \E s \in Query : \E c \in Cursor : Search(q, v, s, c)
      PROVE  Exact'
  BY <1>3, ListExact, RefreshExact, SearchExact, LiveInboxAssumption
<1>4. ASSUME NEW q \in Request, Boxes(q) \/ ReadPage(q) PROVE Exact'
  BY <1>4, BoxesExact, PageExact
<1>5. ASSUME NEW q \in Request, Settle(q) PROVE Exact'
  BY <1>5, ListSettlesExact, SearchSettlesExact DEF Settle
<1>6. ASSUME NEW q \in Request, NEW copy, Aside(q, copy) PROVE Exact'
  BY <1>6, LeavesExact
<1>7. ASSUME NEW q \in Request, BodyByListing(q) PROVE Exact'
  BY <1>7, ListExact DEF BodyByListing, AllViews
<1> QED
  BY <1>1, <1>2, <1>3, <1>4, <1>5, <1>6, <1>7 DEF Next, Aside

LEMMA ExactInvariance == Spec => [](IInv /\ Exact)
<1>1. Init => IInv /\ Exact
  BY InitIInv, InitExact
<1>2. IInv /\ Exact /\ [Next]_vars => (IInv /\ Exact)'
  BY NextIInv, NextExact
<1> QED
  BY <1>1, <1>2, PTL DEF Spec

\* QuietReadingIsExact for every instance: whatever pages, retries and stale
\* cursors made up a stored reading (live-inbox.server.ts, advanceReading), one of
\* a mailbox that did not move and that ended by itself holds all its view lists.
THEOREM QuietReadingsAreExact == Spec => []QuietReadingIsExact
<1>1. ASSUME IInv, Exact, NEW v \in AllViews, NEW b \in readings[v].boxes,
             Quiet(readings[v].at[b]), ~readings[v].at[b].bounded
      PROVE  Held(readings[v].at[b]) = InView(v, b)
  <2>1. readings[v].view = v
    BY <1>1 DEF Exact, ReadingsSound, NoReading
  <2>2. ProgressSound(readings[v].at[b], Listed(folder, v, b), changes)
    BY <1>1, <2>1 DEF Exact, ReadingsSound, Sound
  <2>3. /\ ~readings[v].at[b].failed /\ readings[v].at[b].from = changes /\ changes \in Nat
        /\ ~readings[v].at[b].bounded
    BY <1>1 DEF Quiet, Exact, Books
  <2> QED
    BY <2>2, <2>3, ExactPages DEF InView
<1>2. IInv /\ Exact => QuietReadingIsExact
  BY <1>1 DEF QuietReadingIsExact
<1> QED
  BY <1>2, ExactInvariance, PTL

\* RemovedIsGone for every instance, whatever dates the listings state: what an
\* undisturbed refresh counts as removed (live-inbox.server.ts, changesBetween) has
\* left the view, unless a row above it is dated earlier or not at all.
THEOREM RemovedHaveLeft == Spec => []RemovedIsGone
<1>1. IInv /\ Exact => RemovedIsGone
  BY DEF Exact
<1> QED
  BY <1>1, ExactInvariance, PTL
=============================================================================
