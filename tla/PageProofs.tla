------------------------------ MODULE PageProofs ------------------------------
(* What the page shows and asks for, for every mailbox, server and bound: the    *)
(* panel of the open row (Workbench) first, the campaign of Jev runs             *)
(* (TriageRunClient) second. The campaign is proved for calls that are answered  *)
(* in the order they were made.                                                  *)
EXTENDS Workbench, TriageRunClient, PagesProofs

-----------------------------------------------------------------------------
(* The inductive invariant.                                                    *)

(* The panel and the proposal it holds are records of their fields. *)
PanelShape ==
  /\ panel = [decided |-> panel.decided, held |-> panel.held, execution |-> panel.execution,
              busy |-> panel.busy, saving |-> panel.saving, uncertain |-> panel.uncertain,
              asked |-> panel.asked]
  /\ panel.held = [id |-> panel.held.id, target |-> panel.held.target,
                   approved |-> panel.held.approved]
  /\ proposals \in Nat

(* While the server is asked, the proposal it is asked about is the one held:  *)
(* this is what makes the answer, which brings that proposal back, harmless.   *)
AskedIsHeld ==
  /\ panel.busy.kind # "none" => panel.held.id # 0 /\ panel.busy.held = panel.held
  /\ Executing(panel) => panel.execution = "none"
  /\ panel.execution # "none" => panel.held.id # 0

(* A reply owed is saved before anything is decided. *)
SavedFirst == panel.saving.outcome = "reply_needed" => panel.decided = Undecided

PanelIInv == PanelShape /\ DecisionTrue /\ AskedIsHeld /\ SavedFirst

-----------------------------------------------------------------------------
(* Lemmas.                                                                     *)

(* A panel that is kept or made anew stays true while the mail that left, the  *)
(* approvals and the saves only grow.                                          *)
LEMMA PanelKept ==
  ASSUME PanelIInv, panel' = panel \/ panel' = NewPanel,
         gone \subseteq gone', saved \subseteq saved', approvals \subseteq approvals',
         proposals' = proposals
  PROVE  PanelIInv'
<1> USE DEF PanelIInv, PanelShape, DecisionTrue, AskedIsHeld, SavedFirst, Executing
<1>1. CASE panel' = panel
  BY <1>1
<1>2. CASE panel' = NewPanel
  BY <1>2 DEF NewPanel, NoProposal, Undecided, Free
<1> QED BY <1>1, <1>2

(* Rendering keeps the panel it is given while the same row is open. *)
LEMMA ShowsPanel ==
  ASSUME NEW i, NEW f, NEW choice, NEW p, NEW outlived, Shows(i, f, choice, p, outlived)
  PROVE  /\ panel' = p \/ panel' = NewPanel
         /\ Open' = Open => panel' = p
<1>1. Open' = OpenedMessage(ShownOf(i, f), choice)
  BY DEF Shows, Open, Shown, ShownOf, OpenedMessage
<1> QED BY <1>1 DEF Shows

(* A step that only reads or shows leaves the panel or opens another one. *)
Reads ==
  \/ Arrive \/ (\E m \in Message : Judge(m) \/ OpenMessage(m))
  \/ Refresh \/ (\E call \in lists : ListAnswered(call))
  \/ Search \/ (\E call \in searches : SearchAnswered(call))
  \/ ClearSearch \/ BodyAnswered \/ Retry \/ (\E e \in owed : OutlivedAnswered(e))

LEMMA ReadsPanel ==
  ASSUME Reads
  PROVE  /\ panel' = panel \/ panel' = NewPanel
         /\ Open' = Open => panel' = panel
         /\ gone \subseteq gone' /\ UNCHANGED <<saved, approvals, proposals>>
<1> USE DEF mail, server, shown, reading
<1>1. CASE Arrive
  BY <1>1 DEF Arrive
<1>2. CASE \E m \in Message : Judge(m)
  BY <1>2 DEF Judge
<1>3. CASE \E m \in Message : OpenMessage(m)
  BY <1>3, ShowsPanel DEF OpenMessage, Rendered
<1>4. CASE Refresh
  BY <1>4, ShowsPanel DEF Refresh, Scan
<1>5. CASE \E call \in lists : ListAnswered(call)
  <2>1. PICK call \in lists : ListAnswered(call)
    BY <1>5
  <2> QED BY <2>1, ShowsPanel DEF ListAnswered, Rendered
<1>6. CASE Search
  BY <1>6 DEF Search
<1>7. CASE \E call \in searches : SearchAnswered(call)
  BY <1>7, ShowsPanel DEF SearchAnswered, Rendered
<1>8. CASE ClearSearch
  BY <1>8, ShowsPanel DEF ClearSearch, Rendered
<1>9. CASE BodyAnswered \/ Retry
  BY <1>9 DEF BodyAnswered, Retry
<1>10. CASE \E e \in owed : OutlivedAnswered(e)
  BY <1>10, ShowsPanel DEF OutlivedAnswered, Scan
<1> QED BY <1>1, <1>2, <1>3, <1>4, <1>5, <1>6, <1>7, <1>8, <1>9, <1>10 DEF Reads

LEMMA PanelInit ==
  ASSUME WorkbenchInit
  PROVE  PanelIInv
<1> QED
  BY DEF WorkbenchInit, PanelIInv, PanelShape, DecisionTrue, AskedIsHeld, SavedFirst,
         NewPanel, NoProposal, Undecided, Free, Executing

-----------------------------------------------------------------------------
(* One lemma for each step of the panel.                                       *)

(* Deciding: a proposal is made only where no decision and so no proposal was. *)
LEMMA RecordKeeps ==
  ASSUME PanelIInv, NEW outcome \in Outcome, Record(outcome)
  PROVE  PanelIInv' /\ panel.execution = "none"
<1> USE DEF PanelIInv, PanelShape, DecisionTrue, AskedIsHeld, SavedFirst, Executing, Panel,
            mail, server, Undecided
<1>1. /\ panel.decided = Undecided /\ panel.saving = Undecided
      /\ panel.held.id = 0 /\ panel.busy.kind = "none" /\ panel.execution = "none"
  BY DEF Record
<1>2. CASE outcome = "reply_needed" /\ Write(outcome)
  BY <1>1, <1>2 DEF Write
<1>3. CASE outcome = "read_only"
  BY <1>1, <1>3 DEF Record
<1>4. CASE outcome = "handle_now"
  <2>1. /\ proposals' = proposals + 1
        /\ panel' = [[panel EXCEPT !.decided = [outcome |-> outcome, target |-> Proposable]]
             EXCEPT !.held = [id |-> proposals', target |-> Proposable, approved |-> FALSE],
                    !.execution = "none"]
        /\ UNCHANGED <<gone, saved, approvals>>
    BY <1>4 DEF Record, Write
  <2>2. panel' = [decided |-> [outcome |-> outcome, target |-> Proposable],
                  held |-> [id |-> proposals + 1, target |-> Proposable, approved |-> FALSE],
                  execution |-> "none", busy |-> panel.busy, saving |-> panel.saving,
                  uncertain |-> panel.uncertain, asked |-> panel.asked]
    BY <2>1
  <2>3. PanelShape'
    <3>1. /\ panel'.held = [id |-> proposals + 1, target |-> Proposable, approved |-> FALSE]
          /\ proposals' \in Nat
      BY <2>1, <2>2
    <3>2. panel'.held = [id |-> panel'.held.id, target |-> panel'.held.target,
                         approved |-> panel'.held.approved]
      BY <3>1
    <3>3. panel' = [decided |-> panel'.decided, held |-> panel'.held,
                    execution |-> panel'.execution, busy |-> panel'.busy,
                    saving |-> panel'.saving, uncertain |-> panel'.uncertain,
                    asked |-> panel'.asked]
      BY <2>2
    <3> QED BY <3>1, <3>2, <3>3
  <2>4. (DecisionTrue /\ AskedIsHeld /\ SavedFirst)'
    BY <1>1, <1>4, <2>1, <2>2
  <2> QED BY <1>1, <2>3, <2>4
<1> QED BY <1>2, <1>3, <1>4 DEF Record

LEMMA HandledKeeps ==
  ASSUME PanelIInv, HandledInSpark
  PROVE  PanelIInv' /\ panel'.execution = panel.execution /\ panel'.asked = panel.asked
<1> QED
  BY DEF PanelIInv, PanelShape, DecisionTrue, AskedIsHeld, SavedFirst, Executing, Panel,
         mail, server, Undecided, HandledInSpark, Write

(* A reply owed is decided only by the answer that stored it, and no proposal  *)
(* was held while it was saved.                                                *)
LEMMA SaveKeeps ==
  ASSUME PanelIInv, SaveAnswered
  PROVE  PanelIInv' /\ panel'.execution = panel.execution /\ panel'.asked = panel.asked
<1> DEFINE write == panel.saving
<1> DEFINE done == [panel EXCEPT !.saving = Undecided]
<1> USE DEF PanelIInv, PanelShape, DecisionTrue, AskedIsHeld, SavedFirst, Executing, Panel,
            mail, Undecided
<1>1. CASE Panel([done EXCEPT !.uncertain = TRUE]) /\ saved' = saved \union {write}
  BY <1>1 DEF SaveAnswered
<1>2. CASE /\ saved' = saved \union {write}
           /\ Panel([done EXCEPT !.decided = IF write.outcome = "reply_needed"
                                             THEN write ELSE @])
  <2>1. CASE write.outcome = "reply_needed"
    <3>1. /\ panel' = [done EXCEPT !.decided = write] /\ saved' = saved \union {write}
          /\ UNCHANGED <<gone, approvals, proposals>>
      BY <1>2, <2>1 DEF SaveAnswered
    <3>2. /\ panel.held.id = 0 /\ panel.busy.kind = "none" /\ panel.execution = "none"
      BY <2>1
    <3>3. /\ panel'.decided = write /\ panel'.held = panel.held
          /\ panel'.execution = panel.execution /\ panel'.busy = panel.busy
          /\ panel'.asked = panel.asked /\ panel'.saving = [outcome |-> "none", target |-> Nothing]
      BY <3>1
    <3>4. PanelShape'
      BY <3>1, <3>3
    <3>5. (DecisionTrue /\ AskedIsHeld /\ SavedFirst)'
      BY <2>1, <3>1, <3>2, <3>3
    <3> QED BY <3>3, <3>4, <3>5
  <2>2. CASE write.outcome # "reply_needed"
    BY <1>2, <2>2 DEF SaveAnswered
  <2> QED BY <2>1, <2>2
<1>3. CASE /\ \E uncertain \in BOOLEAN : Panel([done EXCEPT !.uncertain = uncertain])
           /\ UNCHANGED saved
  <2>1. PICK uncertain \in BOOLEAN : panel' = [done EXCEPT !.uncertain = uncertain]
    BY <1>3
  <2>2. UNCHANGED <<gone, saved, approvals, proposals>>
    BY <1>3 DEF SaveAnswered
  <2>3. panel' = [decided |-> panel.decided, held |-> panel.held,
                  execution |-> panel.execution, busy |-> panel.busy,
                  saving |-> [outcome |-> "none", target |-> Nothing],
                  uncertain |-> uncertain, asked |-> panel.asked]
    BY <2>1
  <2> QED BY <2>2, <2>3
<1>4. \/ /\ saved' = saved \union {write}
         /\ \/ Panel([done EXCEPT !.uncertain = TRUE])
            \/ Panel([done EXCEPT !.decided = IF write.outcome = "reply_needed"
                                             THEN write ELSE @])
      \/ /\ \E uncertain \in BOOLEAN : Panel([done EXCEPT !.uncertain = uncertain])
         /\ UNCHANGED saved
  BY Zenon DEF SaveAnswered
<1> QED BY <1>1, <1>2, <1>3, <1>4

LEMMA ApproveKeeps ==
  ASSUME PanelIInv, Approve
  PROVE  PanelIInv' /\ panel'.execution = panel.execution /\ panel'.asked = panel.asked
<1> QED
  BY DEF PanelIInv, PanelShape, DecisionTrue, AskedIsHeld, SavedFirst, Executing, Panel,
         mail, server, Free, Approve

(* The answer brings back the proposal of the button press, which is the one   *)
(* still held.                                                                 *)
LEMMA ApprovedKeeps ==
  ASSUME PanelIInv, ApproveAnswered
  PROVE  PanelIInv' /\ panel'.execution = panel.execution /\ panel'.asked = panel.asked
<1> DEFINE done == [panel EXCEPT !.busy = Free]
<1> USE DEF PanelIInv, PanelShape, DecisionTrue, AskedIsHeld, SavedFirst, Executing, Panel,
            mail, Free, Approving
<1>1. CASE /\ approvals' = approvals \union {panel.busy.held.id}
           /\ Panel([done EXCEPT !.held = [panel.busy.held EXCEPT !.approved = TRUE]])
  <2>1. /\ panel' = [done EXCEPT !.held = [panel.busy.held EXCEPT !.approved = TRUE]]
        /\ approvals' = approvals \union {panel.busy.held.id}
        /\ UNCHANGED <<gone, saved, proposals>>
    BY <1>1 DEF ApproveAnswered
  <2>2. /\ panel.held.id # 0 /\ panel.busy.held = panel.held /\ Approving
    BY DEF ApproveAnswered
  <2>3. /\ panel'.held = [panel.held EXCEPT !.approved = TRUE]
        /\ panel'.decided = panel.decided /\ panel'.execution = panel.execution
        /\ panel'.asked = panel.asked /\ panel'.saving = panel.saving
        /\ panel'.busy = [kind |-> "none", held |-> NoProposal, free |-> FALSE]
    BY <2>1, <2>2
  <2>4. panel'.held = [id |-> panel.held.id, target |-> panel.held.target, approved |-> TRUE]
    BY <2>3
  <2>5. PanelShape'
    BY <2>1, <2>3, <2>4
  <2>6. (DecisionTrue /\ AskedIsHeld /\ SavedFirst)'
    BY <2>1, <2>2, <2>3, <2>4
  <2> QED BY <2>3, <2>5, <2>6
<1>2. CASE Panel(done) /\ approvals \subseteq approvals'
  BY <1>2 DEF ApproveAnswered
<1> QED BY <1>1, <1>2 DEF ApproveAnswered

LEMMA RunKeeps ==
  ASSUME PanelIInv, RunDone
  PROVE  PanelIInv' /\ panel.execution = "none"
<1>1. PICK free \in {FALSE, ~Loading} :
        panel' = [panel EXCEPT !.busy = [kind |-> "execute", held |-> panel.held, free |-> free],
                               !.asked = @ + 1]
  BY DEF RunDone, Panel
<1>2. /\ panel.held.id # 0 /\ panel.execution = "none"
      /\ UNCHANGED <<gone, saved, approvals, proposals>>
  BY DEF RunDone, MayExecute, Panel, mail, server
<1> QED
  BY <1>1, <1>2 DEF PanelIInv, PanelShape, DecisionTrue, AskedIsHeld, SavedFirst, Executing

(* An answer is told of the proposal that was asked about, and only while no   *)
(* earlier answer stands.                                                      *)
LEMMA AnswerKeeps ==
  ASSUME PanelIInv, DoneAnswer
  PROVE  PanelIInv' /\ panel.execution = "none"
<1> DEFINE row == panel.held.target.row
<1> DEFINE told(result) == [panel EXCEPT !.busy = Free, !.execution = result]
<1>1. Executing(panel) /\ panel.execution = "none" /\ UNCHANGED <<saved, approvals, proposals>>
  BY DEF DoneAnswer, PanelIInv, AskedIsHeld, server
<1>2. ASSUME gone \subseteq gone',
             panel'.execution = "confirmed" => row \in gone',
             panel' = [decided |-> panel.decided, held |-> panel.held,
                       execution |-> panel'.execution, busy |-> Free,
                       saving |-> panel.saving, uncertain |-> panel.uncertain,
                       asked |-> panel'.asked]
      PROVE  PanelIInv'
  BY <1>1, <1>2
  DEF PanelIInv, PanelShape, DecisionTrue, AskedIsHeld, SavedFirst, Executing, Free
<1>3. ASSUME gone \subseteq gone',
             \/ panel' = told("confirmed") /\ row \in gone'
             \/ panel' = told("uncertain")
             \/ panel' = [told("blocked") EXCEPT !.asked = @ - 1]
      PROVE  PanelIInv'
  <2> USE DEF PanelIInv, PanelShape
  <2>1. CASE panel' = told("confirmed") /\ row \in gone'
    BY <1>2, <1>3, <2>1
  <2>2. CASE panel' = told("uncertain")
    BY <1>2, <1>3, <2>2
  <2>3. CASE panel' = [told("blocked") EXCEPT !.asked = @ - 1]
    BY <1>2, <1>3, <2>3
  <2> QED BY <1>3, <2>1, <2>2, <2>3
<1>8. ASSUME row \in InInbox, gone' = gone \union {row}
      PROVE  gone \subseteq gone' /\ row \in gone'
  BY <1>8
<1> HIDE DEF told, row
<1>4. CASE row \in InInbox /\ gone' = gone \union {row} /\ Scan(told("confirmed"), owed)
  <2>1. panel' = told("confirmed") \/ panel' = NewPanel
    BY <1>4, ShowsPanel DEF Scan
  <2>2. CASE panel' = NewPanel
    BY <1>1, <1>4, <2>2, PanelKept
  <2>3. gone \subseteq gone' /\ row \in gone'
    BY <1>4, <1>8
  <2> QED BY <1>1, <1>3, <2>1, <2>2, <2>3
<1>5. CASE row \in InInbox /\ gone' = gone \union {row} /\ panel' = told("confirmed")
  BY <1>1, <1>3, <1>5, <1>8
<1>6. CASE gone \subseteq gone' /\ panel' = told("uncertain")
  BY <1>1, <1>3, <1>6
<1>7. CASE Panel([told("blocked") EXCEPT !.asked = @ - 1])
  BY <1>1, <1>3, <1>7 DEF Panel, mail
<1> QED BY <1>1, <1>4, <1>5, <1>6, <1>7 DEF DoneAnswer, told, row

LEMMA ChangeKeeps ==
  ASSUME PanelIInv, Change
  PROVE  PanelIInv' /\ ~Locked(panel)
<1>1. /\ panel' = [panel EXCEPT !.decided = Undecided, !.held = NoProposal,
                               !.execution = "none"]
      /\ panel.busy = Free /\ ~Locked(panel)
      /\ UNCHANGED <<gone, saved, approvals, proposals>>
  BY DEF Change, Panel, mail, server
<1>2. panel' = [decided |-> Undecided, held |-> NoProposal, execution |-> "none",
                busy |-> Free, saving |-> panel.saving, uncertain |-> panel.uncertain,
                asked |-> panel.asked]
  BY <1>1 DEF PanelIInv, PanelShape
<1>3. /\ panel'.decided.outcome = "none" /\ panel'.held.id = 0
      /\ panel'.held = [id |-> 0, target |-> Nothing, approved |-> FALSE]
      /\ panel'.execution = "none" /\ panel'.busy.kind = "none"
      /\ panel'.decided = Undecided
  BY <1>2 DEF Undecided, NoProposal, Free
<1>4. PanelShape'
  <2>1. panel'.held = [id |-> panel'.held.id, target |-> panel'.held.target,
                       approved |-> panel'.held.approved]
    BY <1>3
  <2>2. panel' = [decided |-> panel'.decided, held |-> panel'.held,
                  execution |-> panel'.execution, busy |-> panel'.busy,
                  saving |-> panel'.saving, uncertain |-> panel'.uncertain,
                  asked |-> panel'.asked]
    BY <1>2
  <2> QED BY <1>1, <2>1, <2>2 DEF PanelIInv, PanelShape
<1>5. (DecisionTrue /\ AskedIsHeld /\ SavedFirst)'
  BY <1>3 DEF DecisionTrue, AskedIsHeld, SavedFirst, Executing
<1> QED BY <1>1, <1>4, <1>5 DEF PanelIInv

(* Every step of the page reads, or is one of the panel. *)
LEMMA NextIs ==
  ASSUME WorkbenchNext
  PROVE  \/ Reads \/ (\E outcome \in Outcome : Record(outcome))
         \/ HandledInSpark \/ SaveAnswered \/ Approve \/ ApproveAnswered
         \/ RunDone \/ DoneAnswer \/ Change
<1> QED BY DEF WorkbenchNext, Reads

LEMMA PanelStep ==
  ASSUME PanelIInv, [WorkbenchNext]_workbenchVars
  PROVE  PanelIInv'
<1>1. CASE UNCHANGED workbenchVars
  BY <1>1, PanelKept DEF workbenchVars, mail, server, shown
<1>2. CASE Reads
  BY <1>2, ReadsPanel, PanelKept
<1> QED
  BY <1>1, <1>2, NextIs, RecordKeeps, HandledKeeps, SaveKeeps, ApproveKeeps, ApprovedKeeps,
     RunKeeps, AnswerKeeps, ChangeKeeps

-----------------------------------------------------------------------------
(* What is shown, and what was read under it.                                  *)

(* Readings and searches are numbered as they are begun, and no page of a scan *)
(* is asked for twice.                                                         *)
CallsInOrder ==
  /\ sequence \in Nat /\ arrived \in Nat
  /\ \A c \in lists :
       /\ c = [seq |-> c.seq, page |-> c.page, rows |-> c.rows]
       /\ c.seq \in Nat /\ c.page \in Nat \ {0} /\ c.seq <= sequence
       /\ c.rows \subseteq {m \in Message : m <= arrived}
  /\ \A c, d \in lists : c.seq = d.seq => c = d
  /\ \A s \in searches : s = [seq |-> s.seq] /\ s.seq \in Nat /\ s.seq <= sequence

(* One reading is older than another: of an earlier scan, or an earlier page.  *)
Older(a, b) == a[1] < b[1] \/ (a[1] = b[1] /\ a[2] < b[2])

(* No answer still to come carries this id: every page asked for of the newest *)
(* scan is newer, and no search that is out has it.                            *)
Past(id, n, pages, out) ==
  /\ id = <<id[1], id[2]>> /\ id[1] \in Nat /\ id[2] \in Nat /\ id[1] <= n
  /\ \A c \in pages : c.seq = n /\ id[2] # 0 => Older(id, <<c.seq, c.page>>)
  /\ \A s \in out : id # <<s.seq, 0>>

(* A reading of rows at one moment: what the store said of each was no proof,  *)
(* and asOf is the version its thread had at that moment.                      *)
ReadAt(r, m, a) == m <= a /\ r.asOf[m] = VersionAt(m, a)

Sound(r, until) ==
  \A m \in r.rows :
    /\ m \in Message /\ m <= until
    /\ r.listed[m].state # "current"
    /\ \E a \in Nat : a <= until /\ ReadAt(r, m, a)

(* A body asked for under a reading is asked for after the reading was made,   *)
(* so that its thread is read no earlier.                                      *)
Spans(r, b) ==
  r.id = b.reading /\ b.row \in r.rows =>
    IF b.status = "loading" THEN \E a \in Nat : a <= b.since /\ ReadAt(r, b.row, a)
    ELSE b.version >= r.asOf[b.row]

Held(b) == b.status \in {"loading", "ready"}

BodySound(b, i, f, now) ==
  /\ b.status = "error" => b.row \in Message
  /\ Held(b) => /\ b.row \in Message
                /\ Spans(i, b) /\ (f # Nothing => Spans(f, b))
  /\ b.status = "loading" => b.since \in Nat /\ b.since <= now
  /\ b.status = "ready" /\ b.judged.state = "current" => b.judged.version = b.version

ReadingsSound(i, f, now) ==
  /\ i.id[2] # 0 /\ Sound(i, now)
  /\ f # Nothing => f.id[2] = 0 /\ Sound(f, now)

(* No reading shown, and no body held, is to be mistaken for one to come.      *)
AllPast(i, f, b, n, pages, out) ==
  /\ Past(i.id, n, pages, out)
  /\ f # Nothing => Past(f.id, n, pages, out)
  /\ Held(b) => Past(b.reading, n, pages, out)

ShownIInv ==
  /\ CallsInOrder
  /\ AllPast(inbox, found, body, sequence, lists, searches)
  /\ ReadingsSound(inbox, found, arrived)
  /\ BodySound(body, inbox, found, arrived)

-----------------------------------------------------------------------------
(* Lemmas on versions and rows.                                                *)

(* A bounded set of numbers has a largest one. *)
LEMMA Largest ==
  ASSUME NEW S, S \subseteq Nat, S # {}, NEW n \in Nat, \A k \in S : k <= n
  PROVE  \E m \in S : \A k \in S : k <= m
<1> DEFINE T == {n - k : k \in S}
<1>1. T \subseteq Nat
  BY SMT
<1>2. T # {}
  BY Zenon
<1>3. PICK x \in T : \A y \in T : ~ (<<y, x>> \in OpToRel(<, Nat))
  BY ONLY <1>1, <1>2, NatLessThanWellFounded, WFMin
<1>4. \A y \in T : ~ (y < x)
  BY <1>1, <1>3 DEF OpToRel
<1>5. PICK m \in S : x = n - m
  BY <1>3
<1>6. \A k \in S : ~ (n - k < n - m)
  BY <1>4, <1>5
<1> QED BY <1>6

(* A thread only ever gets newer. *)
LEMMA VersionGrows ==
  ASSUME NEW m \in Message, NEW a \in Nat, NEW b \in Nat, m <= a, a <= b
  PROVE  VersionAt(m, a) \in Nat /\ VersionAt(m, b) \in Nat /\ VersionAt(m, a) <= VersionAt(m, b)
<1> DEFINE Upto(n) == {v \in Message : v <= n /\ Thread[v] = Thread[m]}
<1> USE WorkbenchAssumption
<1>1. ASSUME NEW n \in Nat, m <= n
      PROVE  /\ VersionAt(m, n) \in Upto(n)
             /\ \A w \in Upto(n) : w <= VersionAt(m, n)
  <2>1. Upto(n) \subseteq Nat /\ m \in Upto(n) /\ \A k \in Upto(n) : k <= n
    BY <1>1
  <2>2. PICK v \in Upto(n) : \A k \in Upto(n) : k <= v
    BY <2>1, Largest
  <2>3. \E w \in Message : /\ w <= n /\ Thread[w] = Thread[m]
                           /\ \A k \in Message : k <= n /\ Thread[k] = Thread[m] => k <= w
    BY <2>2
  <2> QED BY <2>3 DEF VersionAt
<1>2. VersionAt(m, a) \in Upto(a) /\ VersionAt(m, b) \in Upto(b)
  BY <1>1
<1>3. VersionAt(m, a) \in Upto(b)
  BY <1>2
<1> QED BY <1>1, <1>2, <1>3

(* What is open is listed. *)
LEMMA OpenIsListed ==
  ASSUME NEW r, NEW choice, NEW now \in Nat, Sound(r, now)
  PROVE  OpenedMessage(r, choice) # Nothing => OpenedMessage(r, choice) \in r.rows
<1>1. CASE choice \notin r.rows /\ r.rows # {}
  <2>1. r.rows \subseteq Nat /\ \A k \in r.rows : k <= now
    BY WorkbenchAssumption DEF Sound
  <2>2. \E m \in r.rows : \A k \in r.rows : k <= m
    BY <1>1, <2>1, Largest
  <2> QED BY <1>1, <2>2 DEF OpenedMessage
<1> QED BY <1>1 DEF OpenedMessage

-----------------------------------------------------------------------------
(* Lemmas on the steps.                                                        *)

(* Rendering keeps the body of the row that stays open and asks for the body   *)
(* of another under the reading it shows, which was made before.               *)
LEMMA ShowsKeeps ==
  ASSUME NEW i, NEW f, NEW choice, NEW p, NEW outlived, Shows(i, f, choice, p, outlived),
         arrived \in Nat, arrived' = arrived,
         AllPast(i, f, body, sequence', lists', searches'),
         ReadingsSound(i, f, arrived), BodySound(body, i, f, arrived)
  PROVE  /\ inbox' = i /\ found' = f
         /\ AllPast(inbox', found', body', sequence', lists', searches')
         /\ ReadingsSound(inbox', found', arrived')
         /\ BodySound(body', inbox', found', arrived')
<1> DEFINE r == ShownOf(i, f)
<1> DEFINE m == OpenedMessage(r, choice)
<1>1. inbox' = i /\ found' = f /\ body' = Follow(body, m, r)
  BY DEF Shows
<1>2. CASE body' = body
  BY <1>1, <1>2
<1>3. CASE body' = RequestBody(m, r) /\ m # Nothing
  <2>1. Sound(r, arrived) /\ Past(r.id, sequence', lists', searches')
    BY DEF ShownOf, ReadingsSound, AllPast
  <2>2. m \in r.rows
    BY <1>3, <2>1, OpenIsListed
  <2>3. /\ body'.status = "loading" /\ body'.row = m /\ body'.reading = r.id
        /\ body'.since = arrived
    BY <1>3 DEF RequestBody
  <2>4. PICK a \in Nat : a <= arrived /\ ReadAt(r, m, a)
    BY <2>1, <2>2 DEF Sound
  <2>5. Spans(r, body')
    BY <2>2, <2>3, <2>4 DEF Spans
  <2>6. Spans(i, body') /\ (f # Nothing => Spans(f, body'))
    BY <2>3, <2>5 DEF Spans, ShownOf, ReadingsSound
  <2>7. m \in Message
    BY <2>1, <2>2 DEF Sound
  <2>8. BodySound(body', i, f, arrived)
    BY <2>3, <2>6, <2>7 DEF BodySound
  <2>9. AllPast(i, f, body', sequence', lists', searches')
    BY <2>1, <2>3 DEF AllPast, Held
  <2> QED BY <1>1, <2>8, <2>9
<1> QED BY <1>1, <1>2, <1>3 DEF Follow

(* Time passes and mail moves: what was read stays as true as it was. *)
LEMMA StillKeeps ==
  ASSUME ShownIInv, UNCHANGED <<sequence, lists, searches, inbox, found, body>>,
         arrived' \in Nat, arrived <= arrived'
  PROVE  ShownIInv'
<1> USE DEF ShownIInv, CallsInOrder
<1>1. CallsInOrder'
  <2>1. {m \in Message : m <= arrived} \subseteq {m \in Message : m <= arrived'}
    BY WorkbenchAssumption
  <2> QED BY <2>1
<1>2. ReadingsSound(inbox, found, arrived') /\ BodySound(body, inbox, found, arrived')
  <2>1. ASSUME NEW r, Sound(r, arrived)
        PROVE  Sound(r, arrived')
    <3>1. \A m \in r.rows : m \in Nat /\ (m <= arrived => m <= arrived')
      BY <2>1, WorkbenchAssumption DEF Sound
    <3>2. \A a \in Nat : a <= arrived => a <= arrived'
      OBVIOUS
    <3> QED BY <2>1, <3>1, <3>2 DEF Sound
  <2> QED BY <2>1 DEF ReadingsSound, BodySound
<1> QED BY <1>1, <1>2

(* A scan is numbered after everything there is. *)
LEMMA ScanKeeps ==
  ASSUME ShownIInv, NEW p, NEW outlived, Scan(p, outlived), arrived' = arrived
  PROVE  ShownIInv' /\ inbox' = inbox /\ found' = Nothing
<1> DEFINE call == [seq |-> sequence + 1, page |-> 1, rows |-> {}]
<1> USE DEF ShownIInv
<1>1. /\ sequence' = sequence + 1 /\ lists' = lists \union {call} /\ searches' = searches
      /\ Shows(inbox, Nothing, chosen, p, outlived)
  BY DEF Scan
<1>2. CallsInOrder'
  <2>1. \A c \in lists' : c \in lists \/ c = call
    BY <1>1
  <2>2. \A c \in lists : c.seq # sequence + 1
    BY DEF CallsInOrder
  <2>3. \A c, d \in lists' : c.seq = d.seq => c = d
    <3>1. \A c, d \in lists : c.seq = d.seq => c = d
      BY DEF CallsInOrder
    <3>2. call.seq = sequence + 1
      OBVIOUS
    <3> HIDE DEF call
    <3> QED BY ONLY <2>1, <2>2, <3>1, <3>2
  <2>4. \A c \in lists' : /\ c = [seq |-> c.seq, page |-> c.page, rows |-> c.rows]
                          /\ c.seq \in Nat /\ c.page \in Nat \ {0} /\ c.seq <= sequence + 1
                          /\ c.rows \subseteq {m \in Message : m <= arrived}
    BY <2>1 DEF CallsInOrder
  <2>5. \A s \in searches : s = [seq |-> s.seq] /\ s.seq \in Nat /\ s.seq <= sequence + 1
    BY DEF CallsInOrder
  <2>6. sequence' \in Nat /\ arrived' \in Nat
    BY <1>1 DEF CallsInOrder
  <2> QED BY ONLY arrived' = arrived, <1>1, <2>3, <2>4, <2>5, <2>6 DEF CallsInOrder
<1>3. ASSUME NEW id, Past(id, sequence, lists, searches)
      PROVE  Past(id, sequence', lists', searches')
  <2>1. \A c \in lists' : c.seq = sequence' => c.seq = sequence + 1
    BY <1>1
  <2> QED BY <1>1, <1>3, <2>1 DEF Past, Older, CallsInOrder
<1>4. /\ AllPast(inbox, Nothing, body, sequence', lists', searches')
      /\ ReadingsSound(inbox, Nothing, arrived) /\ BodySound(body, inbox, Nothing, arrived)
  BY <1>3 DEF AllPast, ReadingsSound, BodySound
<1>5. arrived \in Nat
  BY DEF CallsInOrder
<1> HIDE DEF ShownIInv
<1> QED BY <1>1, <1>2, <1>4, <1>5, ShowsKeeps DEF ShownIInv

(* A reading made now is sound. *)
LEMMA NewReading ==
  ASSUME arrived \in Nat, NEW id, NEW listed,
         listed \subseteq {m \in Message : m <= arrived}
  PROVE  Sound(Reading(id, listed), arrived) /\ Reading(id, listed).id = id
<1> DEFINE r == Reading(id, listed)
<1>1. r.rows = listed /\ r.id = id
  BY DEF Reading
<1>2. ASSUME NEW m \in listed
      PROVE  r.listed[m] = Stored(m) /\ r.asOf[m] = VersionAt(m, arrived)
  BY <1>2 DEF Reading, Version
<1>3. \A m \in listed : Stored(m).state # "current"
  BY DEF Stored
<1> QED BY <1>1, <1>2, <1>3 DEF Sound, ReadAt

(* A page of a scan comes after every page shown before it. *)
LEMMA ListKeeps ==
  ASSUME ShownIInv, NEW call \in lists, ListAnswered(call)
  PROVE  /\ ShownIInv' /\ found' = found
         /\ inbox' = inbox \/ Older(inbox.id, inbox'.id)
<1> DEFINE listed == call.rows \union Page(call.page)
<1> DEFINE next == [call EXCEPT !.page = @ + 1, !.rows = listed]
<1> DEFINE new == Reading(<<call.seq, call.page>>, listed)
<1>1. /\ arrived' = arrived /\ UNCHANGED <<sequence, searches>>
      /\ lists' \subseteq (lists \ {call}) \union {next}
  BY DEF ListAnswered, mail
<1>2. arrived \in Nat /\ listed \subseteq {m \in Message : m <= arrived}
  BY DEF ShownIInv, CallsInOrder, Page, InInbox
<1>3. next = [seq |-> call.seq, page |-> call.page + 1, rows |-> listed]
  <2>1. call = [seq |-> call.seq, page |-> call.page, rows |-> call.rows]
    BY DEF ShownIInv, CallsInOrder
  <2>2. ASSUME NEW all, NEW n, n = [call EXCEPT !.page = @ + 1, !.rows = all]
        PROVE  n = [seq |-> call.seq, page |-> call.page + 1, rows |-> all]
    BY <2>1, <2>2
  <2> HIDE DEF listed
  <2> QED BY <2>2
<1>4. /\ call.seq \in Nat /\ call.page \in Nat \ {0} /\ call.seq <= sequence /\ sequence \in Nat
      /\ \A c \in lists \ {call} : c.seq # call.seq
  BY DEF ShownIInv, CallsInOrder
<1>5. CallsInOrder'
  <2>1. \A c \in lists' : c \in lists \ {call} \/ c = next
    BY <1>1
  <2>2. \A c \in lists' : /\ c = [seq |-> c.seq, page |-> c.page, rows |-> c.rows]
                          /\ c.seq \in Nat /\ c.page \in Nat \ {0} /\ c.seq <= sequence
                          /\ c.rows \subseteq {m \in Message : m <= arrived}
    BY <1>2, <1>3, <1>4, <2>1 DEF ShownIInv, CallsInOrder
  <2>3. \A c, d \in lists' : c.seq = d.seq => c = d
    BY <1>3, <1>4, <2>1 DEF ShownIInv, CallsInOrder
  <2> QED BY <1>1, <2>2, <2>3 DEF ShownIInv, CallsInOrder
<1>6. ASSUME NEW id, Past(id, sequence, lists, searches)
      PROVE  Past(id, sequence', lists', searches')
  <2>1. \A c \in lists' : c \in lists \/ (c.seq = call.seq /\ c.page = call.page + 1)
    BY <1>1, <1>3
  <2> QED BY <1>1, <1>4, <1>6, <2>1 DEF Past, Older
<1>7. CASE Current(call) /\ Rendered(new, found, chosen, panel)
  <2>1. new.id = <<call.seq, call.page>> /\ Sound(new, arrived)
    BY <1>2, NewReading
  <2>2. Past(new.id, sequence', lists', searches')
    <3>1. \A c \in lists' : c.seq = sequence => c.page = call.page + 1 /\ c.seq = call.seq
      BY <1>1, <1>3, <1>4, <1>7 DEF Current
    <3>2. /\ new.id = <<new.id[1], new.id[2]>> /\ new.id[1] = call.seq /\ new.id[2] = call.page
          /\ new.id[1] \in Nat /\ new.id[2] \in Nat /\ new.id[1] <= sequence
      <4> HIDE DEF new
      <4> QED BY <1>4, <2>1
    <3>3. \A c \in lists' : c.seq = sequence => Older(new.id, <<c.seq, c.page>>)
      BY <1>4, <3>1, <3>2 DEF Older
    <3>4. \A s \in searches : new.id # <<s.seq, 0>>
      BY <1>4, <2>1
    <3> QED BY ONLY <1>1, <3>2, <3>3, <3>4 DEF Past
  <2>3. \A id : Past(id, sequence, lists, searches) => id # new.id
    BY <1>4, <1>7, <2>1 DEF Past, Older, Current
  <2>4. AllPast(new, found, body, sequence', lists', searches')
    BY <1>6, <2>2 DEF ShownIInv, AllPast
  <2>5. BodySound(body, new, found, arrived)
    BY <2>3 DEF ShownIInv, AllPast, BodySound, Spans, Held
  <2>6. ReadingsSound(new, found, arrived)
    BY <1>4, <2>1 DEF ShownIInv, ReadingsSound
  <2>7. ShownIInv' /\ inbox' = new /\ found' = found
    BY <1>1, <1>2, <1>5, <1>7, <2>4, <2>5, <2>6, ShowsKeeps DEF ShownIInv, Rendered
  <2>8. Older(inbox.id, new.id)
    BY <1>7, <2>1 DEF ShownIInv, AllPast, ReadingsSound, Past, Current
  <2> QED BY <2>7, <2>8
<1>8. CASE UNCHANGED shown
  BY <1>1, <1>5, <1>6, <1>8 DEF ShownIInv, AllPast, shown
<1> QED BY <1>7, <1>8 DEF ListAnswered

LEMMA SearchKeeps ==
  ASSUME ShownIInv, Search
  PROVE  ShownIInv' /\ UNCHANGED <<inbox, found>>
<1>1. /\ arrived' = arrived /\ sequence' = sequence + 1 /\ lists' = lists
      /\ searches' = searches \union {[seq |-> sequence + 1]}
      /\ UNCHANGED <<inbox, found, body>>
  BY DEF Search, mail, shown
<1>2. CallsInOrder'
  BY <1>1 DEF ShownIInv, CallsInOrder
<1>3. ASSUME NEW id, Past(id, sequence, lists, searches)
      PROVE  Past(id, sequence', lists', searches')
  BY <1>1, <1>3 DEF Past, ShownIInv, CallsInOrder
<1> QED BY <1>1, <1>2, <1>3 DEF ShownIInv, AllPast

(* The answer to a search is shown only while nothing was begun after it. *)
LEMMA FoundKeeps ==
  ASSUME ShownIInv, NEW call \in searches, SearchAnswered(call)
  PROVE  /\ ShownIInv' /\ inbox' = inbox
         /\ found' = found \/ found' = Nothing \/ found'.id[1] = sequence
<1>1. /\ arrived' = arrived /\ UNCHANGED <<sequence, lists>> /\ searches' = searches \ {call}
  BY DEF SearchAnswered, mail
<1>2. CallsInOrder'
  BY <1>1 DEF ShownIInv, CallsInOrder
<1>3. ASSUME NEW id, Past(id, sequence, lists, searches)
      PROVE  Past(id, sequence', lists', searches')
  BY <1>1, <1>3 DEF Past
<1>4. arrived \in Nat
  BY DEF ShownIInv, CallsInOrder
<1>5. CASE \E listed \in SUBSET InInbox :
             /\ Rendered(inbox, Reading(<<call.seq, 0>>, listed), chosen, panel)
             /\ Current(call)
  <2>1. PICK listed \in SUBSET InInbox :
               /\ Rendered(inbox, Reading(<<call.seq, 0>>, listed), chosen, panel)
               /\ Current(call)
    BY <1>5
  <2> DEFINE new == Reading(<<call.seq, 0>>, listed)
  <2>2. listed \subseteq {m \in Message : m <= arrived}
    BY <2>1 DEF InInbox
  <2>3. new.id = <<call.seq, 0>> /\ Sound(new, arrived)
    BY <1>4, <2>2, NewReading
  <2>4. \A s \in searches \ {call} : s.seq # call.seq
    BY DEF ShownIInv, CallsInOrder
  <2>5. Past(new.id, sequence', lists', searches')
    BY <1>1, <2>3, <2>4 DEF Past, ShownIInv, CallsInOrder
  <2>6. \A id : Past(id, sequence, lists, searches) => id # new.id
    BY <2>3 DEF Past
  <2>7. AllPast(inbox, new, body, sequence', lists', searches')
    BY <1>3, <2>5 DEF ShownIInv, AllPast
  <2>8. BodySound(body, inbox, new, arrived)
    BY <2>6 DEF ShownIInv, AllPast, BodySound, Spans, Held
  <2>9. ReadingsSound(inbox, new, arrived)
    BY <2>3 DEF ShownIInv, ReadingsSound
  <2>10. ShownIInv' /\ inbox' = inbox /\ found' = new
    BY <1>1, <1>2, <1>4, <2>1, <2>7, <2>8, <2>9, ShowsKeeps DEF ShownIInv, Rendered
  <2> QED BY <2>1, <2>3, <2>10 DEF Current
<1>6. CASE Rendered(inbox, Nothing, chosen, panel)
  <2>1. /\ AllPast(inbox, Nothing, body, sequence', lists', searches')
        /\ ReadingsSound(inbox, Nothing, arrived) /\ BodySound(body, inbox, Nothing, arrived)
    BY <1>3 DEF ShownIInv, AllPast, ReadingsSound, BodySound
  <2> QED BY <1>1, <1>2, <1>4, <1>6, <2>1, ShowsKeeps DEF ShownIInv, Rendered
<1>7. CASE UNCHANGED shown
  BY <1>1, <1>2, <1>3, <1>7 DEF ShownIInv, AllPast, shown
<1> QED BY <1>5, <1>6, <1>7 DEF SearchAnswered

LEMMA ClearKeeps ==
  ASSUME ShownIInv, ClearSearch
  PROVE  ShownIInv' /\ inbox' = inbox /\ found' = Nothing
<1>1. arrived' = arrived /\ UNCHANGED <<sequence, lists, searches>> /\ arrived \in Nat
  BY DEF ClearSearch, mail, reading, ShownIInv, CallsInOrder
<1>2. /\ AllPast(inbox, Nothing, body, sequence', lists', searches')
      /\ ReadingsSound(inbox, Nothing, arrived) /\ BodySound(body, inbox, Nothing, arrived)
  BY <1>1 DEF ShownIInv, AllPast, ReadingsSound, BodySound
<1>3. CallsInOrder'
  BY <1>1 DEF ShownIInv, CallsInOrder
<1> QED BY <1>1, <1>2, <1>3, ShowsKeeps DEF ShownIInv, ClearSearch, Rendered

LEMMA OpenKeeps ==
  ASSUME ShownIInv, NEW m \in Message, OpenMessage(m)
  PROVE  ShownIInv' /\ UNCHANGED <<inbox, found>>
<1>1. arrived' = arrived /\ UNCHANGED <<sequence, lists, searches>> /\ arrived \in Nat
  BY DEF OpenMessage, mail, reading, ShownIInv, CallsInOrder
<1>2. CallsInOrder' /\ AllPast(inbox, found, body, sequence', lists', searches')
  BY <1>1 DEF ShownIInv, CallsInOrder
<1> QED BY <1>1, <1>2, ShowsKeeps DEF ShownIInv, OpenMessage, Rendered

(* A thread is read at some moment after the request for it. *)
LEMMA BodyKeeps ==
  ASSUME ShownIInv, BodyAnswered
  PROVE  ShownIInv' /\ UNCHANGED <<inbox, found>>
<1>1. arrived' = arrived /\ UNCHANGED <<sequence, lists, searches, inbox, found>> /\ arrived \in Nat
  BY DEF BodyAnswered, mail, reading, ShownIInv, CallsInOrder
<1>2. Held(body) /\ body.row \in Message /\ body.since \in Nat /\ body.since <= arrived
  BY DEF BodyAnswered, Held, ShownIInv, BodySound
<1>3. SUFFICES AllPast(inbox, found, body', sequence, lists, searches)
               /\ BodySound(body', inbox, found, arrived)
  BY <1>1 DEF ShownIInv, CallsInOrder
<1>4. CASE body' = [status |-> "error", row |-> body.row]
  BY <1>2, <1>4 DEF ShownIInv, AllPast, BodySound, Held
<1>5. CASE \E n \in body.since..arrived :
             LET version == VersionAt(body.row, n)
             IN body' = [status |-> "ready", row |-> body.row, reading |-> body.reading,
                         version |-> version, judged |-> Verified(Stored(body.row), version)]
  <2>1. PICK n \in body.since..arrived :
             body' = [status |-> "ready", row |-> body.row, reading |-> body.reading,
                      version |-> VersionAt(body.row, n),
                      judged |-> Verified(Stored(body.row), VersionAt(body.row, n))]
    BY <1>5
  <2>2. ASSUME NEW r, Spans(r, body)
        PROVE  Spans(r, body')
    <3>1. SUFFICES ASSUME r.id = body.reading, body.row \in r.rows
                   PROVE  VersionAt(body.row, n) >= r.asOf[body.row]
      BY <2>1 DEF Spans
    <3>2. PICK a \in Nat : a <= body.since /\ ReadAt(r, body.row, a)
      BY <2>2, <3>1 DEF Spans, BodyAnswered
    <3>3. n \in Nat /\ a <= n
      BY <1>2, <3>2
    <3> QED BY <1>2, <3>2, <3>3, VersionGrows DEF ReadAt
  <2>3. Verified(Stored(body.row), VersionAt(body.row, n)).state = "current"
          => Verified(Stored(body.row), VersionAt(body.row, n)).version = VersionAt(body.row, n)
    BY DEF Verified, Stored
  <2>4. /\ body'.status = "ready" /\ body'.row = body.row /\ body'.reading = body.reading
        /\ body'.version = VersionAt(body.row, n)
        /\ body'.judged = Verified(Stored(body.row), VersionAt(body.row, n))
    BY <2>1
  <2> QED BY <1>2, <2>2, <2>3, <2>4 DEF ShownIInv, AllPast, BodySound, Held
<1> QED BY <1>4, <1>5 DEF BodyAnswered

LEMMA RetryKeeps ==
  ASSUME ShownIInv, Retry
  PROVE  ShownIInv' /\ UNCHANGED <<inbox, found>>
<1>1. /\ arrived' = arrived /\ UNCHANGED <<sequence, lists, searches, inbox, found>>
      /\ arrived \in Nat /\ body.status = "error" /\ body.row = Open
      /\ body' = RequestBody(Open, Shown)
  BY DEF Retry, mail, reading, ShownIInv, CallsInOrder
<1>2. Sound(Shown, arrived) /\ Past(Shown.id, sequence, lists, searches)
  BY DEF Shown, ShownOf, ShownIInv, ReadingsSound, AllPast
<1>3. Open \in Message /\ Open \in Shown.rows
  <2>1. Open \in Message /\ Open # Nothing
    BY <1>1, WorkbenchAssumption DEF ShownIInv, BodySound
  <2> QED BY <1>1, <1>2, <2>1, OpenIsListed DEF Open
<1>4. PICK a \in Nat : a <= arrived /\ ReadAt(Shown, Open, a)
  BY <1>2, <1>3 DEF Sound
<1>5. /\ body'.status = "loading" /\ body'.row = Open /\ body'.reading = Shown.id
      /\ body'.since = arrived
  BY <1>1 DEF RequestBody
<1>6. Spans(Shown, body')
  BY <1>4, <1>5 DEF Spans
<1>7. Spans(inbox, body') /\ (found # Nothing => Spans(found, body'))
  BY <1>5, <1>6 DEF Spans, Shown, ShownOf, ShownIInv, ReadingsSound
<1>8. BodySound(body', inbox, found, arrived)
  BY <1>1, <1>3, <1>5, <1>7 DEF BodySound
<1>9. AllPast(inbox, found, body', sequence, lists, searches)
  BY <1>2, <1>5 DEF ShownIInv, AllPast, Held
<1> QED BY <1>1, <1>8, <1>9 DEF ShownIInv, CallsInOrder

(* The steps of the panel leave what is shown alone, but for the scan that a   *)
(* confirmed execution asks for.                                               *)
Still == UNCHANGED <<arrived, sequence, lists, searches, inbox, found, body>>

LEMMA PanelShown ==
  ASSUME WorkbenchNext
  PROVE  \/ Reads \/ Still
         \/ arrived' = arrived /\ \E p, outlived : Scan(p, outlived)
<1> USE DEF mail, reading, Panel, Still
<1>1. ASSUME NEW outcome \in Outcome, Record(outcome)
      PROVE  Still
  BY <1>1 DEF Record, Write
<1>2. CASE HandledInSpark
  BY <1>2 DEF HandledInSpark, Write
<1>3. CASE SaveAnswered
  BY <1>3 DEF SaveAnswered
<1>4. CASE Approve \/ ApproveAnswered
  BY <1>4 DEF Approve, ApproveAnswered
<1>5. CASE RunDone
  BY <1>5 DEF RunDone
<1>6. CASE DoneAnswer
  <2> DEFINE told(result) == [panel EXCEPT !.busy = Free, !.execution = result]
  <2>1. CASE arrived' = arrived /\ Scan(told("confirmed"), owed)
    BY <2>1
  <2> QED BY <1>6, <2>1 DEF DoneAnswer
<1>7. CASE Change
  BY <1>7 DEF Change
<1> QED BY <1>1, <1>2, <1>3, <1>4, <1>5, <1>6, <1>7, NextIs

LEMMA ShownStep ==
  ASSUME ShownIInv, [WorkbenchNext]_workbenchVars
  PROVE  /\ ShownIInv'
         /\ inbox' = inbox \/ Older(inbox.id, inbox'.id)
         /\ found' = found \/ found' = Nothing \/ found'.id[1] = sequence
<1>1. arrived \in Nat
  BY DEF ShownIInv, CallsInOrder
<1>2. CASE Still
  BY <1>1, <1>2, StillKeeps DEF Still
<1>3. CASE UNCHANGED workbenchVars
  BY <1>2, <1>3 DEF workbenchVars, mail, reading, shown, Still
<1>4. CASE arrived' = arrived /\ \E p, outlived : Scan(p, outlived)
  BY <1>4, ScanKeeps
<1>5. CASE Reads
  <2>1. CASE Arrive
    BY <1>1, <2>1, StillKeeps DEF Arrive, reading, shown
  <2>2. CASE \E m \in Message : Judge(m)
    BY <1>2, <2>2 DEF Judge, Still, reading, shown
  <2>3. CASE \E m \in Message : OpenMessage(m)
    BY <2>3, OpenKeeps
  <2>4. CASE Refresh
    BY <1>4, <2>4 DEF Refresh, mail
  <2>5. CASE \E call \in lists : ListAnswered(call)
    BY <2>5, ListKeeps
  <2>6. CASE \E call \in searches : SearchAnswered(call)
    BY <2>6, FoundKeeps
  <2>7. CASE Search \/ ClearSearch \/ BodyAnswered \/ Retry
    BY <2>7, SearchKeeps, ClearKeeps, BodyKeeps, RetryKeeps
  <2>8. CASE \E e \in owed : OutlivedAnswered(e)
    <3>1. PICK e \in owed : OutlivedAnswered(e)
      BY <2>8
    <3>2. \/ arrived' = arrived /\ Scan(panel, owed \ {e})
          \/ Still
      BY <3>1 DEF OutlivedAnswered, Still, reading
    <3> QED BY <1>2, <1>4, <3>2
  <2> QED BY <1>5, <2>1, <2>2, <2>3, <2>4, <2>5, <2>6, <2>7, <2>8 DEF Reads
<1> QED BY <1>2, <1>3, <1>4, <1>5, PanelShown

LEMMA ShownInit ==
  ASSUME WorkbenchInit
  PROVE  ShownIInv
<1> DEFINE m == OpenedMessage(FirstPage, Nothing)
<1>1. /\ arrived = Initially /\ sequence = 1 /\ searches = {} /\ found = Nothing
      /\ inbox = FirstPage /\ body = Follow(IdleBody, m, FirstPage)
      /\ lists \subseteq {[seq |-> 1, page |-> 2, rows |-> Page(1)]}
      /\ arrived \in Nat
  BY WorkbenchAssumption DEF WorkbenchInit
<1>2. Page(1) \subseteq {k \in Message : k <= arrived}
  BY DEF Page, InInbox
<1>3. inbox.id = <<1, 1>> /\ Sound(inbox, arrived)
  BY <1>1, <1>2, NewReading DEF FirstPage
<1>4. CallsInOrder
  BY <1>1, <1>2 DEF CallsInOrder
<1>5. Past(inbox.id, sequence, lists, searches)
  BY <1>1, <1>3 DEF Past, Older
<1>6. CASE body = IdleBody
  BY <1>1, <1>3, <1>4, <1>5, <1>6
  DEF IdleBody, ShownIInv, AllPast, ReadingsSound, BodySound, Held
<1>7. CASE body = RequestBody(m, FirstPage) /\ m # Nothing
  <2>1. m \in inbox.rows
    BY <1>1, <1>3, <1>7, OpenIsListed
  <2>2. /\ body.status = "loading" /\ body.row = m /\ body.reading = inbox.id
        /\ body.since = arrived
    BY <1>1, <1>7 DEF RequestBody
  <2>3. Spans(inbox, body) /\ m \in Message
    BY <1>3, <2>1, <2>2 DEF Spans, Sound
  <2> QED
    BY <1>1, <1>3, <1>4, <1>5, <2>2, <2>3
    DEF ShownIInv, AllPast, ReadingsSound, BodySound, Held
<1> QED BY <1>1, <1>6, <1>7 DEF Follow

-----------------------------------------------------------------------------
(* Theorems.                                                                   *)

(* The panel never calls a decision approved, saved or done that the server or *)
(* Spark did not: the stale closure an answer returns through changes nothing. *)
THEOREM DecisionsTrue == WorkbenchSpec => []DecisionTrue
<1>1. WorkbenchInit => PanelIInv
  BY PanelInit
<1>2. PanelIInv /\ [WorkbenchNext]_workbenchVars => PanelIInv'
  BY PanelStep
<1>3. PanelIInv => DecisionTrue
  BY DEF PanelIInv
<1> QED BY <1>1, <1>2, <1>3, PTL DEF WorkbenchSpec

(* While its row stays open, an attempt told confirmed or uncertain is neither *)
(* taken back nor made again, whatever is read, arrives or is answered.        *)
THEOREM SettledKept == WorkbenchSpec => SettledStays
<1>1. WorkbenchInit => PanelIInv
  BY PanelInit
<1>2. PanelIInv /\ [WorkbenchNext]_workbenchVars => PanelIInv'
  BY PanelStep
<1>3. ASSUME PanelIInv, [WorkbenchNext]_workbenchVars,
             panel.execution \in {"confirmed", "uncertain"}, Open' = Open
      PROVE  panel'.execution = panel.execution /\ panel'.asked = panel.asked
  <2>1. CASE UNCHANGED workbenchVars
    BY <2>1 DEF workbenchVars, shown
  <2>2. CASE Reads
    BY <1>3, <2>2, ReadsPanel
  <2>3. panel.execution # "none" /\ Locked(panel)
    BY <1>3 DEF Locked
  <2> QED
    BY <1>3, <2>1, <2>2, <2>3, NextIs, RecordKeeps, HandledKeeps, SaveKeeps, ApproveKeeps,
       ApprovedKeeps, RunKeeps, AnswerKeeps, ChangeKeeps
<1> QED BY <1>1, <1>2, <1>3, PTL DEF WorkbenchSpec, SettledStays

(* What the page proves of the open row was read after the reading it is shown *)
(* under, whichever readings, searches and body reads overtook each other.     *)
THEOREM ProofsAreOfThisReading == WorkbenchSpec => []ProofIsOfThisReading
<1>1. WorkbenchInit => ShownIInv
  BY ShownInit
<1>2. ShownIInv /\ [WorkbenchNext]_workbenchVars => ShownIInv'
  BY ShownStep
<1>3. ASSUME ShownIInv, Open # Nothing
      PROVE  /\ Observation # Nothing /\ Observation.observed = "named" /\ Observation.proven
                  => Observation.version >= Shown.asOf[Open]
             /\ Evidence.state = "current" =>
                  /\ Evidence.version >= Shown.asOf[Open]
                  /\ Evidence.version = Shown.listed[Open].version
  <2>1. Sound(Shown, arrived) /\ arrived \in Nat
    BY <1>3 DEF ShownIInv, CallsInOrder, ReadingsSound, Shown, ShownOf
  <2>2. Open \in Shown.rows /\ Shown.listed[Open].state # "current"
    BY <1>3, <2>1, OpenIsListed DEF Open, Sound
  <2>3. ReadNow # Nothing =>
          /\ ReadNow.version >= Shown.asOf[Open]
          /\ ReadNow.judged.state = "current" => ReadNow.judged.version = ReadNow.version
    BY <1>3, <2>2 DEF ReadNow, ShownIInv, BodySound, Held, Spans, Shown, ShownOf
  <2>4. Evidence.state = "current" =>
          /\ ReadNow # Nothing /\ Evidence = ReadNow.judged
          /\ Evidence.version = Shown.listed[Open].version
    BY <2>2 DEF Evidence, EvidenceFor
  <2>5. Observation # Nothing /\ Observation.observed = "named" /\ Observation.proven
          => Observation.version >= Shown.asOf[Open]
    <3>1. CASE ReadNow # Nothing
      BY <2>3, <3>1 DEF Observation
    <3>2. CASE ReadNow = Nothing
      <4>1. Evidence.state # "current"
        BY <2>4, <3>2
      <4> QED BY <3>2, <4>1 DEF Observation
    <3> QED BY <3>1, <3>2
  <2> QED BY <2>3, <2>4, <2>5
<1>4. ShownIInv => ProofIsOfThisReading
  BY <1>3 DEF ProofIsOfThisReading
<1> QED BY <1>1, <1>2, <1>4, PTL DEF WorkbenchSpec

(* No late answer takes the page back to an older reading, and no search is    *)
(* shown over a scan that was begun after it.                                  *)
THEOREM NewestKept == WorkbenchSpec => NewestShown
<1>1. WorkbenchInit => ShownIInv
  BY ShownInit
<1>2. ShownIInv /\ [WorkbenchNext]_workbenchVars => ShownIInv'
  BY ShownStep
<1>3. ASSUME ShownIInv, [WorkbenchNext]_workbenchVars
      PROVE  /\ inbox'.id # inbox.id =>
                   \/ inbox'.id[1] > inbox.id[1]
                   \/ inbox'.id[1] = inbox.id[1] /\ inbox'.id[2] > inbox.id[2]
             /\ found' # Nothing /\ found' # found => found'.id[1] = sequence
  <2>1. Past(inbox.id, sequence, lists, searches) /\ Past(inbox'.id, sequence', lists', searches')
    BY <1>3, ShownStep DEF ShownIInv, AllPast
  <2>2. \A a, b \in Nat : a < b <=> b > a
    OBVIOUS
  <2> QED BY <1>3, <2>1, <2>2, ShownStep DEF Older, Past
<1> QED BY <1>1, <1>2, <1>3, PTL DEF WorkbenchSpec, NewestShown

-----------------------------------------------------------------------------
(* The campaign. Its figures rest on sums over runs and on the ranks of the    *)
(* rows that failed; counting a run keeps the plan, the queue and the figures; *)
(* asking for the next batch and restoring a kept run keep the rest; and every *)
(* button, every step of the server and every answer is one of these.          *)

-----------------------------------------------------------------------------
(* Sums.                                                                       *)

\* A sum goes through partial sums.
LEMMA TotalParts ==
  ASSUME NEW n \in Nat, NEW f \in [1..n -> Nat]
  PROVE  \E u \in [0..n -> Nat] :
           u[0] = 0 /\ (\A i \in 1..n : u[i] = u[i - 1] + f[i]) /\ Total(f, n) = u[n]
<1> DEFINE Sums(u, m) == u \in [0..m -> Nat] /\ u[0] = 0 /\ \A i \in 1..m : u[i] = u[i - 1] + f[i]
           T == {m \in 0..n : ~ \E u : Sums(u, m)}
<1>1. T = {}
  <2> SUFFICES ASSUME T # {} PROVE FALSE
    OBVIOUS
  <2>1. PICK m \in T : \A k \in T : m <= k
    <3>1. T \subseteq Nat
      OBVIOUS
    <3> QED
      BY <3>1, Least
  <2>2. CASE m = 0
    <3>1. Sums([i \in 0..0 |-> 0], 0)
      OBVIOUS
    <3> QED
      BY <2>2, <3>1
  <2>3. CASE m # 0
    <3>0. m \in 0..n /\ \A k \in T : k \in Nat
      BY <2>1
    <3>1. m \in 1..n /\ m - 1 \in 0..n /\ m - 1 \notin T
      <4>1. m \in 1..n /\ m - 1 \in 0..n /\ ~(m <= m - 1)
        BY <2>3, <3>0
      <4> QED
        BY <2>1, <4>1
    <3>2. PICK u : Sums(u, m - 1)
      BY <3>1
    <3> DEFINE w == [i \in 0..m |-> IF i = m THEN u[m - 1] + f[m] ELSE u[i]]
    <3>3. f[m] \in Nat /\ m - 1 \in 0..m - 1
      BY <3>1
    <3>4. u[m - 1] + f[m] \in Nat
      BY <3>2, <3>3
    <3>5. \A i \in 0..m : i # m => i \in 0..m - 1
      BY <3>1
    <3>6. w \in [0..m -> Nat]
      BY <3>2, <3>4, <3>5
    <3>7. w[0] = 0
      BY <3>1, <3>2
    <3>8. ASSUME NEW i \in 1..m PROVE w[i] = w[i - 1] + f[i]
      <4>1. i - 1 \in 0..m /\ i - 1 # m /\ i \in 0..m
        BY <3>1
      <4>2. w[i - 1] = u[i - 1]
        BY <4>1
      <4>3. CASE i = m
        BY <4>1, <4>2, <4>3
      <4>4. CASE i # m
        <5>1. i \in 1..m - 1
          BY <3>1, <4>4
        <5> QED
          BY <3>2, <4>1, <4>2, <4>4, <5>1
      <4> QED
        BY <4>3, <4>4
    <3>9. Sums(w, m)
      BY <3>6, <3>7, <3>8
    <3> QED
      BY <2>1, <3>9
  <2> QED
    BY <2>2, <2>3
<1>2. PICK u : Sums(u, n)
  <2>1. n \in 0..n
    OBVIOUS
  <2> QED
    BY <1>1, <2>1
<1> DEFINE grown(g) == [i \in 0..n |-> IF i = 0 THEN 0 ELSE g[i - 1] + f[i]]
           total == CHOOSE g : g = grown(g)
<1>3. u = grown(u)
  <2>1. \A i \in 0..n : i # 0 => i \in 1..n
    OBVIOUS
  <2>2. \A i \in 0..n : u[i] = grown(u)[i]
    BY <1>2, <2>1
  <2> QED
    BY <1>2, <2>2
<1>4. total = grown(total)
  BY <1>3
<1>5. Total(f, n) = total[n]
  BY DEF Total
<1> HIDE DEF total
<1>6. total[0] = 0 /\ \A i \in 1..n : total[i] = total[i - 1] + f[i]
  <2>1. 0 \in 0..n /\ \A i \in 1..n : i \in 0..n /\ i # 0
    OBVIOUS
  <2> QED
    BY <1>4, <2>1
<1> DEFINE D == {i \in 0..n : total[i] # u[i]}
<1>7. D = {}
  <2> SUFFICES ASSUME D # {} PROVE FALSE
    OBVIOUS
  <2>1. PICK m \in D : \A k \in D : m <= k
    <3>1. D \subseteq Nat
      OBVIOUS
    <3> QED
      BY <3>1, Least
  <2>2. m # 0 /\ m \in 1..n
    BY <1>2, <1>6, <2>1
  <2>3. m - 1 \in 0..n /\ m - 1 \notin D
    BY <2>1, <2>2
  <2> QED
    BY <1>2, <1>6, <2>1, <2>2, <2>3
<1>8. total[n] = u[n]
  BY <1>7
<1> QED
  BY <1>2, <1>5, <1>8

\* Sums of functions that differ in one place differ by what they differ there.
LEMMA TotalAgree ==
  ASSUME NEW n \in Nat, NEW f \in [1..n -> Nat], NEW g \in [1..n -> Nat], NEW o \in 1..n,
         \A i \in 1..n : i # o => f[i] = g[i]
  PROVE  Total(f, n) \in Nat /\ Total(g, n) \in Nat /\ Total(f, n) + g[o] = Total(g, n) + f[o]
<1>1. PICK u \in [0..n -> Nat] :
         u[0] = 0 /\ (\A i \in 1..n : u[i] = u[i - 1] + f[i]) /\ Total(f, n) = u[n]
  BY TotalParts
<1>2. PICK v \in [0..n -> Nat] :
         v[0] = 0 /\ (\A i \in 1..n : v[i] = v[i - 1] + g[i]) /\ Total(g, n) = v[n]
  BY TotalParts
<1> DEFINE Agree(i) == IF i < o THEN u[i] = v[i] ELSE u[i] + g[o] = v[i] + f[o]
           T == {i \in 0..n : ~Agree(i)}
<1>3. T = {}
  <2> SUFFICES ASSUME T # {} PROVE FALSE
    OBVIOUS
  <2>1. PICK m \in T : \A k \in T : m <= k
    <3>1. T \subseteq Nat
      OBVIOUS
    <3> QED
      BY <3>1, Least
  <2>2. m # 0 /\ m \in 1..n
    <3>1. m \in 0..n /\ ~Agree(m)
      BY <2>1
    <3>2. 0 < o
      OBVIOUS
    <3>3. m # 0
      BY <1>1, <1>2, <3>1, <3>2
    <3> QED
      BY <3>1, <3>3
  <2>3. m - 1 \in 0..n /\ m - 1 \notin T
    <3>1. m - 1 \in 0..n /\ ~(m <= m - 1)
      BY <2>2
    <3> QED
      BY <2>1, <3>1
  <2>4. Agree(m - 1)
    BY <2>3
  <2>5. /\ u[m - 1] \in Nat /\ v[m - 1] \in Nat /\ f[m] \in Nat /\ g[m] \in Nat
        /\ f[o] \in Nat /\ g[o] \in Nat /\ u[m] \in Nat /\ v[m] \in Nat
    BY <2>2, <2>3
  <2>6. u[m] = u[m - 1] + f[m] /\ v[m] = v[m - 1] + g[m]
    BY <1>1, <1>2, <2>2
  <2>7. m # o => f[m] = g[m]
    BY <2>2
  <2>8. CASE m < o
    BY <2>1, <2>2, <2>4, <2>5, <2>6, <2>7, <2>8
  <2>9. CASE m = o
    BY <2>1, <2>2, <2>4, <2>5, <2>6, <2>9
  <2>10. CASE m > o
    <3>1. ~(m - 1 < o) /\ ~(m < o) /\ m # o
      BY <2>2, <2>10
    <3>2. u[m - 1] + g[o] = v[m - 1] + f[o]
      BY <2>4, <3>1
    <3>3. u[m] + g[o] = v[m] + f[o]
      <4>1. u[m] = u[m - 1] + f[m] /\ v[m] = v[m - 1] + f[m]
        BY <2>6, <2>7, <3>1
      <4> QED
        <5> DEFINE a == u[m - 1]
                   b == v[m - 1]
                   x == u[m]
                   y == v[m]
                   d == f[m]
                   e == f[o]
                   h == g[o]
        <5>1. a \in Nat /\ b \in Nat /\ d \in Nat /\ e \in Nat /\ h \in Nat
          BY <2>5
        <5>2. x = a + d /\ y = b + d /\ a + h = b + e
          BY <3>2, <4>1
        <5> HIDE DEF a, b, x, y, d, e, h
        <5>3. x + h = y + e
          BY <5>1, <5>2
        <5> QED
          BY <5>3 DEF x, y, e, h
    <3> QED
      BY <2>1, <3>1, <3>3
  <2> QED
    BY <2>2, <2>8, <2>9, <2>10
<1>4. n \in 0..n /\ ~(n < o)
  OBVIOUS
<1>5. u[n] + g[o] = v[n] + f[o]
  BY <1>3, <1>4
<1> QED
  BY <1>1, <1>2, <1>4, <1>5

-----------------------------------------------------------------------------
(* What runs spent.                                                            *)

\* The calls of the runs of a set, one place for each request.
Calls(rw, S) == [r \in 1..MaxStarts |-> IF r \in S THEN rw[r].calls ELSE 0]

\* They are numbers.
LEMMA CallsType ==
  ASSUME NEW rw, NEW S, \A r \in S : rw[r].calls \in Nat
  PROVE  Calls(rw, S) \in [1..MaxStarts -> Nat]
BY DEF Calls

\* No run spends nothing.
LEMMA SpentNone ==
  ASSUME NEW rw
  PROVE  SpentBy(rw, {}) = 0
<1>1. MaxStarts \in Nat
  BY TriageRunClientAssumption
<1>2. Calls(rw, {}) \in [1..MaxStarts -> Nat] /\ \A i \in 1..MaxStarts : Calls(rw, {})[i] = 0
  BY DEF Calls
<1>3. PICK u \in [0..MaxStarts -> Nat] :
        /\ u[0] = 0 /\ \A i \in 1..MaxStarts : u[i] = u[i - 1] + Calls(rw, {})[i]
        /\ Total(Calls(rw, {}), MaxStarts) = u[MaxStarts]
  BY <1>1, <1>2, TotalParts
<1> DEFINE T == {i \in 0..MaxStarts : u[i] # 0}
<1>4. T = {}
  <2> SUFFICES ASSUME T # {} PROVE FALSE
    OBVIOUS
  <2>1. PICK m \in T : \A k \in T : m <= k
    <3>1. T \subseteq Nat
      BY <1>1
    <3> QED
      BY <3>1, Least
  <2>2. m # 0 /\ m \in 1..MaxStarts
    BY <1>1, <1>3, <2>1
  <2>3. m - 1 \in 0..MaxStarts /\ m - 1 \notin T
    BY <1>1, <2>1, <2>2
  <2>4. u[m - 1] = 0 /\ Calls(rw, {})[m] = 0 /\ u[m] # 0
    BY <1>2, <2>1, <2>2, <2>3
  <2>5. u[m] = u[m - 1] + Calls(rw, {})[m]
    BY <1>3, <2>2
  <2> QED
    BY <2>4, <2>5
<1>5. MaxStarts \in 0..MaxStarts
  BY <1>1
<1> QED
  BY <1>3, <1>4, <1>5 DEF SpentBy, Calls

\* A run more spends its own calls more.
LEMMA SpentAdd ==
  ASSUME NEW rw, NEW S, NEW o \in 1..MaxStarts, o \notin S, \A r \in S \union {o} : rw[r].calls \in Nat
  PROVE  /\ SpentBy(rw, S) \in Nat
         /\ SpentBy(rw, S \union {o}) = SpentBy(rw, S) + rw[o].calls
<1>1. MaxStarts \in Nat
  BY TriageRunClientAssumption
<1> DEFINE f == Calls(rw, S \union {o})
           g == Calls(rw, S)
<1>2. f \in [1..MaxStarts -> Nat] /\ g \in [1..MaxStarts -> Nat]
  BY CallsType
<1>3. \A i \in 1..MaxStarts : i # o => f[i] = g[i]
  BY DEF Calls
<1>4. f[o] = rw[o].calls /\ g[o] = 0
  BY DEF Calls
<1>5. SpentBy(rw, S \union {o}) = Total(f, MaxStarts) /\ SpentBy(rw, S) = Total(g, MaxStarts)
  BY DEF SpentBy, Calls
<1> HIDE DEF f, g
<1>6. /\ Total(f, MaxStarts) \in Nat /\ Total(g, MaxStarts) \in Nat
      /\ Total(f, MaxStarts) + g[o] = Total(g, MaxStarts) + f[o]
  BY <1>1, <1>2, <1>3, TotalAgree
<1>7. rw[o].calls \in Nat
  OBVIOUS
<1> QED
  BY <1>4, <1>5, <1>6, <1>7

\* What runs spent is a matter of their own rows.
LEMMA SpentSame ==
  ASSUME NEW rw, NEW rv, NEW S, \A r \in S : rw[r] = rv[r]
  PROVE  SpentBy(rw, S) = SpentBy(rv, S)
<1>1. Calls(rw, S) = Calls(rv, S)
  BY DEF Calls
<1> QED
  BY <1>1 DEF SpentBy, Calls

\* What runs spent is a number.
LEMMA SpentNat ==
  ASSUME NEW rw, NEW S, \A r \in S : rw[r].calls \in Nat
  PROVE  SpentBy(rw, S) \in Nat
<1>1. MaxStarts \in Nat /\ Calls(rw, S) \in [1..MaxStarts -> Nat]
  BY TriageRunClientAssumption, CallsType
<1>2. PICK u \in [0..MaxStarts -> Nat] : Total(Calls(rw, S), MaxStarts) = u[MaxStarts]
  BY <1>1, TotalParts
<1> QED
  BY <1>1, <1>2 DEF SpentBy, Calls

-----------------------------------------------------------------------------
(* The places of failed reads.                                                 *)

\* How many members of a set are not beyond a place.
Rank(S, i) == Cardinality({k \in S : k <= i})

\* The members of a set take different ranks, in order.
LEMMA Ranks ==
  ASSUME NEW n \in Nat, NEW S, S \subseteq 1..n
  PROVE  /\ Cardinality(S) \in Nat
         /\ \A i \in S : Rank(S, i) \in 1..Cardinality(S)
         /\ \A i, k \in S : i < k => Rank(S, i) < Rank(S, k)
<1>1. IsFiniteSet(S)
  <2>1. IsFiniteSet(1..n)
    BY FS_Interval
  <2> QED
    BY <2>1, FS_Subset
<1>2. \A i \in S : IsFiniteSet({k \in S : k <= i}) /\ Rank(S, i) \in Nat /\ Rank(S, i) <= Cardinality(S)
  <2> TAKE i \in S
  <2>1. {k \in S : k <= i} \subseteq S
    OBVIOUS
  <2>2. IsFiniteSet({k \in S : k <= i}) /\ Cardinality({k \in S : k <= i}) <= Cardinality(S)
    BY <1>1, <2>1, FS_Subset
  <2> QED
    BY <2>2, FS_CardinalityType DEF Rank
<1>3. \A i \in S : Rank(S, i) # 0
  <2> TAKE i \in S
  <2>1. i \in {k \in S : k <= i}
    OBVIOUS
  <2> QED
    BY <1>2, <2>1, FS_EmptySet DEF Rank
<1>4. ASSUME NEW i \in S, NEW k \in S, i < k PROVE Rank(S, i) < Rank(S, k)
  <2> DEFINE A == {x \in S : x <= i}
             B == {x \in S : x <= k}
  <2>0. \A x \in S : x \in Nat
    OBVIOUS
  <2>1. A \subseteq B /\ k \in B /\ k \notin A
    <3>1. \A x \in S : x <= i => x <= k
      BY <1>4, <2>0
    <3>2. k <= k /\ ~(k <= i)
      BY <1>4, <2>0
    <3> QED
      BY <3>1, <3>2
  <2>2. IsFiniteSet(A) /\ IsFiniteSet(B)
    BY <1>2
  <2>3. A # B
    BY <2>1
  <2>4. Cardinality(A) < Cardinality(B)
    <3>1. Cardinality(A) <= Cardinality(B) /\ Cardinality(A) # Cardinality(B)
      BY <2>1, <2>2, <2>3, FS_Subset
    <3>2. Cardinality(A) \in Nat /\ Cardinality(B) \in Nat
      BY <2>2, FS_CardinalityType
    <3> QED
      BY <3>1, <3>2
  <2> QED
    BY <2>4 DEF Rank
<1>5. Cardinality(S) \in Nat
  BY <1>1, FS_CardinalityType
<1>6. \A i \in S : Rank(S, i) \in 1..Cardinality(S)
  <2> TAKE i \in S
  <2>1. Rank(S, i) \in Nat /\ Rank(S, i) <= Cardinality(S) /\ Rank(S, i) # 0
    BY <1>2, <1>3
  <2> QED
    BY <1>5, <2>1
<1> QED
  BY <1>4, <1>5, <1>6

\* Every rank is taken: the n-th failed row of a run exists.
LEMMA RankTaken ==
  ASSUME NEW n \in Nat, NEW S, S \subseteq 1..n, NEW j \in 1..Cardinality(S)
  PROVE  \E i \in S : Rank(S, i) = j
<1>0. IsFiniteSet(S)
  <2>1. IsFiniteSet(1..n)
    BY FS_Interval
  <2> QED
    BY <2>1, FS_Subset
<1>1. Cardinality(S) \in Nat /\ (\A i \in S : Rank(S, i) \in 1..Cardinality(S))
      /\ \A i, k \in S : i < k => Rank(S, i) < Rank(S, k)
  BY Ranks
<1> SUFFICES ASSUME \A i \in S : Rank(S, i) # j PROVE FALSE
  OBVIOUS
<1> DEFINE R == (1..Cardinality(S)) \ {j}
           f == [i \in S |-> Rank(S, i)]
<1>2. IsFiniteSet(R) /\ Cardinality(R) < Cardinality(S)
  <2>1. IsFiniteSet(1..Cardinality(S)) /\ Cardinality(1..Cardinality(S)) = Cardinality(S)
    BY <1>1, FS_Interval
  <2>2. R \subseteq 1..Cardinality(S) /\ R # 1..Cardinality(S)
    OBVIOUS
  <2>3. IsFiniteSet(R) /\ Cardinality(R) <= Cardinality(S) /\ Cardinality(R) # Cardinality(S)
    BY <2>1, <2>2, FS_Subset
  <2>4. Cardinality(R) \in Nat
    BY <2>3, FS_CardinalityType
  <2> QED
    BY <1>1, <2>3, <2>4
<1>3. f \in [S -> R]
  BY <1>1
<1> HIDE DEF R
<1>4. PICK x \in S, y \in S : x # y /\ f[x] = f[y]
  <2> HIDE DEF f
  <2> QED
    BY <1>0, <1>2, <1>3, FS_PigeonHole
<1>5. x \in Nat /\ y \in Nat
  BY <1>4
<1>6. x < y \/ y < x
  BY <1>4, <1>5
<1>7. Rank(S, x) \in Nat /\ Rank(S, y) \in Nat /\ Rank(S, x) = Rank(S, y)
  BY <1>1, <1>4
<1> QED
  BY <1>1, <1>6, <1>7

\* The places of the failed reads, in order, each once.
LEMMA NthPlaces ==
  ASSUME NEW n \in Nat, NEW S, S \subseteq 1..n
  PROVE  /\ Cardinality(S) \in Nat
         /\ \A j \in 1..Cardinality(S) : Nth(S, j) \in S
         /\ \A i, j \in 1..Cardinality(S) : Nth(S, i) = Nth(S, j) => i = j
         /\ \A i \in S : \E j \in 1..Cardinality(S) : Nth(S, j) = i
<1>1. Cardinality(S) \in Nat /\ (\A i \in S : Rank(S, i) \in 1..Cardinality(S))
      /\ \A i, k \in S : i < k => Rank(S, i) < Rank(S, k)
  BY Ranks
<1>2. ASSUME NEW j \in 1..Cardinality(S) PROVE Nth(S, j) \in S /\ Rank(S, Nth(S, j)) = j
  <2>0. \E i \in S : Rank(S, i) = j
    BY RankTaken
  <2>1. \E i \in S : Cardinality({k \in S : k <= i}) = j
    BY <2>0 DEF Rank
  <2> QED
    BY <2>1 DEF Nth, Rank
<1>3. ASSUME NEW i \in S PROVE Nth(S, Rank(S, i)) = i
  <2>1. Rank(S, i) \in 1..Cardinality(S)
    BY <1>1
  <2> DEFINE m == Nth(S, Rank(S, i))
  <2>2. m \in S /\ Rank(S, m) = Rank(S, i)
    BY <1>2, <2>1
  <2>3. m \in Nat /\ i \in Nat /\ Rank(S, m) \in Nat
    <3>1. S \subseteq Nat /\ 1..Cardinality(S) \subseteq Nat
      BY <1>1
    <3> QED
      BY <1>1, <2>2, <3>1
  <2>4. ~(m < i) /\ ~(i < m)
    BY <1>1, <2>2, <2>3
  <2> QED
    BY <2>3, <2>4
<1> QED
  BY <1>1, <1>2, <1>3

-----------------------------------------------------------------------------
(* The queue of failed reads.                                                  *)

\* The queue after its first row is taken.
LEMMA QueueTail ==
  ASSUME NEW s \in Seq(Nat), s # <<>>
  PROVE  /\ Head(s) \in Nat /\ Head(s) \in ToSet(s) /\ Len(s) >= 1
         /\ Tail(s) \in Seq(Nat) /\ Len(Tail(s)) = Len(s) - 1 /\ ToSet(Tail(s)) \subseteq ToSet(s)
         /\ ToSet(s) \subseteq ToSet(Tail(s)) \union {Head(s)}
         /\ IsInjective(s) => IsInjective(Tail(s)) /\ Head(s) \notin ToSet(Tail(s))
<1>1. /\ Len(s) \in Nat /\ Len(s) # 0 /\ Head(s) = s[1] /\ DOMAIN s = 1..Len(s)
      /\ Tail(s) \in Seq(Nat) /\ Len(Tail(s)) = Len(s) - 1
      /\ DOMAIN Tail(s) = 1..(Len(s) - 1) /\ \A i \in 1..(Len(s) - 1) : Tail(s)[i] = s[i + 1]
  OBVIOUS
<1>2. 1 \in DOMAIN s /\ Len(s) >= 1 /\ s[1] \in Nat
  BY <1>1
<1>3. \A i \in 1..(Len(s) - 1) : i + 1 \in 1..Len(s) /\ i + 1 # 1
  BY <1>1
<1>4. Head(s) \in ToSet(s) /\ ToSet(Tail(s)) \subseteq ToSet(s)
  BY <1>1, <1>2, <1>3 DEF ToSet
<1>6. ToSet(s) \subseteq ToSet(Tail(s)) \union {Head(s)}
  <2> SUFFICES ASSUME NEW i \in DOMAIN s, i # 1 PROVE s[i] \in ToSet(Tail(s))
    BY <1>1 DEF ToSet
  <2>1. i - 1 \in DOMAIN Tail(s) /\ Tail(s)[i - 1] = s[i]
    <3>1. i - 1 \in 1..(Len(s) - 1) /\ (i - 1) + 1 = i
      BY <1>1
    <3> QED
      BY <1>1, <3>1
  <2> QED
    BY <2>1 DEF ToSet
<1>5. ASSUME IsInjective(s) PROVE IsInjective(Tail(s)) /\ Head(s) \notin ToSet(Tail(s))
  <2>1. \A i, j \in 1..Len(s) : s[i] = s[j] => i = j
    BY <1>1, <1>5 DEF IsInjective
  <2>2. \A i, j \in 1..(Len(s) - 1) : Tail(s)[i] = Tail(s)[j] => i = j
    <3> SUFFICES ASSUME NEW i \in 1..(Len(s) - 1), NEW j \in 1..(Len(s) - 1), Tail(s)[i] = Tail(s)[j]
                 PROVE  i = j
      OBVIOUS
    <3>1. i + 1 \in 1..Len(s) /\ j + 1 \in 1..Len(s) /\ s[i + 1] = s[j + 1]
      BY <1>1, <1>3
    <3>2. i + 1 = j + 1
      BY <2>1, <3>1
    <3> QED
      BY <3>2
  <2>3. \A i \in 1..(Len(s) - 1) : Tail(s)[i] # s[1]
    BY <1>1, <1>2, <1>3, <2>1
  <2> QED
    BY <1>1, <2>2, <2>3 DEF IsInjective, ToSet
<1> QED
  BY <1>1, <1>2, <1>4, <1>5, <1>6

\* Two queues one after the other.
LEMMA QueueJoin ==
  ASSUME NEW s \in Seq(Nat), NEW t \in Seq(Nat)
  PROVE  /\ s \o t \in Seq(Nat) /\ Len(s \o t) = Len(s) + Len(t)
         /\ ToSet(s \o t) = ToSet(s) \union ToSet(t)
         /\ IsInjective(s) /\ IsInjective(t) /\ ToSet(s) \cap ToSet(t) = {} => IsInjective(s \o t)
<1> DEFINE j == s \o t
           n == Len(s)
           k == Len(t)
<1>1. /\ n \in Nat /\ k \in Nat /\ j \in Seq(Nat) /\ Len(j) = n + k
      /\ DOMAIN s = 1..n /\ DOMAIN t = 1..k /\ DOMAIN j = 1..(n + k)
      /\ \A i \in 1..(n + k) : j[i] = IF i <= n THEN s[i] ELSE t[i - n]
  OBVIOUS
<1> HIDE DEF j, n, k
<1>2. \A i \in 1..(n + k) : IF i <= n THEN i \in 1..n ELSE i - n \in 1..k
  BY <1>1
<1>3. (\A i \in 1..n : i \in 1..(n + k) /\ i <= n)
      /\ \A i \in 1..k : i + n \in 1..(n + k) /\ ~(i + n <= n) /\ (i + n) - n = i
  BY <1>1
<1>4. ToSet(j) = ToSet(s) \union ToSet(t)
  <2>1. \A i \in DOMAIN j : j[i] \in ToSet(s) \union ToSet(t)
    BY <1>1, <1>2 DEF ToSet
  <2>2. \A i \in DOMAIN s : s[i] \in ToSet(j)
    <3> TAKE i \in DOMAIN s
    <3>1. i \in DOMAIN j /\ j[i] = s[i]
      BY <1>1, <1>3
    <3> QED
      BY <3>1 DEF ToSet
  <2>3. \A i \in DOMAIN t : t[i] \in ToSet(j)
    <3> TAKE i \in DOMAIN t
    <3>1. i + n \in DOMAIN j /\ j[i + n] = t[i]
      BY <1>1, <1>3
    <3> QED
      BY <3>1 DEF ToSet
  <2> QED
    BY <2>1, <2>2, <2>3 DEF ToSet
<1>5. ASSUME IsInjective(s), IsInjective(t), ToSet(s) \cap ToSet(t) = {}
      PROVE  IsInjective(j)
  <2> SUFFICES ASSUME NEW a \in 1..(n + k), NEW b \in 1..(n + k), j[a] = j[b]
               PROVE  a = b
    BY <1>1 DEF IsInjective
  <2>1. CASE a <= n /\ b <= n
    BY <1>1, <1>2, <1>5, <2>1 DEF IsInjective
  <2>2. CASE ~(a <= n) /\ ~(b <= n)
    <3>1. a - n \in 1..k /\ b - n \in 1..k /\ t[a - n] = t[b - n]
      BY <1>1, <1>2, <2>2
    <3>2. a - n = b - n
      BY <1>1, <1>5, <3>1 DEF IsInjective
    <3> QED
      BY <1>1, <3>2
  <2>3. CASE a <= n /\ ~(b <= n)
    <3>1. j[a] \in ToSet(s) /\ j[b] \in ToSet(t)
      BY <1>1, <1>2, <2>3 DEF ToSet
    <3> QED
      BY <1>5, <3>1
  <2>4. CASE ~(a <= n) /\ b <= n
    <3>1. j[b] \in ToSet(s) /\ j[a] \in ToSet(t)
      BY <1>1, <1>2, <2>4 DEF ToSet
    <3> QED
      BY <1>5, <3>1
  <2> QED
    BY <2>1, <2>2, <2>3, <2>4
<1> QED
  BY <1>1, <1>4, <1>5 DEF j, n, k

\* The queue with its first row moved to the end.
LEMMA QueueTurned ==
  ASSUME NEW s \in Seq(Nat), s # <<>>
  PROVE  LET t == Tail(s) \o <<Head(s)>>
         IN /\ t \in Seq(Nat) /\ t # <<>> /\ Len(t) = Len(s) /\ ToSet(t) = ToSet(s)
            /\ IsInjective(s) => IsInjective(t)
<1> DEFINE o == <<Head(s)>>
<1>1. o \in Seq(Nat) /\ Len(o) = 1 /\ ToSet(o) = {Head(s)} /\ IsInjective(o)
  <2>1. Head(s) \in Nat
    BY QueueTail
  <2>2. o \in Seq(Nat) /\ Len(o) = 1 /\ DOMAIN o = {1} /\ o[1] = Head(s)
    BY <2>1
  <2> QED
    BY <2>2 DEF ToSet, IsInjective
<1> HIDE DEF o
<1>2. /\ Head(s) \in ToSet(s) /\ Len(s) >= 1 /\ Len(s) \in Nat
      /\ Tail(s) \in Seq(Nat) /\ Len(Tail(s)) = Len(s) - 1 /\ ToSet(Tail(s)) \subseteq ToSet(s)
      /\ ToSet(s) \subseteq ToSet(Tail(s)) \union {Head(s)}
      /\ IsInjective(s) => IsInjective(Tail(s)) /\ Head(s) \notin ToSet(Tail(s))
  BY QueueTail
<1>3. /\ Tail(s) \o o \in Seq(Nat) /\ Len(Tail(s) \o o) = Len(Tail(s)) + Len(o)
      /\ ToSet(Tail(s) \o o) = ToSet(Tail(s)) \union ToSet(o)
      /\ IsInjective(Tail(s)) /\ IsInjective(o) /\ ToSet(Tail(s)) \cap ToSet(o) = {}
           => IsInjective(Tail(s) \o o)
  BY <1>1, <1>2, QueueJoin
<1>4. Len(Tail(s) \o o) = Len(s)
  BY <1>1, <1>2, <1>3
<1>5. Tail(s) \o o # <<>>
  BY <1>2, <1>4
<1> QED
  BY <1>1, <1>2, <1>3, <1>4, <1>5 DEF o

\* What a batch could not read joins the queue.
LEMMA QueueMissed ==
  ASSUME NEW n \in Nat, NEW S, S \subseteq 1..n, NEW off \in Nat
  PROVE  LET q == [j \in 1..Cardinality(S) |-> off + Nth(S, j) - 1]
         IN /\ q \in Seq(Nat) /\ Len(q) = Cardinality(S) /\ Cardinality(S) \in Nat
            /\ ToSet(q) = {off + i - 1 : i \in S}
            /\ IsInjective(q)
<1> DEFINE q == [j \in 1..Cardinality(S) |-> off + Nth(S, j) - 1]
<1>1. /\ Cardinality(S) \in Nat
      /\ \A j \in 1..Cardinality(S) : Nth(S, j) \in S
      /\ \A i, j \in 1..Cardinality(S) : Nth(S, i) = Nth(S, j) => i = j
      /\ \A i \in S : \E j \in 1..Cardinality(S) : Nth(S, j) = i
  BY NthPlaces
<1>2. \A i \in S : i \in 1..n
  OBVIOUS
<1>3. \A j \in 1..Cardinality(S) : Nth(S, j) \in 1..n
  BY <1>1, <1>2
<1>4. \A j \in 1..Cardinality(S) : off + Nth(S, j) - 1 \in Nat
  BY <1>3
<1>5. q \in Seq(Nat) /\ Len(q) = Cardinality(S) /\ DOMAIN q = 1..Cardinality(S)
  BY <1>1, <1>4
<1>6. ToSet(q) = {off + i - 1 : i \in S}
  <2>1. ToSet(q) = {off + Nth(S, j) - 1 : j \in 1..Cardinality(S)}
    BY <1>5 DEF ToSet
  <2>2. \A j \in 1..Cardinality(S) : off + Nth(S, j) - 1 \in {off + i - 1 : i \in S}
    <3> TAKE j \in 1..Cardinality(S)
    <3>1. Nth(S, j) \in S
      BY <1>1
    <3> HIDE DEF q
    <3> QED
      BY <3>1
  <2>3. ASSUME NEW i \in S PROVE off + i - 1 \in {off + Nth(S, j) - 1 : j \in 1..Cardinality(S)}
    BY <1>1
  <2> QED
    BY <2>1, <2>2, <2>3
<1>7. IsInjective(q)
  <2> SUFFICES ASSUME NEW i \in 1..Cardinality(S), NEW j \in 1..Cardinality(S),
                      off + Nth(S, i) - 1 = off + Nth(S, j) - 1
               PROVE  i = j
    BY <1>5 DEF IsInjective
  <2>1. Nth(S, i) = Nth(S, j)
    BY <1>3
  <2> QED
    BY <1>1, <2>1
<1> QED
  BY <1>1, <1>5, <1>6, <1>7

-----------------------------------------------------------------------------
(* Counting a run.                                                             *)

\* The rows of a run that ended one way are some of its rows.
LEMMA Places ==
  ASSUME NEW items \in Seq(Fate), NEW kind
  PROVE  /\ EndedAs(items, kind) \subseteq 1..Len(items) /\ Len(items) \in Nat
         /\ DOMAIN items = 1..Len(items)
         /\ Cardinality(EndedAs(items, kind)) \in Nat
         /\ Cardinality(EndedAs(items, kind)) = 0 => EndedAs(items, kind) = {}
<1>1. EndedAs(items, kind) \subseteq 1..Len(items) /\ Len(items) \in Nat /\ DOMAIN items = 1..Len(items)
  BY DEF EndedAs
<1>2. IsFiniteSet(EndedAs(items, kind))
  <2>1. IsFiniteSet(1..Len(items))
    BY <1>1, FS_Interval
  <2> QED
    BY <1>1, <2>1, FS_Subset
<1> QED
  BY <1>1, <1>2, FS_CardinalityType, FS_EmptySet

\* What counting a run does to the plan.
LEMMA CountChanges ==
  ASSUME NEW plan \in Plan, NEW r \in Nat, rows[r] \in Row, plan.retrying => plan.retry # <<>>
  PROVE  LET next    == CountRunItems(plan, r)
             items   == rows[r].items
             failing == EndedAs(items, "unread")
         IN /\ next \in Plan
            /\ next.total = plan.total /\ next.maxCalls = plan.maxCalls /\ next.last = r
            /\ next.calls = plan.calls + rows[r].calls
            /\ next.other = plan.other + Cardinality(EndedAs(items, "other"))
            /\ next.offset = IF plan.retrying THEN plan.offset ELSE plan.offset + Len(items)
            /\ next.retrying => next.retry # <<>>
            /\ plan.retrying /\ failing = {} =>
                 next.retry = Tail(plan.retry) /\ next.unread = plan.unread - 1
            /\ plan.retrying /\ failing # {} =>
                 next.retry = Tail(plan.retry) \o <<Head(plan.retry)>> /\ next.unread = plan.unread
            /\ ~plan.retrying =>
                 /\ next.unread = plan.unread + Cardinality(failing)
                 /\ next.retry = plan.retry \o
                      [j \in 1..Cardinality(failing) |-> plan.offset + Nth(failing, j) - 1]
<1> DEFINE items   == rows[r].items
           failing == EndedAs(items, "unread")
           missed  == [j \in 1..Cardinality(failing) |-> plan.offset + Nth(failing, j) - 1]
           retry   == IF ~plan.retrying THEN plan.retry \o missed
                      ELSE Tail(plan.retry) \o IF failing = {} THEN <<>> ELSE <<Head(plan.retry)>>
           next    == CountRunItems(plan, r)
<1>1. items \in Seq(Fate) /\ rows[r].calls \in Nat /\ plan.retry \in Seq(Nat) /\ plan.offset \in Nat
  BY DEF Row, Plan
<1>2. /\ failing \subseteq 1..Len(items) /\ Len(items) \in Nat /\ Cardinality(failing) \in Nat
      /\ Cardinality(EndedAs(items, "other")) \in Nat
  BY <1>1, Places
<1>3. missed \in Seq(Nat) /\ plan.retry \o missed \in Seq(Nat)
  <2>1. missed \in Seq(Nat)
    BY <1>1, <1>2, QueueMissed
  <2> QED
    BY <1>1, <2>1, QueueJoin
<1>4. plan.retrying => retry = IF failing = {} THEN Tail(plan.retry)
                                ELSE Tail(plan.retry) \o <<Head(plan.retry)>>
  <2>1. plan.retrying => Tail(plan.retry) \in Seq(Nat)
    BY <1>1, QueueTail
  <2>2. plan.retrying => Tail(plan.retry) \o <<>> = Tail(plan.retry)
    BY <2>1
  <2> QED
    BY <2>2
<1>5. retry \in Seq(Nat)
  <2>1. plan.retrying => /\ Tail(plan.retry) \in Seq(Nat)
                         /\ Tail(plan.retry) \o <<Head(plan.retry)>> \in Seq(Nat)
    BY <1>1, QueueTail, QueueTurned
  <2> QED
    BY <1>3, <1>4, <2>1
<1> HIDE DEF missed
<1>6. next = [plan EXCEPT
        !.offset   = IF plan.retrying THEN @ ELSE @ + Len(items),
        !.calls    = @ + rows[r].calls,
        !.unread   = IF ~plan.retrying THEN @ + Cardinality(failing)
                     ELSE IF failing = {} THEN @ - 1 ELSE @,
        !.other    = @ + Cardinality(EndedAs(items, "other")),
        !.retry    = retry,
        !.retrying = @ /\ retry # <<>>,
        !.last     = r]
  BY DEF CountRunItems, missed
<1> HIDE DEF next, retry, failing, items
<1>7. plan = [total |-> plan.total, offset |-> plan.offset, calls |-> plan.calls,
              maxCalls |-> plan.maxCalls, unread |-> plan.unread, other |-> plan.other,
              retry |-> plan.retry, retrying |-> plan.retrying, last |-> plan.last]
  BY DEF Plan
<1>8. next = [total |-> plan.total,
              offset |-> IF plan.retrying THEN plan.offset ELSE plan.offset + Len(items),
              calls |-> plan.calls + rows[r].calls,
              maxCalls |-> plan.maxCalls,
              unread |-> IF ~plan.retrying THEN plan.unread + Cardinality(failing)
                         ELSE IF failing = {} THEN plan.unread - 1 ELSE plan.unread,
              other |-> plan.other + Cardinality(EndedAs(items, "other")),
              retry |-> retry, retrying |-> plan.retrying /\ retry # <<>>, last |-> r]
  BY <1>6, <1>7
<1>9. next \in Plan
  <2>1. /\ plan.total \in {Size} /\ plan.offset \in Nat /\ plan.calls \in Nat /\ plan.maxCalls \in Nat
        /\ plan.unread \in Int /\ plan.other \in Nat /\ plan.retrying \in BOOLEAN
    BY DEF Plan
  <2>2. (IF plan.retrying THEN plan.offset ELSE plan.offset + Len(items)) \in Nat
    BY <1>2, <2>1
  <2>3. plan.calls + rows[r].calls \in Nat
    BY <1>1, <2>1
  <2>4. (IF ~plan.retrying THEN plan.unread + Cardinality(failing)
         ELSE IF failing = {} THEN plan.unread - 1 ELSE plan.unread) \in Int
    BY <1>2, <2>1
  <2>5. plan.other + Cardinality(EndedAs(items, "other")) \in Nat
    BY <1>2, <2>1
  <2>6. (plan.retrying /\ retry # <<>>) \in BOOLEAN /\ r \in Nat \union {Nil}
    OBVIOUS
  <2> QED
    BY <1>5, <1>8, <2>1, <2>2, <2>3, <2>4, <2>5, <2>6 DEF Plan
<1> QED
  <2>1. /\ next.total = plan.total /\ next.maxCalls = plan.maxCalls /\ next.last = r
        /\ next.calls = plan.calls + rows[r].calls
        /\ next.other = plan.other + Cardinality(EndedAs(items, "other"))
        /\ next.offset = IF plan.retrying THEN plan.offset ELSE plan.offset + Len(items)
        /\ next.retrying = (plan.retrying /\ retry # <<>>) /\ next.retry = retry
        /\ next.unread = IF ~plan.retrying THEN plan.unread + Cardinality(failing)
                         ELSE IF failing = {} THEN plan.unread - 1 ELSE plan.unread
    BY <1>8
  <2>2. next.retrying => next.retry # <<>>
    BY <2>1
  <2>3. ~plan.retrying => retry = plan.retry \o missed
    BY DEF retry
  <2> QED
    BY <1>4, <1>9, <2>1, <2>2, <2>3 DEF missed, failing, items, next

(* The page is shown a settled run that its plan has not counted. *)
Counts(p, wr, kp, hs, next) ==
  /\ RunsFit(rows, wr, p, kp, issued, history)
  /\ p.plan # Nil /\ p.phase = "run" /\ p.run # Nil /\ p.run.status \in Settleable
  /\ p.plan.last # p.run.id
  /\ next = CountRunItems(p.plan, p.run.id)
  /\ hs = [history EXCEPT !.counted = Append(@, p.run.id)]

\* A row more at the end of a sequence.
LEMMA AppendSet ==
  ASSUME NEW S, NEW s \in Seq(S), NEW x
  PROVE  /\ ToSet(Append(s, x)) = ToSet(s) \union {x}
         /\ IsInjective(s) /\ x \notin ToSet(s) => IsInjective(Append(s, x))
<1> DEFINE t == Append(s, x)
           n == Len(s)
<1>1. /\ n \in Nat /\ DOMAIN s = 1..n /\ DOMAIN t = 1..(n + 1)
      /\ t[n + 1] = x /\ \A i \in 1..n : t[i] = s[i]
  OBVIOUS
<1> HIDE DEF t, n
<1>2. 1..(n + 1) = 1..n \union {n + 1} /\ n + 1 \notin 1..n
  BY <1>1
<1>3. ToSet(t) = ToSet(s) \union {x}
  <2>1. \A i \in DOMAIN t : t[i] \in ToSet(s) \union {x}
    BY <1>1, <1>2 DEF ToSet
  <2>2. \A i \in DOMAIN s : s[i] \in ToSet(t)
    <3> TAKE i \in DOMAIN s
    <3>1. i \in DOMAIN t /\ t[i] = s[i]
      BY <1>1, <1>2
    <3> QED
      BY <3>1 DEF ToSet
  <2>3. x \in ToSet(t)
    <3>1. n + 1 \in DOMAIN t
      BY <1>1, <1>2
    <3> QED
      BY <1>1, <3>1 DEF ToSet
  <2> QED
    BY <2>1, <2>2, <2>3 DEF ToSet
<1>4. ASSUME IsInjective(s), x \notin ToSet(s) PROVE IsInjective(t)
  <2>1. \A i \in 1..n : s[i] # x
    BY <1>1, <1>4 DEF ToSet
  <2>2. \A i, j \in 1..n : s[i] = s[j] => i = j
    BY <1>1, <1>4 DEF IsInjective
  <2> QED
    BY <1>1, <1>2, <2>1, <2>2 DEF IsInjective
<1> QED
  BY <1>3, <1>4 DEF t

\* What the invariant says of the run that is counted.
LEMMA CountBasics ==
  ASSUME NEW p, NEW wr, NEW kp, NEW hs, NEW next, Counts(p, wr, kp, hs, next)
  PROVE  LET k == p.run.id
         IN /\ p.plan \in Plan /\ k \in Run /\ k \in Nat /\ p.runId = k /\ p.pending = Nil
            /\ rows[k] \in Row /\ rows[k] # Nil /\ rows[k].status \in Settleable
            /\ RowFits(rows[k], issued[k]) /\ k <= Len(issued)
            /\ issued \in Seq(Request) /\ issued[k] \in Request
            /\ history.counted \in Seq(Run) /\ history.before \in Nat
            /\ ToSet(hs.counted) = ToSet(history.counted) \union {k}
            /\ hs.before = history.before /\ hs.inSight = history.inSight
            /\ hs \in History
            /\ hs.counted = Append(history.counted, k)
            /\ PlanFits(rows, p, issued, history) /\ WorkFits(rows, p, issued, history)
            /\ history.inSight => FiguresFit(rows, p, issued, history)
            /\ \/ IsNext(k, p, issued, history)
               \/ ~history.inSight /\ k <= history.before /\ history.counted = <<>>
<1> DEFINE k == p.run.id
<1>1. /\ ClientTyped(rows, wr, p, kp, issued, history) /\ RowsFit(rows, issued)
      /\ PageFits(rows, p, issued) /\ CampaignFits(rows, p, issued, history)
      /\ p.plan # Nil /\ p.phase = "run" /\ p.run # Nil /\ p.run.status \in Settleable
      /\ p.plan.last # k /\ hs = [history EXCEPT !.counted = Append(@, k)]
  BY DEF Counts, RunsFit
<1>2. /\ p.plan \in Plan /\ p.run \in Snapshot /\ p.runId \in Run \union {Nil} /\ p.pending \in Run \union {Nil}
      /\ rows \in [Run -> Row \union {Nil}] /\ issued \in Seq(Request)
      /\ history \in History
  BY <1>1 DEF ClientTyped, Controller
<1>3. k \in Nat /\ Nil \notin Nat
  BY <1>2, TriageRunClientAssumption DEF Snapshot
<1>4. k = p.runId /\ rows[k] # Nil /\ (p.run.status \notin ActiveRun => rows[k].status = p.run.status)
  BY <1>1 DEF PageFits, SnapshotTrue
<1>5. k \in Run
  BY <1>2, <1>3, <1>4
<1>6. rows[k] \in Row /\ rows[k].status \in Settleable
  <2>1. p.run.status \notin ActiveRun
    BY <1>1 DEF Settleable, ActiveRun
  <2> QED
    BY <1>1, <1>2, <1>4, <1>5, <2>1
<1>7. p.pending = Nil
  BY <1>1 DEF PageFits
<1>8. RowFits(rows[k], issued[k]) /\ k <= Len(issued) /\ issued[k] \in Request
  <2>1. RowFits(rows[k], issued[k]) /\ k <= Len(issued)
    BY <1>1, <1>4, <1>5 DEF RowsFit
  <2>2. k \in 1..Len(issued)
    BY <1>2, <1>5, <2>1 DEF Run
  <2> QED
    BY <1>2, <2>1, <2>2
<1>9. /\ hs.counted = Append(history.counted, k) /\ hs.before = history.before
      /\ hs.inSight = history.inSight
      /\ hs \in History
  <2>1. Append(history.counted, k) \in Seq(Run)
    BY <1>2, <1>5 DEF History
  <2> QED
    BY <1>1, <1>2, <2>1 DEF History
<1>10. ToSet(hs.counted) = ToSet(history.counted) \union {k}
  BY <1>2, <1>9, AppendSet DEF History
<1>11. PlanFits(rows, p, issued, history) /\ WorkFits(rows, p, issued, history)
       /\ (history.inSight => FiguresFit(rows, p, issued, history))
  BY <1>1 DEF CampaignFits
<1>12. \/ p.runId \in {Nil, p.plan.last}
       \/ p.pending = Nil /\ IsNext(p.runId, p, issued, history)
       \/ ~history.inSight /\ p.runId <= history.before /\ history.counted = <<>>
  BY <1>11 DEF PlanFits
<1>13. \/ IsNext(k, p, issued, history)
       \/ ~history.inSight /\ k <= history.before /\ history.counted = <<>>
  BY <1>1, <1>3, <1>4, <1>12
<1>14. history.counted \in Seq(Run) /\ history.before \in Nat
  BY <1>2 DEF History
<1> QED
  BY <1>2, <1>3, <1>4, <1>5, <1>6, <1>7, <1>8, <1>9, <1>10, <1>11, <1>13, <1>14

\* What a batch asks for.
LEMMA BatchType ==
  ASSUME NEW plan \in Plan, plan.retrying => plan.retry # <<>>
  PROVE  LET b == BatchRequest(plan)
         IN /\ b \in Request /\ b.retrying = plan.retrying
            /\ plan.retrying => /\ b.offset = Head(plan.retry) /\ b.messages = 1
                                /\ Head(plan.retry) \in ToSet(plan.retry)
            /\ ~plan.retrying => /\ b.offset = plan.offset
                                 /\ b.messages <= plan.total - plan.offset
            /\ b.limit <= plan.maxCalls - plan.calls
<1>1. /\ plan.total \in Nat /\ plan.offset \in Nat /\ plan.calls \in Nat /\ plan.maxCalls \in Nat
      /\ plan.retry \in Seq(Nat) /\ plan.retrying \in BOOLEAN /\ BatchSize \in Nat
  BY TriageRunClientAssumption DEF Plan
<1>2. plan.retrying => Head(plan.retry) \in Nat /\ Head(plan.retry) \in ToSet(plan.retry)
  BY <1>1, QueueTail
<1>3. \A a, b \in Int : Lesser(a, b) \in Int /\ Lesser(a, b) <= b
  BY DEF Lesser
<1>4. /\ plan.total - plan.offset \in Int /\ plan.maxCalls - plan.calls \in Int /\ BatchSize \in Int
  BY <1>1
<1>5. /\ Lesser(BatchSize, plan.total - plan.offset) \in Int
      /\ Lesser(BatchSize, plan.total - plan.offset) <= plan.total - plan.offset
      /\ Lesser(BatchSize, plan.maxCalls - plan.calls) \in Int
      /\ Lesser(BatchSize, plan.maxCalls - plan.calls) <= plan.maxCalls - plan.calls
  BY <1>3, <1>4
<1> QED
  BY <1>1, <1>2, <1>5 DEF BatchRequest, Request

\* The plan after a run is counted fits every row again.
LEMMA CountPlan ==
  ASSUME NEW p, NEW wr, NEW kp, NEW hs, NEW next, NEW q, Counts(p, wr, kp, hs, next),
         q.plan = next, q.runId = p.runId, q.pending = p.pending
  PROVE  PlanFits(rows, q, issued, hs)
<1> DEFINE k == p.run.id
<1>1. /\ p.plan \in Plan /\ k \in Run /\ k \in Nat /\ p.runId = k /\ p.pending = Nil
      /\ rows[k] \in Row /\ rows[k] # Nil /\ rows[k].status \in Settleable
      /\ k <= Len(issued) /\ history.before \in Nat
      /\ ToSet(hs.counted) = ToSet(history.counted) \union {k}
      /\ hs.before = history.before /\ hs.inSight = history.inSight
      /\ \/ IsNext(k, p, issued, history)
         \/ ~history.inSight /\ k <= history.before /\ history.counted = <<>>
  BY CountBasics
<1>0. PlanFits(rows, p, issued, history)
  BY CountBasics
<1>2. history.before <= Len(issued) /\ (p.plan.retrying => p.plan.retry # <<>>)
  BY <1>0 DEF PlanFits
<1>7. \A r \in Run : Made(r, rows, issued, history)
        => r \in ToSet(history.counted) \union {p.pending, p.runId}
  BY <1>0 DEF PlanFits
<1>8. \A r \in ToSet(history.counted) : /\ rows[r] # Nil /\ rows[r].status \in Settleable
                                        /\ history.inSight => r > history.before
  BY <1>0 DEF PlanFits
<1>3. next.last = k /\ (next.retrying => next.retry # <<>>)
  <2>1. next = CountRunItems(p.plan, k)
    BY DEF Counts
  <2>2. /\ CountRunItems(p.plan, k).last = k
        /\ CountRunItems(p.plan, k).retrying => CountRunItems(p.plan, k).retry # <<>>
    BY <1>1, <1>2, CountChanges
  <2> QED
    BY <2>1, <2>2
<1>4. history.inSight => k > history.before
  BY <1>1 DEF IsNext
<1>5. \A r \in Run : Made(r, rows, issued, hs) => r \in ToSet(hs.counted) \union {q.pending, q.runId}
  BY <1>1, <1>7 DEF Made
<1>6. \A r \in ToSet(hs.counted) : /\ rows[r] # Nil /\ rows[r].status \in Settleable
                                   /\ hs.inSight => r > hs.before
  BY <1>1, <1>4, <1>8
<1> QED
  BY <1>1, <1>2, <1>3, <1>5, <1>6 DEF PlanFits

\* The queue after a run is counted.
LEMMA CountQueue ==
  ASSUME NEW p, NEW wr, NEW kp, NEW hs, NEW next, Counts(p, wr, kp, hs, next)
  PROVE  LET plan    == p.plan
             items   == rows[p.run.id].items
             failing == EndedAs(items, "unread")
         IN /\ IsInjective(plan.retry) /\ IsInjective(next.retry) /\ next \in Plan
            /\ plan.retry \in Seq(Nat) /\ next.retry \in Seq(Nat)
            /\ \A m \in ToSet(plan.retry) : m \in Nat /\ m < plan.offset
            /\ plan.retrying =>
                 /\ plan.retry # <<>> /\ next.offset = plan.offset
                 /\ ToSet(next.retry) \subseteq ToSet(plan.retry)
                 /\ ToSet(plan.retry) \subseteq ToSet(next.retry) \union {Head(plan.retry)}
            /\ plan.retrying /\ failing = {} =>
                 /\ Head(plan.retry) \notin ToSet(next.retry)
                 /\ Len(next.retry) = Len(plan.retry) - 1
            /\ plan.retrying /\ failing # {} =>
                 ToSet(plan.retry) \subseteq ToSet(next.retry) /\ Len(next.retry) = Len(plan.retry)
            /\ ~plan.retrying =>
                 /\ next.offset = plan.offset + Len(items)
                 /\ ToSet(next.retry) = ToSet(plan.retry) \union {plan.offset + i - 1 : i \in failing}
                 /\ Len(next.retry) = Len(plan.retry) + Cardinality(failing)
            /\ ~plan.retrying =>
                 /\ \A m \in ToSet(plan.retry) : m \in ToSet(next.retry)
                 /\ \A i \in failing : plan.offset + i - 1 \in ToSet(next.retry)
<1> DEFINE k       == p.run.id
           plan    == p.plan
           items   == rows[k].items
           failing == EndedAs(items, "unread")
           missed  == [j \in 1..Cardinality(failing) |-> plan.offset + Nth(failing, j) - 1]
<1>1. /\ plan \in Plan /\ k \in Nat /\ rows[k] \in Row
      /\ PlanFits(rows, p, issued, history) /\ WorkFits(rows, p, issued, history)
  BY CountBasics
<1>2. plan.retrying => plan.retry # <<>>
  BY <1>1 DEF PlanFits
<1>3. IsInjective(plan.retry) /\ \A m \in ToSet(plan.retry) : m < plan.offset
  BY <1>1 DEF WorkFits
<1>4. plan.retry \in Seq(Nat) /\ plan.offset \in Nat /\ items \in Seq(Fate) /\ plan.retrying \in BOOLEAN
  BY <1>1 DEF Plan, Row
<1>5. /\ failing \subseteq 1..Len(items) /\ Len(items) \in Nat
  BY <1>4, Places
<1>6. next = CountRunItems(plan, k)
  BY DEF Counts
<1>7. next \in Plan
  BY <1>1, <1>2, <1>6, CountChanges
<1>8. next.offset = IF plan.retrying THEN plan.offset ELSE plan.offset + Len(items)
  BY <1>1, <1>2, <1>6, CountChanges
<1>9. plan.retrying /\ failing = {} => next.retry = Tail(plan.retry)
  BY <1>1, <1>2, <1>6, CountChanges
<1>10. plan.retrying /\ failing # {} => next.retry = Tail(plan.retry) \o <<Head(plan.retry)>>
  BY <1>1, <1>2, <1>6, CountChanges
<1>11. ~plan.retrying => next.retry = plan.retry \o missed
  BY <1>1, <1>2, <1>6, CountChanges
<1>12. next.retry \in Seq(Nat)
  BY <1>7 DEF Plan
<1>13. \A m \in ToSet(plan.retry) : m \in Nat
  BY <1>4 DEF ToSet
<1>14. ASSUME plan.retrying
       PROVE  /\ Head(plan.retry) \in ToSet(plan.retry)
              /\ Tail(plan.retry) \in Seq(Nat) /\ Len(Tail(plan.retry)) = Len(plan.retry) - 1
              /\ ToSet(Tail(plan.retry)) \subseteq ToSet(plan.retry)
              /\ ToSet(plan.retry) \subseteq ToSet(Tail(plan.retry)) \union {Head(plan.retry)}
              /\ IsInjective(Tail(plan.retry)) /\ Head(plan.retry) \notin ToSet(Tail(plan.retry))
  BY <1>2, <1>3, <1>4, <1>14, QueueTail
<1>15. ASSUME plan.retrying
       PROVE  LET t == Tail(plan.retry) \o <<Head(plan.retry)>>
              IN Len(t) = Len(plan.retry) /\ ToSet(t) = ToSet(plan.retry) /\ IsInjective(t)
  BY <1>2, <1>3, <1>4, <1>15, QueueTurned
<1>16. /\ missed \in Seq(Nat) /\ Len(missed) = Cardinality(failing)
       /\ ToSet(missed) = {plan.offset + i - 1 : i \in failing} /\ IsInjective(missed)
  BY <1>4, <1>5, QueueMissed
<1>17. \A m \in ToSet(missed) : m \in Nat /\ m >= plan.offset
  <2>1. \A i \in failing : plan.offset + i - 1 \in Nat /\ plan.offset + i - 1 >= plan.offset
    <3> TAKE i \in failing
    <3>1. i \in Nat /\ i >= 1
      BY <1>5
    <3> QED
      BY <1>4, <3>1
  <2> QED
    BY <1>16, <2>1
<1> HIDE DEF missed, failing, items
<1>18. /\ Len(plan.retry \o missed) = Len(plan.retry) + Len(missed)
       /\ ToSet(plan.retry \o missed) = ToSet(plan.retry) \union ToSet(missed)
       /\ IsInjective(plan.retry \o missed)
  <2>1. ToSet(plan.retry) \cap ToSet(missed) = {}
    BY <1>3, <1>4, <1>13, <1>17
  <2> QED
    BY <1>3, <1>4, <1>16, <2>1, QueueJoin
<1>19. IsInjective(next.retry)
  <2>1. CASE plan.retrying /\ failing = {}
    BY <1>9, <1>14, <2>1
  <2>2. CASE plan.retrying /\ failing # {}
    BY <1>10, <1>15, <2>2
  <2>3. CASE ~plan.retrying
    BY <1>11, <1>18, <2>3
  <2> QED
    BY <1>4, <2>1, <2>2, <2>3
<1>20. plan.retrying =>
         /\ plan.retry # <<>> /\ next.offset = plan.offset
         /\ ToSet(next.retry) \subseteq ToSet(plan.retry)
         /\ ToSet(plan.retry) \subseteq ToSet(next.retry) \union {Head(plan.retry)}
  BY <1>2, <1>8, <1>9, <1>10, <1>14, <1>15
<1>21. plan.retrying /\ failing = {} =>
         Head(plan.retry) \notin ToSet(next.retry) /\ Len(next.retry) = Len(plan.retry) - 1
  BY <1>9, <1>14
<1>22. plan.retrying /\ failing # {} =>
         ToSet(plan.retry) \subseteq ToSet(next.retry) /\ Len(next.retry) = Len(plan.retry)
  BY <1>10, <1>15
<1>23. ~plan.retrying =>
         /\ next.offset = plan.offset + Len(items)
         /\ ToSet(next.retry) = ToSet(plan.retry) \union {plan.offset + i - 1 : i \in failing}
         /\ Len(next.retry) = Len(plan.retry) + Cardinality(failing)
  BY <1>8, <1>11, <1>16, <1>18
<1>24. ~plan.retrying =>
         /\ \A m \in ToSet(plan.retry) : m \in ToSet(next.retry)
         /\ \A i \in failing : plan.offset + i - 1 \in ToSet(next.retry)
  BY <1>23
<1> QED
  BY <1>3, <1>4, <1>7, <1>12, <1>13, <1>19, <1>24, <1>20, <1>21, <1>22, <1>23 DEF failing, items

\* A run of this campaign that is not counted did what the plan asked for.
LEMMA OwnBatch ==
  ASSUME NEW p, NEW wr, NEW kp, NEW hs, NEW next, Counts(p, wr, kp, hs, next),
         IsNext(p.run.id, p, issued, history)
  PROVE  LET k == p.run.id
             plan == p.plan
             items == rows[k].items
         IN /\ k > history.before /\ k = Len(issued) /\ k \notin ToSet(history.counted)
            /\ issued[k].retrying = plan.retrying /\ items \in Seq(Fate)
            /\ issued[k].limit <= plan.maxCalls - plan.calls
            /\ plan.retrying => /\ issued[k].offset = Head(plan.retry) /\ DOMAIN items = {1}
                                /\ Head(plan.retry) \in ToSet(plan.retry)
                                /\ Selects(k, issued) = {Head(plan.retry)}
            /\ ~plan.retrying => /\ issued[k].offset = plan.offset
                                 /\ Len(items) = 0 \/ Len(items) <= plan.total - plan.offset
                                 /\ \A m \in Selects(k, issued) :
                                      m >= plan.offset /\ m < plan.offset + Len(items)
<1> DEFINE k == p.run.id
           plan == p.plan
           items == rows[k].items
           b == BatchRequest(plan)
<1>1. /\ plan \in Plan /\ rows[k] \in Row /\ rows[k].status \in Settleable
      /\ RowFits(rows[k], issued[k]) /\ PlanFits(rows, p, issued, history)
  BY CountBasics
<1>2. k > history.before /\ k = Len(issued) /\ k \notin ToSet(history.counted) /\ issued[k] = b
  BY DEF IsNext
<1>3. plan.retrying => plan.retry # <<>>
  BY <1>1 DEF PlanFits
<1>4. /\ b \in Request /\ b.retrying = plan.retrying
      /\ plan.retrying => /\ b.offset = Head(plan.retry) /\ b.messages = 1
                          /\ Head(plan.retry) \in ToSet(plan.retry)
      /\ ~plan.retrying => b.offset = plan.offset /\ b.messages <= plan.total - plan.offset
      /\ b.limit <= plan.maxCalls - plan.calls
  BY <1>1, <1>3, BatchType
<1>5. items \in Seq(Fate) /\ DOMAIN items = 1..b.messages
  BY <1>1, <1>2 DEF Row, RowFits
<1>6. b.messages \in Int /\ b.offset \in Nat /\ Len(items) \in Nat /\ DOMAIN items = 1..Len(items)
      /\ plan.offset \in Nat /\ plan.total \in Nat
  <2> HIDE DEF b
  <2>1. b.messages \in Int /\ b.offset \in Nat
    BY <1>4 DEF Request
  <2>2. Len(items) \in Nat /\ DOMAIN items = 1..Len(items)
    BY <1>5
  <2>3. plan.offset \in Nat /\ plan.total \in Nat
    BY <1>1, TriageRunClientAssumption DEF Plan
  <2> QED
    BY <2>1, <2>2, <2>3
<1>7. Selects(k, issued) = b.offset .. b.offset + b.messages - 1
  BY <1>2 DEF Selects
<1> HIDE DEF b, items
<1>8. IF b.messages > 0 THEN Len(items) = b.messages ELSE Len(items) = 0
  <2>1. 1..Len(items) = 1..b.messages
    BY <1>5, <1>6
  <2>2. Len(items) > 0 => Len(items) \in 1..b.messages
    BY <1>6, <2>1
  <2>3. b.messages > 0 => b.messages \in 1..Len(items)
    BY <1>6, <2>1
  <2> QED
    BY <1>6, <2>2, <2>3
<1>9. plan.retrying => DOMAIN items = {1} /\ Selects(k, issued) = {Head(plan.retry)}
  BY <1>4, <1>5, <1>6, <1>7
<1>10. ~plan.retrying => /\ Len(items) = 0 \/ Len(items) <= plan.total - plan.offset
                         /\ \A m \in Selects(k, issued) :
                              m >= plan.offset /\ m < plan.offset + Len(items)
  BY <1>4, <1>6, <1>7, <1>8
<1> QED
  BY <1>2, <1>4, <1>5, <1>9, <1>10 DEF items

\* What was counted lies behind the plan, or waits in it.
LEMMA CountWork ==
  ASSUME NEW p, NEW wr, NEW kp, NEW hs, NEW next, NEW q, Counts(p, wr, kp, hs, next),
         q.plan = next
  PROVE  WorkFits(rows, q, issued, hs)
<1> DEFINE k       == p.run.id
           plan    == p.plan
           items   == rows[k].items
           failing == EndedAs(items, "unread")
           done    == {r \in ToSet(history.counted) : r > history.before}
           doneNow == {r \in ToSet(hs.counted) : r > hs.before}
<1>1. /\ plan \in Plan /\ rows[k] \in Row /\ k \in Nat
      /\ ToSet(hs.counted) = ToSet(history.counted) \union {k} /\ hs.before = history.before
      /\ PlanFits(rows, p, issued, history) /\ WorkFits(rows, p, issued, history)
      /\ issued \in Seq(Request) /\ history.counted \in Seq(Run) /\ k \in Run
  BY CountBasics
<1>2. \/ IsNext(k, p, issued, history)
      \/ ~history.inSight /\ k <= history.before /\ history.counted = <<>>
  BY CountBasics
<1>3. /\ IsInjective(next.retry) /\ next \in Plan
      /\ \A m \in ToSet(plan.retry) : m \in Nat /\ m < plan.offset
  BY CountQueue
<1>4. plan.retrying => /\ next.offset = plan.offset
                       /\ ToSet(next.retry) \subseteq ToSet(plan.retry)
  BY CountQueue
<1>5. plan.retrying /\ failing = {} => Head(plan.retry) \notin ToSet(next.retry)
  BY CountQueue
<1>6. ~plan.retrying =>
        /\ next.offset = plan.offset + Len(items)
        /\ ToSet(next.retry) = ToSet(plan.retry) \union {plan.offset + i - 1 : i \in failing}
  BY CountQueue
<1>7. /\ plan.offset \in Nat /\ next.offset \in Nat /\ plan.retrying \in BOOLEAN /\ items \in Seq(Fate)
      /\ history.before \in Nat
  BY <1>1, <1>3, CountBasics DEF Plan, Row
<1>8. failing \subseteq 1..Len(items) /\ Len(items) \in Nat
  BY <1>7, Places
<1>9. next.offset >= plan.offset
  BY <1>4, <1>6, <1>7, <1>8
<1>10. \A m \in ToSet(next.retry) : m \in ToSet(plan.retry) \/ (~plan.retrying /\ m >= plan.offset)
  <2> TAKE m \in ToSet(next.retry)
  <2>1. CASE plan.retrying
    BY <1>4, <2>1
  <2>2. CASE ~plan.retrying /\ m \notin ToSet(plan.retry)
    <3>1. m \in {plan.offset + i - 1 : i \in failing}
      BY <1>6, <2>2
    <3>2. PICK i \in failing : m = plan.offset + i - 1
      BY <3>1
    <3>3. i \in Nat /\ i >= 1
      BY <1>8
    <3> QED
      BY <1>7, <2>2, <3>2, <3>3
  <2> QED
    BY <1>7, <2>1, <2>2
<1>11. \A m \in ToSet(next.retry) : m < next.offset
  <2> TAKE m \in ToSet(next.retry)
  <2>1. CASE m \in ToSet(plan.retry)
    BY <1>3, <1>7, <1>9, <2>1
  <2>2. CASE m \notin ToSet(plan.retry)
    <3>1. ~plan.retrying /\ m \in {plan.offset + i - 1 : i \in failing}
      BY <1>4, <1>6, <1>7, <2>2
    <3>2. PICK i \in failing : m = plan.offset + i - 1
      BY <3>1
    <3>3. i \in Nat /\ i <= Len(items)
      BY <1>8
    <3> QED
      BY <1>6, <1>7, <1>8, <3>1, <3>2, <3>3
  <2> QED
    BY <2>1, <2>2
<1>12. /\ \A r \in done : \A m \in Selects(r, issued) :
            m < plan.offset /\ (m \in ToSet(plan.retry) => Unread(r, m, rows, issued))
       /\ \A a, r \in done : \A m \in Selects(a, issued) \cap Selects(r, issued) :
            a < r => issued[r].retrying /\ Unread(a, m, rows, issued)
  BY <1>1 DEF WorkFits
<1>13. \A r \in done : r \in Nat /\ r <= Len(issued) /\ \A m \in Selects(r, issued) : m \in Int
  <2> TAKE r \in done
  <2>1. r \in ToSet(history.counted) /\ r \in Run /\ r \in Nat
    BY <1>1, TriageRunClientAssumption DEF ToSet, Run
  <2>2. rows[r] # Nil
    BY <1>1, <2>1 DEF PlanFits
  <2>3. RowsFit(rows, issued)
    BY DEF Counts, RunsFit
  <2>4. r <= Len(issued)
    BY <2>1, <2>2, <2>3 DEF RowsFit
  <2>5. issued[r] \in Request
    <3>1. r \in 1..Len(issued)
      BY <1>1, <2>1, <2>4 DEF Run
    <3> QED
      BY <1>1, <3>1
  <2>6. issued[r].offset \in Nat /\ issued[r].messages \in Int
    BY <2>5 DEF Request
  <2>7. \A m \in Selects(r, issued) : m \in Int
    BY <2>6 DEF Selects
  <2> QED
    BY <2>1, <2>4, <2>7
<1>14. ASSUME NEW r \in done, NEW m \in Selects(r, issued)
       PROVE  m < next.offset /\ (m \in ToSet(next.retry) => Unread(r, m, rows, issued))
  <2>1. m < plan.offset /\ m \in Int /\ (m \in ToSet(plan.retry) => Unread(r, m, rows, issued))
    BY <1>12, <1>13
  <2>2. m < next.offset
    BY <1>7, <1>9, <2>1
  <2>3. m \in ToSet(next.retry) => m \in ToSet(plan.retry)
    BY <1>7, <1>10, <2>1
  <2> QED
    BY <2>1, <2>2, <2>3
<1>15. CASE ~history.inSight /\ k <= history.before /\ history.counted = <<>>
  <2>1. doneNow = {}
    <3>1. ToSet(history.counted) = {}
      BY <1>15 DEF ToSet
    <3>2. ~(k > history.before)
      BY <1>1, <1>7, <1>15
    <3> QED
      BY <1>1, <3>1, <3>2
  <2> QED
    BY <1>3, <1>11, <2>1 DEF WorkFits
<1>16. CASE IsNext(k, p, issued, history)
  <2>1. /\ k > history.before /\ k = Len(issued) /\ k \notin ToSet(history.counted)
        /\ issued[k].retrying = plan.retrying
    BY <1>16, OwnBatch
  <2>2. plan.retrying => /\ issued[k].offset = Head(plan.retry) /\ DOMAIN items = {1}
                         /\ Head(plan.retry) \in ToSet(plan.retry)
                         /\ Selects(k, issued) = {Head(plan.retry)}
    BY <1>16, OwnBatch
  <2>3. ~plan.retrying => /\ issued[k].offset = plan.offset
                          /\ \A m \in Selects(k, issued) :
                               m >= plan.offset /\ m < plan.offset + Len(items)
    BY <1>16, OwnBatch
  <2>4. doneNow = done \union {k}
    BY <1>1, <2>1
  <2>5. ASSUME NEW m \in Selects(k, issued)
        PROVE  m < next.offset /\ (m \in ToSet(next.retry) => Unread(k, m, rows, issued))
    <3>1. CASE plan.retrying
      <4>1. m = Head(plan.retry) /\ m \in ToSet(plan.retry) /\ m \in Nat /\ m < next.offset
        BY <1>3, <1>4, <2>2, <2>5, <3>1
      <4>2. ASSUME m \in ToSet(next.retry) PROVE Unread(k, m, rows, issued)
        <5>1. failing # {}
          BY <1>5, <3>1, <4>1, <4>2
        <5>2. items[1] = "unread" /\ 1 \in DOMAIN items
          BY <2>2, <3>1, <5>1 DEF EndedAs
        <5>3. m = issued[k].offset + 1 - 1
          BY <2>2, <3>1, <4>1
        <5> QED
          BY <5>2, <5>3 DEF Unread, EndsAs
      <4> QED
        BY <4>1, <4>2
    <3>2. CASE ~plan.retrying
      <4>1. m >= plan.offset /\ m < plan.offset + Len(items)
        BY <2>3, <2>5, <3>2
      <4>2. m \in Int
        <5>1. issued[k].offset \in Nat /\ issued[k].messages \in Int
          <6>1. issued[k] \in Request
            BY CountBasics
          <6> QED
            BY <6>1 DEF Request
        <5> QED
          BY <2>5, <5>1 DEF Selects
      <4>3. ASSUME m \in ToSet(next.retry) PROVE Unread(k, m, rows, issued)
        <5>1. m \notin ToSet(plan.retry)
          BY <1>3, <1>7, <4>1
        <5>2. PICK i \in failing : m = plan.offset + i - 1
          BY <1>6, <3>2, <4>3, <5>1
        <5>3. i \in DOMAIN items /\ items[i] = "unread"
          BY <5>2 DEF EndedAs
        <5> QED
          BY <2>3, <3>2, <5>2, <5>3 DEF Unread, EndsAs
      <4> QED
        BY <1>6, <3>2, <4>1, <4>3
    <3> QED
      BY <1>7, <3>1, <3>2
  <2>6. ASSUME NEW a \in done, NEW m \in Selects(a, issued) \cap Selects(k, issued)
        PROVE  issued[k].retrying /\ Unread(a, m, rows, issued)
    <3>1. m < plan.offset /\ m \in Int /\ (m \in ToSet(plan.retry) => Unread(a, m, rows, issued))
      BY <1>12, <1>13, <2>6
    <3>2. plan.retrying
      <4> SUFFICES ASSUME ~plan.retrying PROVE FALSE
        BY <1>7
      <4>1. m >= plan.offset
        BY <2>3, <2>6
      <4> QED
        BY <1>7, <3>1, <4>1
    <3>3. m \in ToSet(plan.retry)
      BY <2>2, <2>6, <3>2
    <3> QED
      BY <2>1, <3>1, <3>2, <3>3
  <2>7. ASSUME NEW a \in doneNow, NEW r \in doneNow, a < r,
               NEW m \in Selects(a, issued) \cap Selects(r, issued)
        PROVE  issued[r].retrying /\ Unread(a, m, rows, issued)
    <3>1. CASE a \in done /\ r \in done
      BY <1>12, <2>7, <3>1
    <3>2. CASE a \in done /\ r = k
      BY <2>6, <2>7, <3>2
    <3>3. CASE a = k
      <4>1. r \in Nat /\ r <= Len(issued)
        BY <1>1, <1>13, <2>1, <2>4
      <4> QED
        BY <1>1, <2>1, <2>7, <3>3, <4>1
    <3> QED
      BY <2>4, <3>1, <3>2, <3>3
  <2>8. \A r \in doneNow : \A m \in Selects(r, issued) :
          m < next.offset /\ (m \in ToSet(next.retry) => Unread(r, m, rows, issued))
    BY <1>14, <2>4, <2>5
  <2> HIDE DEF done, doneNow
  <2>9. \A a, r \in doneNow : \A m \in Selects(a, issued) \cap Selects(r, issued) :
          a < r => issued[r].retrying /\ Unread(a, m, rows, issued)
    BY <2>7
  <2> QED
    BY <1>3, <1>11, <2>8, <2>9 DEF WorkFits, doneNow
<1> QED
  BY <1>2, <1>15, <1>16

\* A message a settled run selected was left unread, went wrong or is covered.
LEMMA FateOf ==
  ASSUME NEW items \in Seq(Fate), NEW i \in DOMAIN items
  PROVE  items[i] \in {"classified", "current", "unread", "other"}
<1>1. items[i] \in Fate
  OBVIOUS
<1> QED
  BY <1>1, TriageRunClientAssumption

\* The figures of a plan that showed the run it kept when it was made.
LEMMA CountFigures ==
  ASSUME NEW p, NEW wr, NEW kp, NEW hs, NEW next, NEW q, Counts(p, wr, kp, hs, next),
         q.plan = next, history.inSight
  PROVE  FiguresFit(rows, q, issued, hs)
<1> DEFINE k       == p.run.id
           plan    == p.plan
           items   == rows[k].items
           failing == EndedAs(items, "unread")
           others  == EndedAs(items, "other")
           before  == ToSet(history.counted)
<1>1. /\ plan \in Plan /\ rows[k] \in Row /\ k \in Nat /\ k \in Run
      /\ ToSet(hs.counted) = before \union {k} /\ hs.counted = Append(history.counted, k)
      /\ PlanFits(rows, p, issued, history) /\ history.counted \in Seq(Run)
      /\ RowFits(rows[k], issued[k])
  BY CountBasics
<1>2. IsNext(k, p, issued, history)
  BY CountBasics
<1>3. FiguresFit(rows, p, issued, history)
  BY CountBasics
<1>4. /\ IsInjective(history.counted)
      /\ plan.calls = SpentBy(rows, before) /\ plan.calls <= plan.maxCalls
      /\ plan.offset <= plan.total /\ plan.unread >= Len(plan.retry)
  BY <1>3 DEF FiguresFit
<1>5. plan.unread = Len(plan.retry) /\ plan.other = 0 =>
        \A m \in 0..plan.offset - 1 :
          m \in ToSet(plan.retry) \/ \E r \in before : Covers(r, m, rows, issued)
  BY <1>3 DEF FiguresFit
<1>6. /\ k \notin before /\ items \in Seq(Fate)
      /\ issued[k].limit <= plan.maxCalls - plan.calls
      /\ issued[k].retrying = plan.retrying
  BY <1>2, OwnBatch
<1>7. plan.retrying => issued[k].offset = Head(plan.retry) /\ DOMAIN items = {1}
  BY <1>2, OwnBatch
<1>8. ~plan.retrying => /\ issued[k].offset = plan.offset
                        /\ Len(items) = 0 \/ Len(items) <= plan.total - plan.offset
  BY <1>2, OwnBatch
<1>9. /\ plan.calls \in Nat /\ plan.maxCalls \in Nat /\ plan.offset \in Nat /\ plan.total \in Nat
      /\ plan.unread \in Int /\ plan.other \in Nat /\ plan.retry \in Seq(Nat)
      /\ plan.retrying \in BOOLEAN
  BY <1>1, TriageRunClientAssumption DEF Plan
<1>35. Len(plan.retry) \in Nat
  BY <1>9
<1>10. rows[k].calls \in Nat /\ issued[k].limit \in Int
  <2>1. issued[k] \in Request
    BY CountBasics
  <2> QED
    BY <1>1, <2>1 DEF Row, Request
<1>11. /\ Len(items) \in Nat /\ DOMAIN items = 1..Len(items)
       /\ Cardinality(failing) \in Nat /\ Cardinality(others) \in Nat
       /\ Cardinality(others) = 0 => others = {}
  BY <1>6, Places
<1>33. plan \in Plan /\ rows[k] \in Row /\ k \in Nat
  BY <1>1
<1>12. next = CountRunItems(plan, k)
  BY DEF Counts
<1>13. plan.retrying => plan.retry # <<>>
  BY <1>1 DEF PlanFits
<1>14. next.calls = plan.calls + rows[k].calls /\ next.maxCalls = plan.maxCalls
       /\ next.total = plan.total /\ next.other = plan.other + Cardinality(others)
  <2>1. LET n == CountRunItems(plan, k)
        IN /\ n.calls = plan.calls + rows[k].calls /\ n.maxCalls = plan.maxCalls
           /\ n.total = plan.total /\ n.other = plan.other + Cardinality(others)
    BY <1>33, <1>13, CountChanges
  <2> QED
    BY <1>12, <2>1
<1>15. plan.retrying /\ failing = {} => next.unread = plan.unread - 1
  <2>1. plan.retrying /\ failing = {} => CountRunItems(plan, k).unread = plan.unread - 1
    BY <1>33, <1>13, CountChanges
  <2> QED
    BY <1>12, <2>1
<1>16. plan.retrying /\ failing # {} => next.unread = plan.unread
  <2>1. plan.retrying /\ failing # {} => CountRunItems(plan, k).unread = plan.unread
    BY <1>33, <1>13, CountChanges
  <2> QED
    BY <1>12, <2>1
<1>17. ~plan.retrying => next.unread = plan.unread + Cardinality(failing)
  <2>1. ~plan.retrying => CountRunItems(plan, k).unread = plan.unread + Cardinality(failing)
    BY <1>33, <1>13, CountChanges
  <2> QED
    BY <1>12, <2>1
<1>18. next.retry \in Seq(Nat) /\ next.offset = IF plan.retrying THEN plan.offset ELSE plan.offset + Len(items)
  BY <1>9, CountQueue
<1>19. plan.retrying =>
         /\ ToSet(next.retry) \subseteq ToSet(plan.retry)
         /\ ToSet(plan.retry) \subseteq ToSet(next.retry) \union {Head(plan.retry)}
  BY CountQueue
<1>20. plan.retrying /\ failing = {} => Len(next.retry) = Len(plan.retry) - 1
  BY CountQueue
<1>21. plan.retrying /\ failing # {} =>
         ToSet(plan.retry) \subseteq ToSet(next.retry) /\ Len(next.retry) = Len(plan.retry)
  BY CountQueue
<1>36. ~plan.retrying =>
         /\ \A m \in ToSet(plan.retry) : m \in ToSet(next.retry)
         /\ \A i \in failing : plan.offset + i - 1 \in ToSet(next.retry)
  BY CountQueue
<1>37. ~plan.retrying => Len(next.retry) = Len(plan.retry) + Cardinality(failing)
  BY CountQueue
<1>22. ~plan.retrying =>
         /\ \A m \in ToSet(plan.retry) : m \in ToSet(next.retry)
         /\ \A i \in failing : plan.offset + i - 1 \in ToSet(next.retry)
         /\ Len(next.retry) = Len(plan.retry) + Cardinality(failing)
  BY <1>36, <1>37
<1>34. failing \subseteq DOMAIN items
  BY DEF EndedAs
<1>23. /\ failing = {i \in DOMAIN items : items[i] = "unread"}
       /\ others = {i \in DOMAIN items : items[i] = "other"}
  BY DEF EndedAs
<1> HIDE DEF failing, others, items, plan
<1>24. IsInjective(hs.counted)
  BY <1>1, <1>4, <1>6, AppendSet
<1>25. next.calls = SpentBy(rows, ToSet(hs.counted))
  <2>1. k \in 1..MaxStarts
    BY <1>1 DEF Run
  <2>2. \A r \in before \union {k} : rows[r].calls \in Nat
    <3> TAKE r \in before \union {k}
    <3>1. CASE r = k
      BY <1>10, <3>1
    <3>2. CASE r \in before
      <4>1. r \in Run
        BY <1>1, <3>2 DEF ToSet
      <4>2. rows[r] # Nil
        BY <1>1, <3>2 DEF PlanFits
      <4>3. rows \in [Run -> Row \union {Nil}]
        BY DEF Counts, RunsFit, ClientTyped
      <4>4. rows[r] \in Row
        BY <4>1, <4>2, <4>3
      <4> QED
        BY <4>4 DEF Row
    <3> QED
      BY <3>1, <3>2
  <2>3. SpentBy(rows, before \union {k}) = SpentBy(rows, before) + rows[k].calls
    BY <1>6, <2>1, <2>2, SpentAdd
  <2> QED
    BY <1>1, <1>4, <1>14, <2>3
<1>26. next.calls <= next.maxCalls
  <2>1. rows[k].calls <= issued[k].limit \/ rows[k].calls = 0
    BY <1>1 DEF RowFits
  <2> QED
    BY <1>4, <1>6, <1>9, <1>10, <1>14, <2>1
<1>27. next.offset <= next.total
  BY <1>4, <1>8, <1>9, <1>11, <1>14, <1>18
<1>28. Len(next.retry) \in Nat
  BY <1>18
<1>29. next.unread - Len(next.retry) = plan.unread - Len(plan.retry) /\ next.unread \in Int
  <2>1. CASE plan.retrying /\ failing = {}
    <3>1. next.unread = plan.unread - 1 /\ Len(next.retry) = Len(plan.retry) - 1
      BY <1>15, <1>20, <2>1
    <3> QED
      BY <1>9, <1>35, <3>1
  <2>2. CASE plan.retrying /\ failing # {}
    BY <1>9, <1>35, <1>16, <1>21, <2>2
  <2>3. CASE ~plan.retrying
    BY <1>9, <1>35, <1>11, <1>17, <1>22, <2>3
  <2> QED
    BY <1>9, <1>35, <2>1, <2>2, <2>3
<1>30. next.unread >= Len(next.retry)
  BY <1>4, <1>9, <1>28, <1>29
<1>31. ASSUME next.unread = Len(next.retry), next.other = 0, NEW m \in 0..next.offset - 1
       PROVE  m \in ToSet(next.retry) \/ \E r \in before \union {k} : Covers(r, m, rows, issued)
  <2>1. plan.unread = Len(plan.retry)
    BY <1>9, <1>28, <1>29, <1>31
  <2>2. plan.other = 0 /\ Cardinality(others) = 0
    BY <1>9, <1>11, <1>14, <1>31
  <2>3. others = {}
    BY <1>11, <2>2
  <2>4. \A i \in DOMAIN items : items[i] \in {"classified", "current"} \/ i \in failing
    <3> TAKE i \in DOMAIN items
    <3>1. items[i] \in {"classified", "current", "unread", "other"}
      BY <1>6, FateOf
    <3>2. items[i] # "other"
      BY <1>23, <2>3
    <3> QED
      BY <1>23, <3>1, <3>2
  <2>5. ASSUME NEW i \in DOMAIN items, i \notin failing, m = issued[k].offset + i - 1
        PROVE  Covers(k, m, rows, issued)
    <3>1. items[i] \in {"classified", "current"}
      BY <2>4, <2>5
    <3> QED
      BY <2>5, <3>1 DEF Covers, EndsAs, items
  <2>6. CASE m < plan.offset
    <3>1. m \in 0..plan.offset - 1
      BY <1>9, <1>18, <1>31, <2>6
    <3>2. m \in ToSet(plan.retry) \/ \E r \in before : Covers(r, m, rows, issued)
      BY <1>5, <2>1, <2>2, <3>1
    <3>3. CASE m \in ToSet(plan.retry) /\ m \notin ToSet(next.retry)
      <4>1. plan.retrying
        BY <1>9, <1>22, <3>3
      <4>2. m = Head(plan.retry) /\ failing = {}
        BY <1>19, <1>21, <3>3, <4>1
      <4>3. 1 \in DOMAIN items /\ 1 \notin failing /\ issued[k].offset = m
        BY <1>7, <4>1, <4>2
      <4>4. m \in Int /\ m = issued[k].offset + 1 - 1
        BY <1>9, <3>1, <4>3
      <4> QED
        BY <2>5, <4>3, <4>4
    <3> QED
      BY <3>2, <3>3
  <2>7. CASE ~(m < plan.offset)
    <3>1. ~plan.retrying /\ m \in Int /\ m >= plan.offset /\ m < plan.offset + Len(items)
      <4>1. next.offset \in Nat
        BY <1>9, <1>11, <1>18
      <4>2. m \in Int /\ m < next.offset
        BY <1>31, <4>1
      <4>3. ~plan.retrying
        BY <1>9, <1>18, <2>7, <4>2
      <4> QED
        BY <1>9, <1>18, <2>7, <4>2, <4>3
    <3>2. m - plan.offset + 1 \in 1..Len(items) /\ m = plan.offset + (m - plan.offset + 1) - 1
      BY <1>9, <1>11, <3>1
    <3>3. PICK i \in DOMAIN items : m = plan.offset + i - 1
      BY <1>11, <3>2
    <3>4. CASE i \in failing
      BY <1>22, <3>1, <3>3, <3>4
    <3>5. CASE i \notin failing
      BY <1>8, <2>5, <3>1, <3>3, <3>5
    <3> QED
      BY <3>4, <3>5
  <2> QED
    BY <2>6, <2>7
<1>32. next.unread = Len(next.retry) /\ next.other = 0 =>
         \A m \in 0..next.offset - 1 :
           m \in ToSet(next.retry) \/ \E r \in ToSet(hs.counted) : Covers(r, m, rows, issued)
  BY <1>1, <1>31
<1> QED
  BY <1>24, <1>25, <1>26, <1>27, <1>30, <1>32 DEF FiguresFit

-----------------------------------------------------------------------------
(* What the page may change without touching what fits.                        *)

\* Nil is nothing else.
LEMMA NilApart ==
  Nil \notin Nat /\ Nil \notin Row /\ Nil \notin Plan /\ Nil \notin Snapshot /\ Nil \notin Run
BY TriageRunClientAssumption DEF Run

\* What fits a page fits one that differs in its plan and what it shows of it.
LEMMA View ==
  ASSUME NEW rw, NEW wr, NEW p, NEW q, NEW kp, NEW is, NEW hs, NEW hn,
         ClientTyped(rw, wr, p, kp, is, hs), PageFits(rw, p, is), WireFits(rw, wr, p, is),
         q \in Controller, hn \in History,
         q.phase = p.phase, q.run = p.run, q.runId = p.runId, q.pending = p.pending
  PROVE  ClientTyped(rw, wr, q, kp, is, hn) /\ PageFits(rw, q, is) /\ WireFits(rw, wr, q, is)
<1>1. ClientTyped(rw, wr, q, kp, is, hn)
  BY DEF ClientTyped
<1>2. PageFits(rw, q, is)
  BY DEF PageFits
<1>3. ASSUME NEW c \in wr PROVE CallFits(c, rw, wr, q, is)
  <2>1. CallFits(c, rw, wr, p, is)
    BY DEF WireFits
  <2> QED
    BY <2>1 DEF CallFits
<1> QED
  BY <1>1, <1>2, <1>3 DEF WireFits

\* A plan looked at without what it shows.
LEMMA PlanView ==
  ASSUME NEW rw, NEW p, NEW q, NEW is, NEW hs, CampaignFits(rw, p, is, hs),
         q.plan = p.plan, q.runId = p.runId, q.pending = p.pending
  PROVE  CampaignFits(rw, q, is, hs)
<1>1. PlanFits(rw, p, is, hs) => PlanFits(rw, q, is, hs)
  BY DEF PlanFits, IsNext
<1>2. WorkFits(rw, p, is, hs) => WorkFits(rw, q, is, hs)
  BY DEF WorkFits
<1>3. FiguresFit(rw, p, is, hs) => FiguresFit(rw, q, is, hs)
  BY DEF FiguresFit
<1> QED
  BY <1>1, <1>2, <1>3 DEF CampaignFits

\* The requests made before stay as they are.
LEMMA AskedBefore ==
  ASSUME NEW is \in Seq(Request), NEW b \in Request
  PROVE  LET new == Append(is, b)
         IN /\ new \in Seq(Request) /\ Len(new) = Len(is) + 1 /\ Len(is) \in Nat
            /\ new[Len(is) + 1] = b
            /\ \A r \in 1..Len(is) : new[r] = is[r] /\ Selects(r, new) = Selects(r, is)
            /\ \A r \in 1..Len(is) : \A m, rw :
                 /\ Unread(r, m, rw, new) = Unread(r, m, rw, is)
                 /\ Covers(r, m, rw, new) = Covers(r, m, rw, is)
<1> DEFINE new == Append(is, b)
<1>1. /\ new \in Seq(Request) /\ Len(new) = Len(is) + 1 /\ Len(is) \in Nat /\ new[Len(is) + 1] = b
      /\ \A r \in 1..Len(is) : new[r] = is[r]
  OBVIOUS
<1> HIDE DEF new
<1>2. \A r \in 1..Len(is) : Selects(r, new) = Selects(r, is)
  BY <1>1 DEF Selects
<1>3. \A r \in 1..Len(is) : \A m, rw : /\ Unread(r, m, rw, new) = Unread(r, m, rw, is)
                                       /\ Covers(r, m, rw, new) = Covers(r, m, rw, is)
  BY <1>1 DEF Unread, Covers, EndsAs
<1> QED
  BY <1>1, <1>2, <1>3 DEF new

-----------------------------------------------------------------------------
(* Asking for the next batch, and restoring a run that is kept.                *)

\* A page that may ask for a batch: no start is pending or waited for, and its plan
\* counted the run it keeps, if that run is of this campaign.
Unasked(rw, wr, p, is, hs) ==
  /\ p.plan # Nil /\ p.pending = Nil /\ p.runId \in Run \union {Nil}
  /\ \A c \in wr : c.gone \/ c.kind \in {"read", "stop"}
  /\ \/ p.runId \in {Nil, p.plan.last}
     \/ ~hs.inSight /\ p.runId <= hs.before /\ hs.counted = <<>>

\* The runs of a campaign made before the next start are those counted.
LEMMA MadeBefore ==
  ASSUME NEW rw, NEW wr, NEW p, NEW kp, NEW is, NEW hs, RunsFit(rw, wr, p, kp, is, hs), p.plan # Nil
  PROVE  /\ p.plan \in Plan
         /\ p.plan.retrying => p.plan.retry # <<>>
         /\ BatchRequest(p.plan) \in Request
         /\ is \in Seq(Request) /\ hs.before \in Nat /\ hs.counted \in Seq(Run)
         /\ \A r \in Run : rw[r] # Nil => r \in 1..Len(is)
         /\ \A r \in ToSet(hs.counted) : r \in Run /\ r \in 1..Len(is) /\ rw[r] \in Row
         /\ PlanFits(rw, p, is, hs) /\ WorkFits(rw, p, is, hs)
         /\ hs.inSight => FiguresFit(rw, p, is, hs)
<1>1. /\ ClientTyped(rw, wr, p, kp, is, hs) /\ RowsFit(rw, is) /\ CampaignFits(rw, p, is, hs)
  BY DEF RunsFit
<1>2. /\ p.plan \in Plan /\ is \in Seq(Request) /\ hs \in History /\ rw \in [Run -> Row \union {Nil}]
  BY <1>1 DEF ClientTyped, Controller
<1>3. PlanFits(rw, p, is, hs) /\ WorkFits(rw, p, is, hs) /\ (hs.inSight => FiguresFit(rw, p, is, hs))
  BY <1>1 DEF CampaignFits
<1>4. p.plan.retrying => p.plan.retry # <<>>
  BY <1>3 DEF PlanFits
<1>5. BatchRequest(p.plan) \in Request
  BY <1>2, <1>4, BatchType
<1>6. hs.before \in Nat /\ hs.counted \in Seq(Run)
  BY <1>2 DEF History
<1>7. \A r \in Run : rw[r] # Nil => r \in 1..Len(is)
  BY <1>1 DEF RowsFit, Run
<1>8. \A r \in ToSet(hs.counted) : r \in Run /\ rw[r] # Nil
  BY <1>3, <1>6 DEF PlanFits, ToSet
<1>9. \A r \in ToSet(hs.counted) : rw[r] \in Row /\ r \in 1..Len(is)
  BY <1>2, <1>7, <1>8
<1> QED
  BY <1>2, <1>3, <1>4, <1>5, <1>6, <1>7, <1>8, <1>9

\* A new request asks for rows of its own plan and no row twice.
LEMMA FreshPlan ==
  ASSUME NEW rw, NEW wr, NEW p, NEW q, NEW kp, NEW is, NEW hs,
         RunsFit(rw, wr, p, kp, is, hs), Unasked(rw, wr, p, is, hs), Len(is) + 1 <= MaxStarts,
         q.plan = p.plan, q.runId = p.runId, q.pending = Len(is) + 1
  PROVE  CampaignFits(rw, q, Append(is, BatchRequest(p.plan)), hs)
<1> DEFINE b   == BatchRequest(p.plan)
           new == Append(is, b)
           r   == Len(is) + 1
<1>0. p.plan # Nil /\ p.pending = Nil /\ p.runId \in Run \union {Nil}
  BY DEF Unasked
<1>1. /\ p.plan \in Plan /\ b \in Request /\ is \in Seq(Request) /\ hs.before \in Nat
      /\ hs.counted \in Seq(Run)
      /\ \A x \in Run : rw[x] # Nil => x \in 1..Len(is)
      /\ \A x \in ToSet(hs.counted) : x \in Run /\ x \in 1..Len(is)
  BY <1>0, MadeBefore
<1>2. PlanFits(rw, p, is, hs) /\ WorkFits(rw, p, is, hs) /\ (hs.inSight => FiguresFit(rw, p, is, hs))
  BY <1>0, MadeBefore
<1>3. /\ Len(new) = r /\ Len(is) \in Nat /\ r \in Nat /\ new[r] = b
      /\ \A x \in 1..Len(is) : new[x] = is[x] /\ Selects(x, new) = Selects(x, is)
  BY <1>1, AskedBefore
<1>4. \A x \in 1..Len(is) : \A m : /\ Unread(x, m, rw, new) = Unread(x, m, rw, is)
                                   /\ Covers(x, m, rw, new) = Covers(x, m, rw, is)
  BY <1>1, AskedBefore
<1>5. r \in Run /\ r \notin 1..Len(is) /\ rw[r] = Nil /\ r \notin ToSet(hs.counted) /\ r # Nil
  <2>1. r \in Run /\ r \notin 1..Len(is)
    BY <1>3 DEF Run
  <2> QED
    BY <1>1, <1>3, <2>1, NilApart
<1> HIDE DEF new, r, b
<1>6. PlanFits(rw, q, new, hs)
  <2>1. hs.before <= Len(new) /\ (q.plan.retrying => q.plan.retry # <<>>)
    <3>1. hs.before <= Len(is) /\ (p.plan.retrying => p.plan.retry # <<>>)
      BY <1>2 DEF PlanFits
    <3> QED
      BY <1>1, <1>3, <3>1 DEF r
  <2>2. q.pending # Nil => IsNext(q.pending, q, new, hs)
    <3>1. r > hs.before
      <4>1. hs.before <= Len(is)
        BY <1>2 DEF PlanFits
      <4> QED
        BY <1>1, <1>3, <4>1 DEF r
    <3> QED
      BY <1>3, <1>5, <3>1 DEF IsNext, r, b
  <2>3. \/ q.runId \in {Nil, q.plan.last}
        \/ ~hs.inSight /\ q.runId <= hs.before /\ hs.counted = <<>>
    BY DEF Unasked
  <2>4. q.plan.last # Nil => q.plan.last \in ToSet(hs.counted) \/ q.plan.last <= hs.before
    BY <1>2 DEF PlanFits
  <2>5. ASSUME NEW x \in Run, Made(x, rw, new, hs)
        PROVE  x \in ToSet(hs.counted) \union {q.pending, q.runId}
    <3>1. x \in 1..Len(is) /\ x > hs.before /\ rw[x] # Nil
      BY <1>1, <2>5 DEF Made
    <3>2. Made(x, rw, is, hs)
      BY <3>1 DEF Made
    <3>3. x \in ToSet(hs.counted) \union {Nil, p.runId}
      BY <1>0, <1>2, <2>5, <3>2 DEF PlanFits
    <3>4. x # Nil
      BY <2>5, NilApart
    <3> QED
      BY <3>3, <3>4
  <2>6. \A x \in ToSet(hs.counted) : /\ rw[x] # Nil /\ rw[x].status \in Settleable
                                     /\ hs.inSight => x > hs.before
    BY <1>2 DEF PlanFits
  <2> QED
    BY <2>1, <2>2, <2>3, <2>4, <2>5, <2>6 DEF PlanFits
<1>7. WorkFits(rw, q, new, hs)
  <2> DEFINE done == {x \in ToSet(hs.counted) : x > hs.before}
  <2>1. \A x \in done : x \in 1..Len(is)
    BY <1>1
  <2>2. /\ IsInjective(p.plan.retry) /\ \A m \in ToSet(p.plan.retry) : m < p.plan.offset
        /\ \A x \in done : \A m \in Selects(x, is) :
             m < p.plan.offset /\ (m \in ToSet(p.plan.retry) => Unread(x, m, rw, is))
        /\ \A x, y \in done : \A m \in Selects(x, is) \cap Selects(y, is) :
             x < y => is[y].retrying /\ Unread(x, m, rw, is)
    BY <1>2 DEF WorkFits
  <2>3. \A x \in done : \A m \in Selects(x, new) :
          m < p.plan.offset /\ (m \in ToSet(p.plan.retry) => Unread(x, m, rw, new))
    BY <1>3, <1>4, <2>1, <2>2
  <2>4. \A x, y \in done : \A m \in Selects(x, new) \cap Selects(y, new) :
          x < y => new[y].retrying /\ Unread(x, m, rw, new)
    BY <1>3, <1>4, <2>1, <2>2
  <2> QED
    BY <2>2, <2>3, <2>4 DEF WorkFits
<1>8. hs.inSight => FiguresFit(rw, q, new, hs)
  <2> SUFFICES ASSUME hs.inSight PROVE FiguresFit(rw, q, new, hs)
    OBVIOUS
  <2>1. /\ IsInjective(hs.counted)
        /\ p.plan.calls = SpentBy(rw, ToSet(hs.counted)) /\ p.plan.calls <= p.plan.maxCalls
        /\ p.plan.offset <= p.plan.total /\ p.plan.unread >= Len(p.plan.retry)
        /\ p.plan.unread = Len(p.plan.retry) /\ p.plan.other = 0 =>
             \A m \in 0..p.plan.offset - 1 :
               m \in ToSet(p.plan.retry) \/ \E x \in ToSet(hs.counted) : Covers(x, m, rw, is)
    BY <1>2 DEF FiguresFit
  <2>2. p.plan.unread = Len(p.plan.retry) /\ p.plan.other = 0 =>
          \A m \in 0..p.plan.offset - 1 :
            m \in ToSet(p.plan.retry) \/ \E x \in ToSet(hs.counted) : Covers(x, m, rw, new)
    BY <1>1, <1>4, <2>1
  <2> QED
    BY <2>1, <2>2 DEF FiguresFit
<1> QED
  BY <1>6, <1>7, <1>8 DEF CampaignFits, new, b

\* A new request keeps the rows, the calls and the page in step.
LEMMA FreshKeeps ==
  ASSUME NEW rw, NEW wr, NEW p, NEW q, NEW kp, NEW kn, NEW is, NEW hs,
         is = issued, RunsFit(rw, wr, p, kp, is, hs), Unasked(rw, wr, p, is, hs), Len(is) + 1 <= MaxStarts,
         q = [p EXCEPT !.phase = "starting", !.pending = Len(is) + 1],
         kn = [run |-> p.runId, pending |-> Len(is) + 1]
  PROVE  RunsFit(rw, wr \union {OnWire("start", Len(is) + 1, p)}, q, kn,
                 Append(is, BatchRequest(p.plan)), hs)
<1> DEFINE b   == BatchRequest(p.plan)
           new == Append(is, b)
           r   == Len(is) + 1
           c   == OnWire("start", r, p)
           wn  == wr \union {c}
<1>0. /\ p.plan # Nil /\ p.pending = Nil /\ \A d \in wr : d.gone \/ d.kind \in {"read", "stop"}
  BY DEF Unasked
<1>1. /\ ClientTyped(rw, wr, p, kp, is, hs) /\ RowsFit(rw, is) /\ PageFits(rw, p, is) /\ WireFits(rw, wr, p, is)
  BY DEF RunsFit
<1>2. /\ b \in Request /\ is \in Seq(Request)
      /\ \A x \in Run : rw[x] # Nil => x \in 1..Len(is)
  BY <1>0, MadeBefore
<1>3. /\ new \in Seq(Request) /\ Len(new) = r /\ Len(is) \in Nat /\ r \in Nat /\ r \in Run
      /\ \A x \in 1..Len(is) : new[x] = is[x]
  BY <1>2, AskedBefore DEF Run
<1>4. /\ rw \in [Run -> Row \union {Nil}] /\ wr \subseteq Call /\ p \in Controller /\ hs \in History
  BY <1>1 DEF ClientTyped
<1>5. /\ q \in Controller /\ q.phase = "starting" /\ q.run = p.run /\ q.runId = p.runId
      /\ q.pending = r /\ q.plan = p.plan
  BY <1>3, <1>4 DEF Controller, Phase
<1>6. /\ c.kind = "start" /\ c.run = r /\ c.before = p.run /\ c.from = p.runId /\ c.phase = "sent"
      /\ c.answer = Nil /\ c.gone = FALSE /\ c.after = Len(is)
  BY DEF OnWire
<1>7. c \in Call
  <2>1. p.run \in Snapshot \union {Nil} /\ p.runId \in Run \union {Nil}
    BY <1>4 DEF Controller
  <2> QED
    BY <1>2, <1>3, <2>1 DEF Call, OnWire
<1> HIDE DEF c, b, new, r
<1>8. ClientTyped(rw, wn, q, kn, new, hs)
  <2>1. Len(new) <= MaxStarts
    BY <1>3 DEF r
  <2>2. kn = [run |-> q.runId, pending |-> q.pending]
    BY <1>5 DEF r
  <2> QED
    BY <1>3, <1>4, <1>5, <1>7, <2>1, <2>2 DEF ClientTyped
<1>9. RowsFit(rw, new)
  <2> SUFFICES ASSUME NEW x \in Run, rw[x] # Nil PROVE x <= Len(new) /\ RowFits(rw[x], new[x])
    BY DEF RowsFit
  <2>1. x \in 1..Len(is) /\ RowFits(rw[x], is[x])
    BY <1>1, <1>2 DEF RowsFit
  <2>2. x <= Len(new)
    BY <1>3, <2>1 DEF r
  <2> QED
    BY <1>3, <2>1, <2>2
<1>10. PageFits(rw, q, new)
  BY <1>1, <1>3, <1>5 DEF PageFits
<1>11. WireFits(rw, wn, q, new)
  <2>1. ASSUME NEW d \in wr PROVE CallFits(d, rw, wr, p, is) /\ ~Timely(d, new) /\ d.run \in Run
    <3>1. CallFits(d, rw, wr, p, is) /\ d \in Call
      BY <1>1, <1>4 DEF WireFits
    <3>2. d.after <= Len(is) /\ d.after \in Nat /\ d.run \in Run
      BY <3>1 DEF CallFits, Call
    <3>3. d.after < Len(new)
      BY <1>3, <3>2 DEF r
    <3> QED
      BY <1>0, <3>1, <3>2, <3>3 DEF Timely, Behind
  <2>2. CallFits(c, rw, wn, q, new)
    <3>1. c.after <= Len(new)
      BY <1>3, <1>6 DEF r
    <3>2. \A d \in wn : Timely(d, new) => d = c
      BY <2>1
    <3> QED
      BY <1>5, <1>6, <3>1, <3>2 DEF CallFits, AnswerTrue
  <2>3. ASSUME NEW d \in wr PROVE CallFits(d, rw, wn, q, new)
    <3>1. d.after <= Len(is) /\ d.after \in Nat
      BY <1>4, <2>1 DEF CallFits, Call
    <3>2. d.after <= Len(new)
      BY <1>3, <3>1 DEF r
    <3>3. d.kind = "start" => d.gone /\ rw[d.run] # Nil
      BY <1>0, <2>1, NilApart DEF CallFits
    <3> QED
      BY <2>1, <3>2, <3>3 DEF CallFits
  <2> QED
    BY <2>2, <2>3 DEF WireFits
<1>12. CampaignFits(rw, q, new, hs)
  BY <1>5, FreshPlan DEF new, b, r
<1> QED
  BY <1>8, <1>9, <1>10, <1>11, <1>12 DEF RunsFit, new, b, c, r

\* While the page waits for no start and no restore, nobody waits for one.
LEMMA NoneStarting ==
  ASSUME NEW rw, NEW wr, NEW p, NEW kp, NEW is, NEW hs, RunsFit(rw, wr, p, kp, is, hs),
         p.phase \notin {"starting", "reading"}
  PROVE  \A c \in wr : /\ c.gone \/ c.kind \in {"read", "stop"}
                       /\ Timely(c, is) => p.pending = Nil
<1> SUFFICES ASSUME NEW c \in wr, ~c.gone
             PROVE  c.kind \in {"read", "stop"} /\ (Timely(c, is) => p.pending = Nil)
  BY DEF Timely
<1>1. CallFits(c, rw, wr, p, is) /\ wr \subseteq Call
  BY DEF RunsFit, WireFits, ClientTyped
<1>2. c.kind \in {"start", "read", "restore", "stop"}
  BY <1>1 DEF Call
<1>3. c.kind \notin {"start", "restore"}
  BY <1>1 DEF CallFits, Timely, Behind
<1> QED
  BY <1>1, <1>2, <1>3 DEF CallFits

\* Asking for the next batch keeps the invariant (executeFresh).
LEMMA FreshStep ==
  ASSUME NEW wr, NEW p, NEW kp, RunsFit(rows, wr, p, kp, issued, history'),
         Unasked(rows, wr, p, issued, history'), p.shown = "running",
         rows' = rows, campaign' = p.plan, ExecuteFresh(p, wr)
  PROVE  CampaignSound'
<1> DEFINE r == Len(issued) + 1
<1>1. /\ r <= MaxStarts /\ issued' = Append(issued, BatchRequest(p.plan))
      /\ kept' = [run |-> p.runId, pending |-> r]
      /\ page' = [p EXCEPT !.phase = "starting", !.pending = r]
      /\ wire' = wr \union {OnWire("start", r, p)}
  BY DEF ExecuteFresh, Execute, Keep
<1>2. RunsFit(rows, wire', page', kept', issued', history')
  BY <1>1, FreshKeeps
<1>3. p \in Controller
  BY DEF RunsFit, ClientTyped
<1>4. page'.phase = "starting" /\ page'.shown = "running" /\ page'.plan = p.plan
  BY <1>1, <1>3 DEF Controller
<1>5. campaign' = page'.plan /\ CompletedFits(page') /\ SettledFits(page')
  BY <1>4 DEF CompletedFits, SettledFits
<1> QED
  BY <1>2, <1>5 DEF CampaignSound

\* Counting the run shown.
LEMMA CountKeeps ==
  ASSUME NEW p, NEW wr, NEW kp, NEW hs, NEW next, NEW q, Counts(p, wr, kp, hs, next),
         q \in Controller, q.plan = next,
         q.phase = p.phase, q.run = p.run, q.runId = p.runId, q.pending = p.pending
  PROVE  RunsFit(rows, wr, q, kp, issued, hs)
<1>1. /\ ClientTyped(rows, wr, p, kp, issued, history) /\ RowsFit(rows, issued)
      /\ PageFits(rows, p, issued) /\ WireFits(rows, wr, p, issued)
  BY DEF Counts, RunsFit
<1>2. hs \in History /\ hs.inSight = history.inSight
  BY CountBasics
<1>3. ClientTyped(rows, wr, q, kp, issued, hs) /\ PageFits(rows, q, issued) /\ WireFits(rows, wr, q, issued)
  BY <1>1, <1>2, View
<1>4. PlanFits(rows, q, issued, hs) /\ WorkFits(rows, q, issued, hs)
  BY CountPlan, CountWork
<1>5. hs.inSight => FiguresFit(rows, q, issued, hs)
  BY <1>2, CountFigures
<1> QED
  BY <1>1, <1>3, <1>4, <1>5 DEF RunsFit, CampaignFits

\* Restoring a run keeps the invariant (restore).
LEMMA TakeKeeps ==
  ASSUME NEW p, NEW run, NEW pending, NEW others,
         RunsFit(rows, others, p, [run |-> run, pending |-> pending], issued, history),
         CompletedFits(p), campaign = p.plan, rows' = rows, Take(p, run, pending, others)
  PROVE  CampaignSound'
<1> DEFINE kp   == [run |-> run, pending |-> pending]
           plan == CountRunItems(p.plan, p.run.id)
           next == [p EXCEPT !.plan = plan]
           doubtful == {"uncertain", "unavailable", "blocked", "absent"}
<1>1. /\ ClientTyped(rows, others, p, kp, issued, history) /\ RowsFit(rows, issued)
      /\ PageFits(rows, p, issued) /\ WireFits(rows, others, p, issued) /\ CampaignFits(rows, p, issued, history)
  BY DEF RunsFit
<1>2. p \in Controller /\ history \in History
  BY <1>1 DEF ClientTyped
<1>3. ASSUME page' \in Controller,
             page'.phase = p.phase, page'.run = p.run, page'.runId = p.runId,
             page'.pending = p.pending, page'.plan = p.plan,
             kept' = kp, wire' = others, issued' = issued, history' = history
      PROVE  RunsFit(rows', wire', page', kept', issued', history')
  <2>1. /\ ClientTyped(rows, others, page', kp, issued, history) /\ PageFits(rows, page', issued)
        /\ WireFits(rows, others, page', issued)
    BY <1>1, <1>2, <1>3, View
  <2>2. CampaignFits(rows, page', issued, history)
    BY <1>1, <1>3, PlanView
  <2> QED
    BY <1>1, <1>3, <2>1, <2>2 DEF RunsFit
<1>4. CASE p.plan # Nil /\ p.phase \in doubtful
  <2>1. /\ page' = [p EXCEPT !.auto = FALSE, !.shown = "paused"]
        /\ kept' = kp /\ wire' = others /\ campaign' = campaign /\ issued' = issued /\ history' = history
    <3>1. /\ page' = [p EXCEPT !.auto = FALSE, !.shown = "paused"]
          /\ Keep(run, pending) /\ wire' = others
          /\ UNCHANGED <<campaign, issued, history>>
      BY <1>4 DEF Take, Uncounted
    <3> QED
      BY <3>1 DEF Keep
  <2>2. /\ page' \in Controller /\ page'.phase = p.phase /\ page'.run = p.run /\ page'.runId = p.runId
        /\ page'.pending = p.pending /\ page'.plan = p.plan /\ page'.shown = "paused"
    BY <1>2, <2>1 DEF Controller
  <2>3. CompletedFits(page') /\ SettledFits(page') /\ campaign' = page'.plan
    BY <1>4, <2>1, <2>2 DEF CompletedFits, SettledFits
  <2> QED
    BY <1>3, <2>1, <2>2, <2>3 DEF CampaignSound
<1>5. CASE Uncounted(p) /\ p.run.status \in Settleable
  <2>1. ~(p.plan # Nil /\ p.phase \in doubtful)
    BY <1>5 DEF Uncounted
  <2>2. /\ campaign' = plan
        /\ history' = [history EXCEPT !.counted = Append(@, p.run.id)]
        /\ IF p.auto /\ Remaining(plan) /\ Continues(plan, p.run.id)
           THEN ExecuteFresh([next EXCEPT !.shown = "running"], others)
           ELSE /\ page' = [next EXCEPT !.shown = IF p.auto THEN Progress(plan, p.run.id) ELSE "paused",
                                        !.auto = FALSE]
                /\ kept' = kp /\ wire' = others /\ issued' = issued
    BY <1>5, <2>1 DEF Take, Keep
  <2>3. Counts(p, others, kp, history', plan)
    BY <1>5, <2>2 DEF Counts, Uncounted
  <2>4. plan \in Plan
    BY <2>3, CountQueue
  <2>5. plan.last = p.run.id /\ p.runId = p.run.id /\ p.runId \in Run /\ p.pending = Nil
    <3>1. PlanFits(rows, next, issued, history')
      BY <1>2, <2>3, CountPlan DEF Controller
    <3>2. p.plan \in Plan /\ p.run.id \in Nat /\ rows[p.run.id] \in Row /\ p.runId = p.run.id
          /\ p.runId \in Run /\ p.pending = Nil /\ PlanFits(rows, p, issued, history)
      BY <2>3, CountBasics
    <3>3. p.plan.retrying => p.plan.retry # <<>>
      BY <3>2 DEF PlanFits
    <3>4. plan.last = p.run.id
      BY <3>2, <3>3, CountChanges
    <3> QED
      BY <3>2, <3>4
  <2> HIDE DEF plan
  <2>6. CASE p.auto /\ Remaining(plan) /\ Continues(plan, p.run.id)
    <3> DEFINE q == [next EXCEPT !.shown = "running"]
    <3>1. ExecuteFresh(q, others)
      BY <2>2, <2>6
    <3>2. /\ q \in Controller /\ q.phase = p.phase /\ q.run = p.run /\ q.runId = p.runId
          /\ q.pending = p.pending /\ q.plan = plan /\ q.shown = "running"
      BY <1>2, <2>4 DEF Controller
    <3> HIDE DEF q
    <3>3. RunsFit(rows, others, q, kp, issued, history')
      BY <2>3, <3>2, CountKeeps
    <3>5. p.phase = "run"
      BY <1>5 DEF Uncounted
    <3>6. \A c \in others : c.gone \/ c.kind \in {"read", "stop"}
      BY <3>5, NoneStarting
    <3>7. Unasked(rows, others, q, issued, history')
      BY <2>4, <2>5, <3>2, <3>6, NilApart DEF Unasked
    <3> QED
      BY <2>2, <3>1, <3>2, <3>3, <3>7, FreshStep
  <2>7. CASE ~(p.auto /\ Remaining(plan) /\ Continues(plan, p.run.id))
    <3>1. /\ page' = [next EXCEPT !.shown = IF p.auto THEN Progress(plan, p.run.id) ELSE "paused",
                                  !.auto = FALSE]
          /\ kept' = kp /\ wire' = others /\ issued' = issued
      BY <2>2, <2>7
    <3>2. Progress(plan, p.run.id) \in {"running", "paused", "completed"}
      BY DEF Progress
    <3>3. /\ page' \in Controller /\ page'.phase = p.phase /\ page'.run = p.run /\ page'.runId = p.runId
          /\ page'.pending = p.pending /\ page'.plan = plan
          /\ page'.shown = IF p.auto THEN Progress(plan, p.run.id) ELSE "paused"
      BY <1>2, <2>4, <3>1, <3>2 DEF Controller
    <3>4. RunsFit(rows, others, page', kp, issued, history')
      BY <2>3, <3>3, CountKeeps
    <3>5. CompletedFits(page')
      BY <3>3 DEF CompletedFits, Progress
    <3>6. SettledFits(page')
      BY <2>5, <3>3 DEF SettledFits
    <3> QED
      BY <2>2, <3>1, <3>3, <3>4, <3>5, <3>6 DEF CampaignSound
  <2> QED
    BY <2>6, <2>7
<1>6. CASE Uncounted(p) /\ p.run.status \notin Settleable
  <2>1. ~(p.plan # Nil /\ p.phase \in doubtful)
    BY <1>6 DEF Uncounted
  <2>2. /\ page' = [p EXCEPT !.auto = FALSE, !.shown = "paused"] /\ campaign' = p.plan
        /\ kept' = kp /\ wire' = others /\ issued' = issued /\ history' = history
    BY <1>6, <2>1 DEF Take, Keep
  <2>3. /\ page' \in Controller /\ page'.phase = p.phase /\ page'.run = p.run /\ page'.runId = p.runId
        /\ page'.pending = p.pending /\ page'.plan = p.plan /\ page'.shown = "paused"
    BY <1>2, <2>2 DEF Controller
  <2>4. CompletedFits(page') /\ SettledFits(page') /\ campaign' = page'.plan
    BY <1>6, <2>2, <2>3 DEF CompletedFits, SettledFits
  <2> QED
    BY <1>3, <2>2, <2>3, <2>4 DEF CampaignSound
<1>7. CASE ~(p.plan # Nil /\ p.phase \in doubtful) /\ ~Uncounted(p)
  <2>1. /\ page' = p /\ kept' = kp /\ wire' = others
        /\ campaign' = campaign /\ issued' = issued /\ history' = history
    BY <1>7 DEF Take, Keep
  <2>2. SettledFits(p)
    BY <1>7 DEF SettledFits, Uncounted, Settleable, ActiveRun
  <2> QED
    BY <1>2, <1>3, <2>1, <2>2 DEF CampaignSound
<1> QED
  BY <1>4, <1>5, <1>6, <1>7

-----------------------------------------------------------------------------
(* Calls and rows.                                                             *)

\* Calls that nobody serves or answers any more may be left out.
LEMMA FewerCalls ==
  ASSUME NEW rw, NEW wr, NEW wn, NEW p, NEW kp, NEW is, NEW hs, RunsFit(rw, wr, p, kp, is, hs), wn \subseteq wr
  PROVE  RunsFit(rw, wn, p, kp, is, hs)
<1>1. /\ ClientTyped(rw, wr, p, kp, is, hs) /\ RowsFit(rw, is) /\ PageFits(rw, p, is)
      /\ WireFits(rw, wr, p, is) /\ CampaignFits(rw, p, is, hs)
  BY DEF RunsFit
<1>2. ClientTyped(rw, wn, p, kp, is, hs)
  BY <1>1 DEF ClientTyped
<1>3. ASSUME NEW c \in wn PROVE CallFits(c, rw, wn, p, is)
  <2>1. CallFits(c, rw, wr, p, is)
    BY <1>1, <1>3 DEF WireFits
  <2> QED
    BY <2>1 DEF CallFits
<1> QED
  BY <1>1, <1>2, <1>3 DEF RunsFit, WireFits

\* One more call on the wire.
LEMMA MoreCalls ==
  ASSUME NEW rw, NEW wr, NEW c \in Call, NEW p, NEW kp, NEW is, NEW hs, RunsFit(rw, wr, p, kp, is, hs),
         CallFits(c, rw, wr \union {c}, p, is),
         \A d \in wr : Timely(d, is) /\ d.kind \in {"start", "restore"} => ~Timely(c, is)
  PROVE  RunsFit(rw, wr \union {c}, p, kp, is, hs)
<1> DEFINE wn == wr \union {c}
<1>1. /\ ClientTyped(rw, wr, p, kp, is, hs) /\ RowsFit(rw, is) /\ PageFits(rw, p, is)
      /\ WireFits(rw, wr, p, is) /\ CampaignFits(rw, p, is, hs)
  BY DEF RunsFit
<1>2. ClientTyped(rw, wn, p, kp, is, hs)
  BY <1>1 DEF ClientTyped
<1>3. ASSUME NEW d \in wr PROVE CallFits(d, rw, wn, p, is)
  <2>1. CallFits(d, rw, wr, p, is)
    BY <1>1 DEF WireFits
  <2>2. Timely(d, is) /\ d.kind \in {"start", "restore"} => \A e \in wn : Timely(e, is) => e = d
    BY <2>1 DEF CallFits
  <2> QED
    BY <2>1, <2>2 DEF CallFits
<1>4. WireFits(rw, wn, p, is)
  BY <1>3 DEF WireFits
<1> QED
  BY <1>1, <1>2, <1>4 DEF RunsFit

\* What a run that was read as settled says stays true while active runs change.
LEMMA ReadStays ==
  ASSUME NEW rw, NEW rn, NEW r, NEW row, NEW x \in Run, NEW snapshot, rw \in [Run -> Row \union {Nil}],
         rn = [rw EXCEPT ![r] = row], row # Nil, rw[r] # Nil => rw[r].status \in ActiveRun,
         SnapshotTrue(snapshot, x, rw)
  PROVE  SnapshotTrue(snapshot, x, rn)
<1>1. CASE x = r
  <2>1. rn[x] = row
    BY <1>1
  <2> QED
    BY <1>1, <2>1 DEF SnapshotTrue
<1>2. CASE x # r
  <2>1. rn[x] = rw[x]
    BY <1>2
  <2> QED
    BY <2>1 DEF SnapshotTrue
<1> QED
  BY <1>1, <1>2

\* A run is made by the pending start, or an active one moves on.
LEMMA RowChange ==
  ASSUME NEW rw, NEW rn, NEW wr, NEW p, NEW kp, NEW is, NEW hs, NEW r \in Run, NEW row \in Row,
         RunsFit(rw, wr, p, kp, is, hs), rn = [rw EXCEPT ![r] = row],
         r <= Len(is), RowFits(row, is[r]),
         \/ rw[r] # Nil /\ rw[r].status \in ActiveRun
         \/ rw[r] = Nil /\ r = p.pending
  PROVE  RunsFit(rn, wr, p, kp, is, hs)
<1>1. /\ ClientTyped(rw, wr, p, kp, is, hs) /\ RowsFit(rw, is) /\ PageFits(rw, p, is)
      /\ WireFits(rw, wr, p, is) /\ CampaignFits(rw, p, is, hs)
  BY DEF RunsFit
<1>2. /\ rw \in [Run -> Row \union {Nil}] /\ wr \subseteq Call /\ p \in Controller /\ hs \in History
  BY <1>1 DEF ClientTyped
<1>3. row # Nil /\ Nil \notin Run
  BY NilApart
<1>4. /\ rn \in [Run -> Row \union {Nil}] /\ rn[r] = row
      /\ \A x \in Run : x # r => rn[x] = rw[x]
      /\ \A x \in Run : rw[x] # Nil => rn[x] # Nil
  BY <1>2, <1>3
<1>5. rw[r] # Nil => rw[r].status \in ActiveRun
  OBVIOUS
<1>6. ClientTyped(rn, wr, p, kp, is, hs)
  BY <1>1, <1>4 DEF ClientTyped
<1>7. RowsFit(rn, is)
  BY <1>1, <1>4 DEF RowsFit
<1>8. PageFits(rn, p, is)
  <2>1. p.runId \in Run \union {Nil}
    BY <1>2 DEF Controller
  <2>2. CASE p.run = Nil
    BY <1>1, <1>4, <2>1, <2>2 DEF PageFits, SnapshotTrue
  <2>3. CASE p.run # Nil
    <3>1. p.runId \in Nat /\ SnapshotTrue(p.run, p.runId, rw)
      <4>1. p.run \in Snapshot
        BY <1>2, <2>3 DEF Controller
      <4> QED
        BY <1>1, <2>3, <4>1 DEF PageFits, SnapshotTrue, Snapshot
    <3>2. p.runId \in Run
      BY <2>1, <3>1, NilApart
    <3>3. SnapshotTrue(p.run, p.runId, rn)
      BY <1>2, <1>3, <1>5, <3>1, <3>2, ReadStays
    <3> QED
      BY <1>1, <1>4, <2>1, <3>3 DEF PageFits
  <2> QED
    BY <2>2, <2>3
<1>9. ASSUME NEW c \in wr PROVE CallFits(c, rn, wr, p, is)
  <2>1. CallFits(c, rw, wr, p, is) /\ c.run \in Run
    BY <1>1, <1>2 DEF WireFits, Call
  <2>2. \A s : SnapshotTrue(s, c.run, rw) => SnapshotTrue(s, c.run, rn)
    BY <1>2, <1>3, <1>5, <2>1, ReadStays
  <2>3. rw[c.run] # Nil => rn[c.run] # Nil
    BY <1>4, <2>1
  <2>4. AnswerTrue(c, rw) => AnswerTrue(c, rn)
    BY <2>2 DEF AnswerTrue
  <2> QED
    BY <2>1, <2>2, <2>3, <2>4 DEF CallFits
<1>10. ASSUME p.plan # Nil
       PROVE  /\ PlanFits(rn, p, is, hs) /\ WorkFits(rn, p, is, hs)
              /\ hs.inSight => FiguresFit(rn, p, is, hs)
  <2>1. /\ PlanFits(rw, p, is, hs) /\ WorkFits(rw, p, is, hs)
        /\ hs.inSight => FiguresFit(rw, p, is, hs)
    BY <1>1, <1>10 DEF CampaignFits
  <2>2. \A x \in ToSet(hs.counted) : x \in Run
    BY <1>2 DEF History, ToSet
  <2>3. \A x \in ToSet(hs.counted) : rw[x] # Nil /\ rw[x].status \in Settleable
    BY <2>1 DEF PlanFits
  <2>4. \A x \in ToSet(hs.counted) : x # r /\ rn[x] = rw[x]
    BY <1>4, <1>5, <2>2, <2>3 DEF Settleable, ActiveRun
  <2>5. \A x \in ToSet(hs.counted) : \A m : /\ Unread(x, m, rn, is) = Unread(x, m, rw, is)
                                            /\ Covers(x, m, rn, is) = Covers(x, m, rw, is)
    BY <2>4 DEF Unread, Covers, EndsAs
  <2>6. PlanFits(rn, p, is, hs)
    <3>1. \A x \in Run : Made(x, rn, is, hs) => x \in ToSet(hs.counted) \union {p.pending, p.runId}
      <4> SUFFICES ASSUME NEW x \in Run, Made(x, rn, is, hs)
                   PROVE  x \in ToSet(hs.counted) \union {p.pending, p.runId}
        OBVIOUS
      <4>1. CASE x = r /\ rw[r] = Nil
        BY <4>1
      <4>2. CASE ~(x = r /\ rw[r] = Nil)
        <5>1. Made(x, rw, is, hs)
          BY <1>4, <4>2 DEF Made
        <5> QED
          BY <2>1, <5>1 DEF PlanFits
      <4> QED
        BY <4>1, <4>2
    <3>2. \A x \in ToSet(hs.counted) : /\ rn[x] # Nil /\ rn[x].status \in Settleable
                                       /\ hs.inSight => x > hs.before
      BY <2>1, <2>4 DEF PlanFits
    <3> QED
      BY <2>1, <3>1, <3>2 DEF PlanFits
  <2>7. WorkFits(rn, p, is, hs)
    <3> DEFINE done == {x \in ToSet(hs.counted) : x > hs.before}
    <3>1. /\ IsInjective(p.plan.retry) /\ \A m \in ToSet(p.plan.retry) : m < p.plan.offset
          /\ \A x \in done : \A m \in Selects(x, is) :
               m < p.plan.offset /\ (m \in ToSet(p.plan.retry) => Unread(x, m, rw, is))
          /\ \A x, y \in done : \A m \in Selects(x, is) \cap Selects(y, is) :
               x < y => is[y].retrying /\ Unread(x, m, rw, is)
      BY <2>1 DEF WorkFits
    <3>2. \A x \in done : \A m \in Selects(x, is) :
            m < p.plan.offset /\ (m \in ToSet(p.plan.retry) => Unread(x, m, rn, is))
      BY <2>5, <3>1
    <3>3. \A x, y \in done : \A m \in Selects(x, is) \cap Selects(y, is) :
            x < y => is[y].retrying /\ Unread(x, m, rn, is)
      BY <2>5, <3>1
    <3> QED
      BY <3>1, <3>2, <3>3 DEF WorkFits
  <2>8. ASSUME hs.inSight PROVE FiguresFit(rn, p, is, hs)
    <3>1. SpentBy(rn, ToSet(hs.counted)) = SpentBy(rw, ToSet(hs.counted))
      <4> DEFINE S == ToSet(hs.counted)
      <4>1. \A x \in S : rn[x] = rw[x]
        BY <2>4
      <4> HIDE DEF S
      <4>2. SpentBy(rn, S) = SpentBy(rw, S)
        BY ONLY <4>1, SpentSame
      <4> QED
        BY <4>2 DEF S
    <3>2. /\ IsInjective(hs.counted)
          /\ p.plan.calls = SpentBy(rw, ToSet(hs.counted)) /\ p.plan.calls <= p.plan.maxCalls
          /\ p.plan.offset <= p.plan.total /\ p.plan.unread >= Len(p.plan.retry)
          /\ p.plan.unread = Len(p.plan.retry) /\ p.plan.other = 0 =>
               \A m \in 0..p.plan.offset - 1 :
                 m \in ToSet(p.plan.retry) \/ \E x \in ToSet(hs.counted) : Covers(x, m, rw, is)
      BY <2>1, <2>8 DEF FiguresFit
    <3>3. p.plan.unread = Len(p.plan.retry) /\ p.plan.other = 0 =>
            \A m \in 0..p.plan.offset - 1 :
              m \in ToSet(p.plan.retry) \/ \E x \in ToSet(hs.counted) : Covers(x, m, rn, is)
      BY <2>5, <3>2
    <3> QED
      BY <3>1, <3>2, <3>3 DEF FiguresFit
  <2> QED
    BY <2>6, <2>7, <2>8
<1>11. CampaignFits(rn, p, is, hs)
  BY <1>10 DEF CampaignFits
<1> QED
  BY <1>6, <1>7, <1>8, <1>9, <1>11 DEF RunsFit, WireFits

-----------------------------------------------------------------------------
(* The buttons, the poll and the page loaded again.                            *)

\* What every part of the invariant says, by name.
LEMMA Shape ==
  ASSUME CampaignSound
  PROVE  /\ RunsFit(rows, wire, page, kept, issued, history)
         /\ ClientTyped(rows, wire, page, kept, issued, history) /\ RowsFit(rows, issued)
         /\ PageFits(rows, page, issued) /\ WireFits(rows, wire, page, issued)
         /\ CampaignFits(rows, page, issued, history)
         /\ rows \in [Run -> Row \union {Nil}] /\ wire \subseteq Call /\ page \in Controller
         /\ history \in History /\ issued \in Seq(Request)
         /\ kept = [run |-> page.runId, pending |-> page.pending]
         /\ campaign = page.plan /\ CompletedFits(page) /\ SettledFits(page)
<1>1. /\ RunsFit(rows, wire, page, kept, issued, history)
      /\ campaign = page.plan /\ CompletedFits(page) /\ SettledFits(page)
  BY DEF CampaignSound
<1>2. /\ ClientTyped(rows, wire, page, kept, issued, history) /\ RowsFit(rows, issued)
      /\ PageFits(rows, page, issued) /\ WireFits(rows, wire, page, issued)
      /\ CampaignFits(rows, page, issued, history)
  BY <1>1 DEF RunsFit
<1> QED
  BY <1>1, <1>2 DEF ClientTyped

\* The run shown is the run kept, and it was made.
LEMMA RunShown ==
  ASSUME CampaignSound, page.run # Nil
  PROVE  /\ page.run \in Snapshot /\ page.runId = page.run.id /\ page.runId \in Run
         /\ page.runId # Nil /\ rows[page.runId] # Nil
<1>1. page \in Controller /\ PageFits(rows, page, issued)
  BY Shape
<1>2. page.run \in Snapshot /\ page.runId \in Run \union {Nil}
  BY <1>1 DEF Controller
<1>3. page.run.id \in Nat
  BY <1>2 DEF Snapshot
<1>4. page.runId = page.run.id /\ rows[page.runId] # Nil
  BY <1>1 DEF PageFits, SnapshotTrue
<1> QED
  BY <1>2, <1>3, <1>4, NilApart

\* Only a start that is out or in doubt leaves a pending request.
LEMMA NothingPending ==
  ASSUME CampaignSound, page.phase \notin {"starting", "uncertain", "reading"}
  PROVE  page.pending = Nil
<1>1. PageFits(rows, page, issued)
  BY Shape
<1> QED
  BY <1>1 DEF PageFits

\* A new campaign begins with nothing counted.
LEMMA FirstPlan ==
  ASSUME NEW calls \in Allowed, NEW last \in Nat \union {Nil}
  PROVE  LET plan == NewPlan(calls, last)
         IN /\ plan \in Plan /\ plan.last = last /\ plan.retrying = FALSE /\ plan.retry = <<>>
            /\ plan.calls = 0 /\ plan.maxCalls \in Nat /\ plan.offset = 0 /\ plan.total \in Nat
            /\ plan.unread = 0
<1>1. calls \in Nat /\ Size \in Nat /\ <<>> \in Seq(Nat)
  BY TriageRunClientAssumption
<1> QED
  BY <1>1 DEF NewPlan, Plan

\* The button that starts a campaign.
LEMMA StartKeeps ==
  ASSUME CampaignSound, NEW calls \in Allowed, StartCampaign(calls)
  PROVE  CampaignSound'
<1> DEFINE last == IF page.run = Nil THEN Nil ELSE page.run.id
           plan == NewPlan(calls, last)
           p    == [page EXCEPT !.plan = plan, !.auto = TRUE, !.shown = "running"]
<1>1. /\ MayStart /\ campaign' = plan
      /\ history' = [before |-> Len(issued), counted |-> <<>>,
                     inSight |-> page.runId = Nil \/ page.run # Nil]
      /\ ExecuteFresh(p, wire) /\ rows' = rows
  BY DEF StartCampaign
<1>2. /\ ClientTyped(rows, wire, page, kept, issued, history) /\ RowsFit(rows, issued)
      /\ PageFits(rows, page, issued) /\ WireFits(rows, wire, page, issued) /\ page \in Controller
      /\ issued \in Seq(Request) /\ rows \in [Run -> Row \union {Nil}]
      /\ RunsFit(rows, wire, page, kept, issued, history)
  BY Shape
<1>3. last \in Nat \union {Nil} /\ (page.run # Nil => last = page.runId)
  BY RunShown DEF Snapshot
<1> HIDE DEF last
<1>4. /\ plan \in Plan /\ plan.last = last /\ plan.retrying = FALSE /\ plan.retry = <<>>
      /\ plan.calls = 0 /\ plan.maxCalls \in Nat /\ plan.offset = 0 /\ plan.total \in Nat
      /\ plan.unread = 0
  BY <1>3, FirstPlan
<1> HIDE DEF plan
<1>5. page.phase \notin {"starting", "reading", "stopping", "unavailable"} /\ page.pending = Nil
  <2>1. page.phase \notin {"starting", "reading", "stopping", "unavailable"}
    BY <1>1 DEF MayStart, Busy
  <2>2. page.phase = "uncertain" => page.pending = Nil
    BY <1>1 DEF MayStart, Uncertain
  <2> QED
    BY <2>1, <2>2, NothingPending
<1>6. /\ p \in Controller /\ p.plan = plan /\ p.shown = "running" /\ p.phase = page.phase
      /\ p.run = page.run /\ p.runId = page.runId /\ p.pending = page.pending
  BY <1>2, <1>4 DEF Controller
<1> HIDE DEF p
<1>7. /\ history' \in History /\ history'.before = Len(issued) /\ history'.counted = <<>>
      /\ ToSet(history'.counted) = {} /\ Len(issued) \in Nat
      /\ history'.inSight = (page.runId = Nil \/ page.run # Nil)
  <2>1. Len(issued) \in Nat /\ <<>> \in Seq(Run) /\ (page.runId = Nil \/ page.run # Nil) \in BOOLEAN
    BY <1>2
  <2>2. ToSet(<<>>) = {}
    BY DEF ToSet
  <2> QED
    BY <1>1, <2>1, <2>2 DEF History
<1>8. page.runId \in Run \union {Nil} /\ (page.runId # Nil => page.runId <= Len(issued))
  <2>1. page.runId \in Run \union {Nil}
    BY <1>2 DEF Controller
  <2> QED
    BY <1>2, <2>1 DEF PageFits, RowsFit
<1>9. \/ p.runId \in {Nil, p.plan.last}
      \/ ~history'.inSight /\ p.runId <= history'.before /\ history'.counted = <<>>
  BY <1>3, <1>4, <1>6, <1>7, <1>8
<1>10. PlanFits(rows, p, issued, history')
  <2>1. history'.before <= Len(issued)
    BY <1>7
  <2>2. p.plan.last # Nil => p.plan.last <= history'.before
    BY <1>3, <1>4, <1>6, <1>7, <1>8, RunShown DEF last
  <2>3. \A r \in Run : ~Made(r, rows, issued, history')
    BY <1>7 DEF Made
  <2> QED
    BY <1>4, <1>5, <1>6, <1>7, <1>9, <2>1, <2>2, <2>3 DEF PlanFits
<1>11. WorkFits(rows, p, issued, history')
  <2>1. IsInjective(<<>>) /\ ToSet(<<>>) = {}
    BY DEF IsInjective, ToSet
  <2> QED
    BY <1>4, <1>6, <1>7, <2>1 DEF WorkFits
<1>12. FiguresFit(rows, p, issued, history')
  <2>1. IsInjective(<<>>) /\ Len(<<>>) = 0
    BY DEF IsInjective
  <2>2. SpentBy(rows, {}) = 0
    BY SpentNone
  <2>3. p.plan.calls = SpentBy(rows, ToSet(history'.counted)) /\ p.plan.calls <= p.plan.maxCalls
    <3>1. SpentBy(rows, ToSet(history'.counted)) = 0
      BY ONLY <1>7, <2>2
    <3>2. p.plan.calls = 0 /\ p.plan.maxCalls \in Nat
      BY <1>4, <1>6
    <3> QED
      BY <3>1, <3>2
  <2>4. p.plan.offset <= p.plan.total /\ p.plan.unread >= Len(p.plan.retry)
    BY <1>4, <1>6, <2>1
  <2>5. 0..p.plan.offset - 1 = {}
    BY <1>4, <1>6
  <2> QED
    BY <1>7, <2>1, <2>3, <2>4, <2>5 DEF FiguresFit
<1>13. RunsFit(rows, wire, p, kept, issued, history')
  <2>1. ClientTyped(rows, wire, p, kept, issued, history') /\ PageFits(rows, p, issued) /\ WireFits(rows, wire, p, issued)
    BY <1>2, <1>6, <1>7, View
  <2> QED
    BY <1>2, <1>10, <1>11, <1>12, <2>1 DEF RunsFit, CampaignFits
<1>15. \A c \in wire : c.gone \/ c.kind \in {"read", "stop"}
  BY <1>2, <1>5, NoneStarting
<1>16. Unasked(rows, wire, p, issued, history')
  BY <1>4, <1>5, <1>6, <1>8, <1>9, <1>15, NilApart DEF Unasked
<1> QED
  BY <1>1, <1>6, <1>13, <1>16, FreshStep

\* The plan goes on with what could not be read, or leaves that out.
LEMMA ContinueKeeps ==
  ASSUME CampaignSound, MayContinue, NEW plan, ContinueWith(plan),
         \/ plan = page.plan
         \/ plan = [page.plan EXCEPT !.retry = <<>>, !.retrying = FALSE]
  PROVE  CampaignSound'
<1> DEFINE next == [plan EXCEPT !.retrying = plan.retry # <<>>]
           p    == [page EXCEPT !.plan = next, !.auto = TRUE, !.shown = "running"]
<1>1. /\ campaign' = next /\ ExecuteFresh(p, wire) /\ rows' = rows /\ history' = history
  BY DEF ContinueWith
<1>2. /\ ClientTyped(rows, wire, page, kept, issued, history) /\ RowsFit(rows, issued)
      /\ PageFits(rows, page, issued) /\ WireFits(rows, wire, page, issued) /\ page \in Controller
      /\ RunsFit(rows, wire, page, kept, issued, history) /\ history \in History
      /\ SettledFits(page) /\ CampaignFits(rows, page, issued, history)
  BY Shape
<1>3. /\ page.plan # Nil /\ page.phase = "run" /\ page.run # Nil /\ page.run.status \in Settleable
  BY DEF MayContinue
<1>4. page.plan \in Plan /\ page.runId = page.plan.last /\ page.runId \in Run /\ page.pending = Nil
  <2>1. page.plan \in Plan
    BY <1>2, <1>3 DEF Controller
  <2>2. page.plan.last = page.run.id
    BY <1>2, <1>3 DEF SettledFits
  <2>3. page.pending = Nil
    BY <1>3, NothingPending
  <2> QED
    BY <1>3, <2>1, <2>2, <2>3, RunShown
<1>5. /\ next \in Plan /\ next.offset = page.plan.offset /\ next.last = page.plan.last
      /\ next.calls = page.plan.calls /\ next.maxCalls = page.plan.maxCalls
      /\ next.total = page.plan.total /\ next.unread = page.plan.unread /\ next.other = page.plan.other
      /\ next.retrying = (next.retry # <<>>)
      /\ next.retry = page.plan.retry \/ next.retry = <<>>
  <2>1. <<>> \in Seq(Nat) /\ (plan.retry # <<>>) \in BOOLEAN
    OBVIOUS
  <2>2. CASE plan = page.plan
    BY <1>4, <2>1, <2>2 DEF Plan
  <2>3. CASE plan = [page.plan EXCEPT !.retry = <<>>, !.retrying = FALSE]
    BY <1>4, <2>1, <2>3 DEF Plan
  <2> QED
    BY <2>2, <2>3
<1> HIDE DEF next
<1>6. /\ p \in Controller /\ p.plan = next /\ p.shown = "running" /\ p.phase = page.phase
      /\ p.run = page.run /\ p.runId = page.runId /\ p.pending = page.pending
  BY <1>2, <1>5 DEF Controller
<1> HIDE DEF p
<1>7. PlanFits(rows, page, issued, history) /\ WorkFits(rows, page, issued, history)
      /\ (history.inSight => FiguresFit(rows, page, issued, history))
  BY <1>2, <1>3 DEF CampaignFits
<1>8. PlanFits(rows, p, issued, history)
  <2>1. history.before <= Len(issued)
    BY <1>7 DEF PlanFits
  <2>2. p.plan.retrying => p.plan.retry # <<>>
    BY <1>5, <1>6
  <2>3. p.plan.last # Nil => p.plan.last \in ToSet(history.counted) \/ p.plan.last <= history.before
    BY <1>5, <1>6, <1>7 DEF PlanFits
  <2>4. \A r \in Run : Made(r, rows, issued, history)
                         => r \in ToSet(history.counted) \union {p.pending, p.runId}
    BY <1>6, <1>7 DEF PlanFits
  <2>5. \A r \in ToSet(history.counted) : /\ rows[r] # Nil /\ rows[r].status \in Settleable
                                          /\ history.inSight => r > history.before
    BY <1>7 DEF PlanFits
  <2> QED
    BY <1>4, <1>5, <1>6, <2>1, <2>2, <2>3, <2>4, <2>5 DEF PlanFits
<1>9. IsInjective(<<>>) /\ ToSet(<<>>) = {} /\ Len(<<>>) = 0
  BY DEF IsInjective, ToSet
<1>10. IsInjective(next.retry) /\ ToSet(next.retry) \subseteq ToSet(page.plan.retry)
  <2>1. IsInjective(page.plan.retry)
    BY <1>7 DEF WorkFits
  <2> QED
    BY <1>5, <1>9, <2>1
<1>11. WorkFits(rows, p, issued, history)
  <2> DEFINE done == {r \in ToSet(history.counted) : r > history.before}
  <2>1. /\ \A m \in ToSet(page.plan.retry) : m < page.plan.offset
        /\ \A r \in done : \A m \in Selects(r, issued) :
             m < page.plan.offset /\ (m \in ToSet(page.plan.retry) => Unread(r, m, rows, issued))
        /\ \A q, r \in done : \A m \in Selects(q, issued) \cap Selects(r, issued) :
             q < r => issued[r].retrying /\ Unread(q, m, rows, issued)
    BY <1>7 DEF WorkFits
  <2>2. \A m \in ToSet(next.retry) : m < next.offset
    BY <1>5, <1>10, <2>1
  <2>3. \A r \in done : \A m \in Selects(r, issued) :
          m < next.offset /\ (m \in ToSet(next.retry) => Unread(r, m, rows, issued))
    BY <1>5, <1>10, <2>1
  <2> QED
    BY <1>6, <1>10, <2>1, <2>2, <2>3 DEF WorkFits
<1>12. ASSUME history.inSight PROVE FiguresFit(rows, p, issued, history)
  <2>1. FiguresFit(rows, page, issued, history)
    BY <1>7, <1>12
  <2>2. CASE next.retry = page.plan.retry
    <3>1. /\ IsInjective(history.counted)
          /\ page.plan.calls = SpentBy(rows, ToSet(history.counted)) /\ page.plan.calls <= page.plan.maxCalls
          /\ page.plan.offset <= page.plan.total
          /\ page.plan.unread >= Len(page.plan.retry)
          /\ page.plan.unread = Len(page.plan.retry) /\ page.plan.other = 0 =>
               \A m \in 0..page.plan.offset - 1 :
                 m \in ToSet(page.plan.retry)
                   \/ \E r \in ToSet(history.counted) : Covers(r, m, rows, issued)
      BY <2>1 DEF FiguresFit
    <3> QED
      BY <1>5, <1>6, <2>2, <3>1 DEF FiguresFit
  <2>3. CASE next.retry = <<>> /\ page.plan.retry # <<>>
    <3>1. /\ IsInjective(history.counted)
          /\ page.plan.calls = SpentBy(rows, ToSet(history.counted)) /\ page.plan.calls <= page.plan.maxCalls
          /\ page.plan.offset <= page.plan.total
          /\ page.plan.unread >= Len(page.plan.retry)
      BY <2>1 DEF FiguresFit
    <3>2. page.plan.retry \in Seq(Nat) /\ page.plan.unread \in Int
      BY <1>4 DEF Plan
    <3>3. Len(page.plan.retry) >= 1 /\ Len(page.plan.retry) \in Nat
      BY <2>3, <3>2, QueueTail
    <3>4. p.plan.unread >= Len(p.plan.retry) /\ p.plan.unread # Len(p.plan.retry)
      BY <1>5, <1>6, <1>9, <2>3, <3>1, <3>2, <3>3
    <3> QED
      BY <1>5, <1>6, <3>1, <3>4 DEF FiguresFit
  <2> QED
    BY <1>5, <2>2, <2>3
<1>13. RunsFit(rows, wire, p, kept, issued, history')
  <2>1. ClientTyped(rows, wire, p, kept, issued, history) /\ PageFits(rows, p, issued) /\ WireFits(rows, wire, p, issued)
    BY <1>2, <1>6, View
  <2> QED
    BY <1>1, <1>2, <1>8, <1>11, <1>12, <2>1 DEF RunsFit, CampaignFits
<1>15. \A c \in wire : c.gone \/ c.kind \in {"read", "stop"}
  BY <1>2, <1>3, NoneStarting
<1>16. Unasked(rows, wire, p, issued, history')
  BY <1>4, <1>5, <1>6, <1>15, NilApart DEF Unasked
<1> QED
  BY <1>1, <1>6, <1>13, <1>16, FreshStep

\* The button that forgets the campaign.
LEMMA ResetKeeps ==
  ASSUME CampaignSound, ResetCampaign
  PROVE  CampaignSound'
<1>1. /\ page' = [page EXCEPT !.plan = Nil, !.auto = FALSE, !.shown = Nil] /\ campaign' = Nil
      /\ rows' = rows /\ wire' = wire /\ kept' = kept /\ issued' = issued /\ history' = history
  BY DEF ResetCampaign
<1>2. /\ ClientTyped(rows, wire, page, kept, issued, history) /\ RowsFit(rows, issued)
      /\ PageFits(rows, page, issued) /\ WireFits(rows, wire, page, issued) /\ page \in Controller
      /\ history \in History
  BY Shape
<1>3. /\ page' \in Controller /\ page'.plan = Nil /\ page'.phase = page.phase /\ page'.run = page.run
      /\ page'.runId = page.runId /\ page'.pending = page.pending
  BY <1>1, <1>2 DEF Controller
<1>4. /\ ClientTyped(rows, wire, page', kept, issued, history) /\ PageFits(rows, page', issued)
      /\ WireFits(rows, wire, page', issued)
  BY <1>2, <1>3, View
<1>5. CampaignFits(rows, page', issued, history) /\ CompletedFits(page') /\ SettledFits(page')
  BY <1>3 DEF CampaignFits, CompletedFits, SettledFits
<1> QED
  BY <1>1, <1>2, <1>3, <1>4, <1>5 DEF CampaignSound, RunsFit

\* The shape of a call just sent.
LEMMA Sent ==
  ASSUME NEW kind \in {"start", "read", "restore", "stop"}, NEW r \in Run, NEW p,
         p.run \in Snapshot \union {Nil}, p.runId \in Run \union {Nil}, issued \in Seq(Request)
  PROVE  LET c == OnWire(kind, r, p)
         IN /\ c \in Call /\ c.kind = kind /\ c.run = r /\ c.before = p.run /\ c.from = p.runId
            /\ c.phase = "sent" /\ ~c.gone /\ c.after = Len(issued) /\ ~Behind(c, issued)
<1>1. Len(issued) \in Nat /\ ~(Len(issued) < Len(issued))
  OBVIOUS
<1> QED
  BY <1>1 DEF OnWire, Call, Behind

\* The button that goes on after a pause.
LEMMA ResumeKeeps ==
  ASSUME CampaignSound, Resume
  PROVE  CampaignSound'
<1> DEFINE c == OnWire("start", page.pending, page)
<1>1. /\ page.phase = "uncertain" /\ page.pending # Nil
      /\ kept' = [run |-> page.runId, pending |-> page.pending]
      /\ page' = [page EXCEPT !.phase = "starting", !.pending = page.pending]
      /\ wire' = wire \union {c}
      /\ rows' = rows /\ campaign' = campaign /\ issued' = issued /\ history' = history
  BY DEF Resume, Uncertain, Execute, Keep
<1>2. /\ ClientTyped(rows, wire, page, kept, issued, history) /\ RowsFit(rows, issued)
      /\ PageFits(rows, page, issued) /\ WireFits(rows, wire, page, issued) /\ page \in Controller
      /\ CampaignFits(rows, page, issued, history) /\ CompletedFits(page) /\ campaign = page.plan
      /\ RunsFit(rows, wire, page, kept, issued, history)
      /\ kept = [run |-> page.runId, pending |-> page.pending] /\ issued \in Seq(Request)
  BY Shape
<1>3. /\ page' \in Controller /\ page'.phase = "starting" /\ page'.run = page.run
      /\ page'.runId = page.runId /\ page'.pending = page.pending /\ page'.plan = page.plan
      /\ page'.shown = page.shown
  BY <1>1, <1>2 DEF Controller, Phase
<1>4. page.pending \in Run /\ page.run \in Snapshot \union {Nil} /\ page.runId \in Run \union {Nil}
  BY <1>1, <1>2 DEF Controller
<1>5. /\ c \in Call /\ c.kind = "start" /\ c.run = page.pending /\ c.before = page.run
      /\ c.from = page.runId /\ c.phase = "sent" /\ ~c.gone /\ c.after = Len(issued)
  BY <1>2, <1>4, Sent
<1> HIDE DEF c
<1>6. \A d \in wire : ~Timely(d, issued)
  BY <1>1, <1>2, NoneStarting
<1>7. ClientTyped(rows, wire', page', kept', issued, history)
  BY <1>1, <1>2, <1>3, <1>5 DEF ClientTyped
<1>8. PageFits(rows, page', issued)
  BY <1>2, <1>3 DEF PageFits
<1>9. WireFits(rows, wire', page', issued)
  <2>1. CallFits(c, rows, wire', page', issued)
    <3>1. Len(issued) <= Len(issued)
      BY <1>2
    <3> QED
      BY <1>1, <1>3, <1>5, <1>6, <3>1 DEF CallFits, AnswerTrue
  <2>2. ASSUME NEW d \in wire PROVE CallFits(d, rows, wire', page', issued)
    <3>1. CallFits(d, rows, wire, page, issued) /\ ~Timely(d, issued)
      BY <1>2, <1>6 DEF WireFits
    <3> QED
      BY <1>3, <3>1 DEF CallFits
  <2> QED
    BY <1>1, <2>1, <2>2 DEF WireFits
<1>10. CampaignFits(rows, page', issued, history)
  BY <1>2, <1>3, PlanView
<1>11. CompletedFits(page') /\ SettledFits(page') /\ campaign' = page'.plan
  BY <1>1, <1>2, <1>3 DEF CompletedFits, SettledFits
<1>12. RunsFit(rows', wire', page', kept', issued', history')
  BY <1>1, <1>2, <1>7, <1>8, <1>9, <1>10 DEF RunsFit
<1> QED
  BY <1>11, <1>12 DEF CampaignSound

\* A run that is kept is asked about while no start or restore is under way.
LEMMA AskKeeps ==
  ASSUME CampaignSound, page.phase \notin {"starting", "reading"}, page.pending = Nil, page.runId # Nil,
         NEW kind \in {"read", "stop"}, wire' = wire \union {OnWire(kind, page.runId, page)},
         page' \in Controller, page'.run = page.run, page'.runId = page.runId, page'.pending = Nil,
         page'.plan = page.plan, page'.phase = page.phase \/ page'.phase # "run",
         page'.shown = page.shown \/ page'.shown = "paused",
         UNCHANGED <<rows, kept, campaign, issued, history>>
  PROVE  CampaignSound'
<1> DEFINE c == OnWire(kind, page.runId, page)
<1>1. /\ ClientTyped(rows, wire, page, kept, issued, history) /\ RowsFit(rows, issued)
      /\ PageFits(rows, page, issued) /\ WireFits(rows, wire, page, issued) /\ page \in Controller
      /\ CampaignFits(rows, page, issued, history) /\ CompletedFits(page) /\ campaign = page.plan
      /\ SettledFits(page) /\ issued \in Seq(Request)
  BY Shape
<1>2. /\ page.runId \in Run /\ page.run \in Snapshot \union {Nil} /\ rows[page.runId] # Nil
      /\ SnapshotTrue(page.run, page.runId, rows)
  BY <1>1 DEF Controller, PageFits
<1>3. /\ c \in Call /\ c.kind = kind /\ c.run = page.runId /\ c.before = page.run
      /\ c.phase = "sent" /\ ~c.gone /\ c.after = Len(issued)
  BY <1>1, <1>2, Sent
<1> HIDE DEF c
<1>4. ClientTyped(rows, wire', page', kept, issued, history)
  BY <1>1, <1>3 DEF ClientTyped, c
<1>5. PageFits(rows, page', issued)
  BY <1>1, NilApart DEF PageFits
<1>6. WireFits(rows, wire', page', issued)
  <2>1. CallFits(c, rows, wire', page', issued)
    <3>1. Len(issued) <= Len(issued)
      BY <1>1
    <3> QED
      BY <1>2, <1>3, <3>1 DEF CallFits, AnswerTrue
  <2>2. ASSUME NEW d \in wire PROVE CallFits(d, rows, wire', page', issued)
    <3>1. CallFits(d, rows, wire, page, issued)
      BY <1>1 DEF WireFits
    <3>2. Timely(d, issued) => d.kind \notin {"start", "restore"}
      BY <3>1 DEF CallFits
    <3> QED
      BY <3>1, <3>2 DEF CallFits
  <2> QED
    BY <2>1, <2>2 DEF WireFits, c
<1>7. CampaignFits(rows, page', issued, history)
  BY <1>1, PlanView
<1>8. CompletedFits(page') /\ SettledFits(page')
  BY <1>1 DEF CompletedFits, SettledFits
<1> QED
  BY <1>1, <1>4, <1>5, <1>6, <1>7, <1>8 DEF CampaignSound, RunsFit

\* The button that reads the run again.
LEMMA ReadKeeps ==
  ASSUME CampaignSound, ReadRun
  PROVE  CampaignSound'
<1>1. /\ page.phase \notin {"starting", "reading"} /\ page.runId # Nil /\ page.pending = Nil
      /\ page' = [page EXCEPT !.phase = "reading"]
      /\ wire' = wire \union {OnWire("read", page.runId, page)}
      /\ UNCHANGED <<rows, kept, campaign, issued, history>>
  BY DEF ReadRun, MayRead, Busy
<1>2. page \in Controller
  BY Shape
<1>3. /\ page' \in Controller /\ page'.run = page.run /\ page'.runId = page.runId /\ page'.pending = Nil
      /\ page'.plan = page.plan /\ page'.phase = "reading" /\ page'.shown = page.shown
  BY <1>1, <1>2 DEF Controller, Phase
<1> QED
  BY <1>1, <1>3, AskKeeps

\* The poll of a run that is not over.
LEMMA PollKeeps ==
  ASSUME CampaignSound, Poll
  PROVE  CampaignSound'
<1>1. /\ page.phase = "run" /\ page.run # Nil /\ page.pending = Nil
      /\ wire' = wire \union {OnWire("read", page.run.id, page)}
      /\ UNCHANGED <<rows, page, kept, campaign, issued, history>>
  BY DEF Poll, ShowsActive
<1>2. page \in Controller /\ page.runId = page.run.id /\ page.runId # Nil
  BY <1>1, Shape, RunShown
<1> QED
  BY <1>1, <1>2, AskKeeps

\* The button that stops the run.
LEMMA StopKeeps ==
  ASSUME CampaignSound, StopBatch
  PROVE  CampaignSound'
<1>1. /\ page.phase \notin {"starting", "reading", "stopping"} /\ page.run # Nil
      /\ page.phase = "uncertain" => page.pending = Nil
      /\ page' = [page EXCEPT !.phase = "stopping", !.runId = page.run.id, !.pending = Nil, !.auto = FALSE,
                              !.shown = IF @ = Nil THEN @ ELSE "paused"]
      /\ wire' = wire \union {OnWire("stop", page.run.id, page)}
      /\ UNCHANGED <<rows, kept, campaign, issued, history>>
  BY DEF StopBatch, Busy, ShowsActive, Uncertain
<1>2. page \in Controller /\ page.runId = page.run.id /\ page.runId # Nil /\ page.runId \in Run
  BY <1>1, Shape, RunShown
<1>3. page.pending = Nil
  BY <1>1, NothingPending
<1>4. /\ page' \in Controller /\ page'.run = page.run /\ page'.runId = page.runId /\ page'.pending = Nil
      /\ page'.plan = page.plan /\ page'.phase = "stopping"
      /\ page'.shown = page.shown \/ page'.shown = "paused"
  BY <1>1, <1>2 DEF Controller, Phase
<1> QED
  BY <1>1, <1>2, <1>3, <1>4, AskKeeps

\* A page loaded again keeps nothing but what is stored.
LEMMA ReloadKeeps ==
  ASSUME CampaignSound, ReloadPage
  PROVE  CampaignSound'
<1> DEFINE served == {[c EXCEPT !.gone = TRUE] : c \in {d \in wire : d.kind \in {"start", "stop"} /\ d.phase = "sent"}}
           fresh(phase) == [phase |-> phase, run |-> Nil, runId |-> kept.run, pending |-> kept.pending,
                            reason |-> Nil, auto |-> FALSE, plan |-> campaign,
                            shown |-> IF campaign = Nil THEN Nil ELSE "paused"]
           restore == OnWire("restore", kept.run, fresh("reading"))
<1>1. UNCHANGED <<rows, kept, campaign, issued, history>>
  BY DEF ReloadPage
<1>2. \/ /\ kept.run = Nil /\ wire' = served
         /\ page' = fresh(IF kept.pending = Nil THEN "idle" ELSE "uncertain")
      \/ kept.run # Nil /\ page' = fresh("reading") /\ wire' = served \union {restore}
  BY DEF ReloadPage
<1>3. /\ ClientTyped(rows, wire, page, kept, issued, history) /\ RowsFit(rows, issued)
      /\ PageFits(rows, page, issued) /\ WireFits(rows, wire, page, issued) /\ page \in Controller
      /\ CampaignFits(rows, page, issued, history) /\ campaign = page.plan /\ wire \subseteq Call
      /\ kept = [run |-> page.runId, pending |-> page.pending] /\ issued \in Seq(Request)
  BY Shape
<1>4. /\ page.runId \in Run \union {Nil} /\ page.pending \in Run \union {Nil} /\ page.plan \in Plan \union {Nil}
      /\ kept.run = page.runId /\ kept.pending = page.pending
  BY <1>3 DEF Controller
<1>5. /\ page' \in Controller /\ page'.run = Nil /\ page'.runId = page.runId
      /\ page'.pending = page.pending /\ page'.plan = page.plan
      /\ page'.phase # "run"
      /\ page'.plan # Nil => page'.shown # "completed"
      /\ page'.pending # Nil => page'.phase \in {"uncertain", "reading"}
      /\ page.runId # Nil => page'.phase = "reading"
  <2>1. PICK phase \in {"idle", "uncertain", "reading"} :
          /\ page' = fresh(phase)
          /\ page.pending # Nil => phase # "idle"
          /\ page.runId # Nil => phase = "reading"
    BY <1>2, <1>4
  <2>2. /\ page'.phase = phase /\ page'.run = Nil /\ page'.runId = page.runId
        /\ page'.pending = page.pending /\ page'.plan = page.plan
        /\ page'.shown = IF page.plan = Nil THEN Nil ELSE "paused"
    BY <1>3, <1>4, <2>1
  <2>3. phase \in Phase /\ (IF campaign = Nil THEN Nil ELSE "paused") \in {Nil, "running", "paused", "completed"}
    BY DEF Phase
  <2>4. fresh(phase) \in Controller
    BY <1>3, <1>4, <2>3 DEF Controller
  <2>5. page'.plan # Nil => page'.shown # "completed"
    BY <2>2
  <2> QED
    BY <2>1, <2>2, <2>4, <2>5
<1>6. ASSUME NEW c \in served
      PROVE  /\ c \in Call /\ c.gone /\ c.phase = "sent" /\ c.kind \in {"start", "stop"}
             /\ c.kind = "start" => c.run = page.pending \/ rows[c.run] # Nil
             /\ c.kind # "start" => rows[c.run] # Nil
             /\ c.after <= Len(issued) /\ ~Timely(c, issued)
  <2>1. PICK d \in wire : d.kind \in {"start", "stop"} /\ d.phase = "sent" /\ c = [d EXCEPT !.gone = TRUE]
    BY <1>6
  <2>2. d \in Call /\ CallFits(d, rows, wire, page, issued)
    BY <1>3 DEF WireFits
  <2>3. /\ c \in Call /\ c.kind = d.kind /\ c.phase = d.phase /\ c.run = d.run /\ c.gone
        /\ c.after = d.after
    BY <2>1, <2>2 DEF Call
  <2> QED
    BY <2>1, <2>2, <2>3 DEF CallFits, Timely
<1>7. page.runId # Nil => /\ restore \in Call /\ restore.kind = "restore" /\ restore.run = page.runId
                          /\ restore.phase = "sent" /\ ~restore.gone
                          /\ restore.after = Len(issued) /\ Len(issued) <= Len(issued)
  BY <1>3, <1>4 DEF OnWire, Call
<1> HIDE DEF served, restore, fresh
<1>8. ASSUME NEW c \in wire'
      PROVE  c \in Call /\ CallFits(c, rows, wire', page', issued)
  <2>1. CASE c \in served
    BY <1>5, <1>6, <2>1 DEF CallFits
  <2>2. CASE c = restore /\ page.runId # Nil
    <3>1. \A d \in wire' : Timely(d, issued) => d = c
      BY <1>2, <1>4, <1>6, <2>2
    <3>2. rows[c.run] # Nil
      BY <1>3, <1>7, <2>2 DEF PageFits
    <3> QED
      BY <1>5, <1>7, <2>2, <3>1, <3>2 DEF CallFits, AnswerTrue
  <2> QED
    BY <1>2, <1>4, <1>8, <2>1, <2>2
<1>9. ClientTyped(rows, wire', page', kept, issued, history)
  BY <1>3, <1>5, <1>8 DEF ClientTyped
<1>10. PageFits(rows, page', issued)
  BY <1>3, <1>5 DEF PageFits, SnapshotTrue
<1>11. WireFits(rows, wire', page', issued)
  BY <1>8 DEF WireFits
<1>12. CampaignFits(rows, page', issued, history)
  BY <1>3, <1>5, PlanView
<1>13. CompletedFits(page') /\ SettledFits(page') /\ campaign' = page'.plan
  BY <1>1, <1>3, <1>5 DEF CompletedFits, SettledFits
<1> QED
  BY <1>1, <1>3, <1>9, <1>10, <1>11, <1>12, <1>13 DEF CampaignSound, RunsFit

-----------------------------------------------------------------------------
(* The server serves a call, and a run ends.                                   *)

\* A call is answered, unless nobody waits for it.
LEMMA ReplyKeeps ==
  ASSUME CampaignSound, NEW c \in wire, NEW answer \in Answer, c.phase = "sent",
         RunsFit(rows', wire \ {c}, page, kept, issued, history),
         rows[c.run] # Nil => rows'[c.run] # Nil,
         \A s : SnapshotTrue(s, c.run, rows) => SnapshotTrue(s, c.run, rows'),
         (answer.is = "found") = (answer.run # Nil), SnapshotTrue(answer.run, c.run, rows'),
         c.kind = "start" /\ ~c.gone =>
           answer.is \in {"found", "run_in_progress", "stale_worklist"},
         c.kind # "start" => answer.is \in {"found", "absent", "unavailable"},
         c.kind = "stop" => answer.is = "found",
         Reply(c, answer), UNCHANGED <<page, kept, campaign, issued, history>>
  PROVE  CampaignSound'
<1> DEFINE others == wire \ {c}
           back   == [c EXCEPT !.phase = "back", !.answer = answer]
<1>1. /\ ClientTyped(rows, wire, page, kept, issued, history) /\ WireFits(rows, wire, page, issued)
      /\ wire \subseteq Call /\ CompletedFits(page) /\ SettledFits(page) /\ campaign = page.plan
  BY Shape
<1>2. wire' = others \union IF c.gone THEN {} ELSE {back}
  BY DEF Reply
<1>3. RunsFit(rows', wire', page, kept, issued, history)
  <2>1. CASE c.gone
    <3>1. wire' = others
      BY <1>2, <2>1
    <3> QED
      BY <3>1
  <2>2. CASE ~c.gone
    <3>1. wire' = others \union {back}
      BY <1>2, <2>2
    <3>2. CallFits(c, rows, wire, page, issued) /\ c \in Call
      BY <1>1 DEF WireFits
    <3>3. /\ back \in Call /\ back.kind = c.kind /\ back.run = c.run /\ back.before = c.before
          /\ back.from = c.from /\ back.phase = "back" /\ back.answer = answer /\ ~back.gone
          /\ back.after = c.after /\ Timely(back, issued) = Timely(c, issued)
      BY <2>2, <3>2 DEF Call, Timely, Behind
    <3> HIDE DEF back
    <3>5. AnswerTrue(back, rows')
      BY <3>3 DEF AnswerTrue
    <3>6. c.kind \in {"start", "restore"} /\ Timely(c, issued) =>
            \A d \in others \union {back} : Timely(d, issued) => d = back
      BY <3>2 DEF CallFits
    <3>8. CallFits(back, rows', others \union {back}, page, issued)
      BY <2>2, <3>2, <3>3, <3>5, <3>6 DEF CallFits
    <3>9. \A d \in others : Timely(d, issued) /\ d.kind \in {"start", "restore"} => ~Timely(back, issued)
      <4> SUFFICES ASSUME NEW d \in others, Timely(d, issued), d.kind \in {"start", "restore"},
                          Timely(back, issued)
                   PROVE  FALSE
        OBVIOUS
      <4>1. CallFits(d, rows, wire, page, issued)
        BY <1>1 DEF WireFits
      <4>2. c = d
        BY <3>3, <4>1 DEF CallFits
      <4> QED
        BY <4>2
    <3> QED
      BY <3>1, <3>3, <3>8, <3>9, MoreCalls
  <2> QED
    BY <2>1, <2>2
<1> QED
  BY <1>1, <1>3 DEF CampaignSound

\* An answer with a run says what its row says.
LEMMA FoundIs ==
  ASSUME NEW r \in Run, rows'[r] \in Row, rows'[r] # Nil
  PROVE  LET answer == Found(r)
         IN /\ answer \in Answer /\ answer.is = "found" /\ answer.run # Nil
            /\ SnapshotTrue(answer.run, r, rows')
<1> DEFINE snapshot == [id |-> r, status |-> rows'[r].status]
<1>1. snapshot \in Snapshot /\ snapshot.id = r /\ snapshot.status = rows'[r].status
  BY DEF Row, Run, Snapshot
<1>2. snapshot # Nil
  BY <1>1, NilApart
<1> HIDE DEF snapshot
<1>3. SnapshotTrue(snapshot, r, rows')
  BY <1>1 DEF SnapshotTrue
<1>4. Found(r) = [is |-> "found", run |-> snapshot]
  BY DEF Found, snapshot
<1> QED
  BY <1>1, <1>2, <1>3, <1>4 DEF Answer

\* An answer without a run says nothing of a row.
LEMMA SaidIs ==
  ASSUME NEW what \in {"absent", "unavailable", "run_in_progress", "stale_worklist"}, NEW r, NEW rw
  PROVE  LET answer == Said(what)
         IN /\ answer \in Answer /\ answer.is = what /\ answer.is # "found" /\ answer.run = Nil
            /\ SnapshotTrue(answer.run, r, rw)
BY DEF Said, Answer, SnapshotTrue

\* The server reads a run.
LEMMA ServeReadKeeps ==
  ASSUME CampaignSound, NEW c \in wire, ServeRead(c)
  PROVE  CampaignSound'
<1>1. /\ c.kind \in {"read", "restore"} /\ c.phase = "sent" /\ rows' = rows
      /\ UNCHANGED <<page, kept, campaign, issued, history>>
      /\ \/ Reply(c, Found(c.run))
         \/ \E answer \in {"absent", "unavailable"} : Reply(c, Said(answer))
  BY DEF ServeRead
<1>2. /\ WireFits(rows, wire, page, issued) /\ wire \subseteq Call /\ rows \in [Run -> Row \union {Nil}]
      /\ RunsFit(rows, wire, page, kept, issued, history)
  BY Shape
<1>3. c.run \in Run /\ rows[c.run] # Nil /\ rows[c.run] \in Row
  BY <1>1, <1>2 DEF Call, WireFits, CallFits
<1>4. RunsFit(rows', wire \ {c}, page, kept, issued, history)
  BY <1>1, <1>2, FewerCalls
<1>5. rows'[c.run] \in Row /\ rows'[c.run] # Nil
  BY <1>1, <1>3
<1>6. CASE Reply(c, Found(c.run))
  <2> DEFINE answer == Found(c.run)
  <2>1. /\ answer \in Answer /\ answer.is = "found" /\ answer.run # Nil
        /\ SnapshotTrue(answer.run, c.run, rows')
    BY <1>3, <1>5, FoundIs
  <2>2. Reply(c, answer)
    BY <1>6
  <2> HIDE DEF answer
  <2> QED
    BY <1>1, <1>4, <2>1, <2>2, ReplyKeeps
<1>7. ASSUME NEW what \in {"absent", "unavailable"}, Reply(c, Said(what)) PROVE CampaignSound'
  <2> DEFINE answer == Said(what)
  <2>1. /\ answer \in Answer /\ answer.is = what /\ answer.is # "found" /\ answer.run = Nil
        /\ SnapshotTrue(answer.run, c.run, rows')
    BY SaidIs
  <2>2. Reply(c, answer)
    BY <1>7
  <2> HIDE DEF answer
  <2> QED
    BY <1>1, <1>4, <2>1, <2>2, ReplyKeeps
<1> QED
  BY <1>1, <1>6, <1>7

\* Every row a run may have while it is active: nothing counted yet.
LEMMA ActiveRow ==
  ASSUME NEW status \in ActiveRun, NEW request
  PROVE  LET row == [status |-> status, items |-> <<>>, calls |-> 0]
         IN row \in Row /\ row.status = status /\ RowFits(row, request)
<1> DEFINE row == [status |-> status, items |-> <<>>, calls |-> 0]
<1>1. row \in Row /\ row.status = status /\ row.items = <<>> /\ row.calls = 0
  BY DEF Row, Status, ActiveRun
<1> HIDE DEF row
<1>2. row.status \notin Settleable /\ row.status # "completed" /\ row.status \in ActiveRun
  BY <1>1 DEF Settleable, ActiveRun
<1>3. RowFits(row, request)
  BY <1>1, <1>2 DEF RowFits
<1> QED
  BY <1>1, <1>3 DEF row

\* The server takes or refuses a start.
LEMMA ServeStartKeeps ==
  ASSUME CampaignSound, NEW c \in wire, ServeStart(c)
  PROVE  CampaignSound'
<1> DEFINE row == [status |-> "running", items |-> <<>>, calls |-> 0]
<1>1. /\ c.kind = "start" /\ c.phase = "sent"
      /\ UNCHANGED <<page, kept, campaign, issued, history>>
  BY DEF ServeStart
<1>2. \/ rows[c.run] # Nil /\ rows' = rows /\ Reply(c, Found(c.run))
      \/ rows[c.run] = Nil /\ rows' = rows /\ Reply(c, Said("run_in_progress"))
      \/ rows[c.run] = Nil /\ rows' = rows /\ Reply(c, Said("stale_worklist"))
      \/ rows[c.run] = Nil /\ rows' = [rows EXCEPT ![c.run] = row] /\ Reply(c, Found(c.run))
  BY DEF ServeStart
<1>3. /\ WireFits(rows, wire, page, issued) /\ wire \subseteq Call /\ rows \in [Run -> Row \union {Nil}]
      /\ RunsFit(rows, wire, page, kept, issued, history) /\ PageFits(rows, page, issued)
      /\ issued \in Seq(Request)
  BY Shape
<1>4. /\ c.run \in Run /\ CallFits(c, rows, wire, page, issued)
      /\ rows[c.run] = Nil => c.run = page.pending
  BY <1>1, <1>3 DEF Call, WireFits, CallFits
<1>5. RunsFit(rows, wire \ {c}, page, kept, issued, history)
  BY <1>3, FewerCalls
<1>7. CASE rows[c.run] # Nil /\ rows' = rows /\ Reply(c, Found(c.run))
  <2> DEFINE answer == Found(c.run)
  <2>1. /\ answer \in Answer /\ answer.is = "found" /\ answer.run # Nil
        /\ SnapshotTrue(answer.run, c.run, rows')
    BY <1>3, <1>4, <1>7, FoundIs
  <2>2. Reply(c, answer)
    BY <1>7
  <2> HIDE DEF answer
  <2> QED
    BY <1>1, <1>5, <1>7, <2>1, <2>2, ReplyKeeps
<1>8. ASSUME NEW what \in {"run_in_progress", "stale_worklist"},
             rows[c.run] = Nil, rows' = rows, Reply(c, Said(what))
      PROVE  CampaignSound'
  <2> DEFINE answer == Said(what)
  <2>1. /\ answer \in Answer /\ answer.is = what /\ answer.is # "found" /\ answer.run = Nil
        /\ SnapshotTrue(answer.run, c.run, rows')
    BY SaidIs
  <2>2. Reply(c, answer)
    BY <1>8
  <2> HIDE DEF answer
  <2> QED
    BY <1>1, <1>5, <1>8, <2>1, <2>2, ReplyKeeps
<1>9. CASE rows[c.run] = Nil /\ rows' = [rows EXCEPT ![c.run] = row] /\ Reply(c, Found(c.run))
  <2> DEFINE answer == Found(c.run)
  <2>1. row \in Row /\ row # Nil /\ RowFits(row, issued[c.run])
    <3>1. "running" \in ActiveRun
      BY DEF ActiveRun
    <3>2. row \in Row /\ RowFits(row, issued[c.run])
      BY <3>1, ActiveRow
    <3> QED
      BY <3>2, NilApart
  <2> HIDE DEF row
  <2>2. rows'[c.run] = row /\ \A s : SnapshotTrue(s, c.run, rows) => SnapshotTrue(s, c.run, rows')
    BY <1>3, <1>4, <1>9, <2>1, ReadStays
  <2>3. c.run <= Len(issued)
    <3>1. c.run # Nil /\ c.run = page.pending
      BY <1>4, <1>9, NilApart
    <3>2. c.run = Len(issued)
      BY <1>3, <1>4, <3>1 DEF PageFits
    <3> QED
      BY <1>3, <3>2
  <2>5. RunsFit(rows', wire \ {c}, page, kept, issued, history)
    <3> DEFINE rn == rows'
               wr == wire \ {c}
    <3>1. rn = [rows EXCEPT ![c.run] = row]
      BY <1>9
    <3>2. RunsFit(rows, wr, page, kept, issued, history)
      BY <1>5
    <3>4. rows[c.run] = Nil /\ c.run = page.pending
      BY <1>4, <1>9
    <3> HIDE DEF rn, wr
    <3>5. RunsFit(rn, wr, page, kept, issued, history)
      BY <1>4, <2>1, <2>3, <3>1, <3>2, <3>4, RowChange
    <3> QED
      BY <3>5 DEF rn, wr
  <2>6. /\ answer \in Answer /\ answer.is = "found" /\ answer.run # Nil
        /\ SnapshotTrue(answer.run, c.run, rows')
    BY <1>4, <2>1, <2>2, FoundIs
  <2>7. Reply(c, answer)
    BY <1>9
  <2> HIDE DEF answer
  <2> QED
    BY <1>1, <1>9, <2>1, <2>2, <2>5, <2>6, <2>7, ReplyKeeps
<1> QED
  BY <1>2, <1>7, <1>8, <1>9

\* The server stops a run.
LEMMA ServeStopKeeps ==
  ASSUME CampaignSound, NEW c \in wire, ServeStop(c)
  PROVE  CampaignSound'
<1> DEFINE answer == Found(c.run)
<1>1. /\ c.kind = "stop" /\ c.phase = "sent" /\ Reply(c, answer)
      /\ rows' = IF rows[c.run].status = "running" THEN [rows EXCEPT ![c.run].status = "stopping"] ELSE rows
      /\ UNCHANGED <<page, kept, campaign, issued, history>>
  BY DEF ServeStop
<1>2. /\ WireFits(rows, wire, page, issued) /\ wire \subseteq Call /\ rows \in [Run -> Row \union {Nil}]
      /\ RunsFit(rows, wire, page, kept, issued, history) /\ RowsFit(rows, issued)
  BY Shape
<1>3. c.run \in Run /\ rows[c.run] # Nil /\ rows[c.run] \in Row
  BY <1>1, <1>2 DEF Call, WireFits, CallFits
<1>4. RunsFit(rows, wire \ {c}, page, kept, issued, history)
  BY <1>2, FewerCalls
<1>5. /\ RunsFit(rows', wire \ {c}, page, kept, issued, history)
      /\ rows'[c.run] \in Row /\ rows'[c.run] # Nil
      /\ \A s : SnapshotTrue(s, c.run, rows) => SnapshotTrue(s, c.run, rows')
  <2>1. CASE rows[c.run].status # "running"
    <3>1. rows' = rows
      BY <1>1, <2>1
    <3> QED
      BY <1>3, <1>4, <3>1
  <2>2. CASE rows[c.run].status = "running"
    <3> DEFINE row == [rows[c.run] EXCEPT !.status = "stopping"]
               rn  == rows'
               wr  == wire \ {c}
    <3>1. rows' = [rows EXCEPT ![c.run] = row]
      BY <1>1, <2>2
    <3>2. c.run <= Len(issued) /\ RowFits(rows[c.run], issued[c.run]) /\ rows[c.run].status \in ActiveRun
      BY <1>2, <1>3, <2>2 DEF RowsFit, ActiveRun
    <3>3. /\ row \in Row /\ row.status = "stopping" /\ row.items = rows[c.run].items
          /\ row.calls = rows[c.run].calls
      BY <1>3 DEF Row, Status
    <3>4. row # Nil
      BY <3>3, NilApart
    <3> HIDE DEF row
    <3>5. RowFits(row, issued[c.run])
      BY <3>2, <3>3 DEF RowFits, ActiveRun, Settleable
    <3>6. rows'[c.run] = row /\ \A s : SnapshotTrue(s, c.run, rows) => SnapshotTrue(s, c.run, rows')
      BY <1>2, <1>3, <3>1, <3>2, <3>4, ReadStays
    <3>7. rn = [rows EXCEPT ![c.run] = row] /\ RunsFit(rows, wr, page, kept, issued, history)
      BY <1>4, <3>1
    <3> HIDE DEF rn, wr
    <3>8. RunsFit(rn, wr, page, kept, issued, history)
      BY <1>3, <3>2, <3>3, <3>5, <3>7, RowChange
    <3> QED
      BY <3>3, <3>4, <3>6, <3>8 DEF rn, wr
  <2> QED
    BY <2>1, <2>2
<1>6. /\ answer \in Answer /\ answer.is = "found" /\ answer.run # Nil
      /\ SnapshotTrue(answer.run, c.run, rows')
  BY <1>3, <1>5, FoundIs
<1> HIDE DEF answer
<1> QED
  BY <1>1, <1>5, <1>6, ReplyKeeps

\* A run comes to its end on the server.
LEMMA EndKeeps ==
  ASSUME CampaignSound, NEW r \in DOMAIN rows, EndRun(r)
  PROVE  CampaignSound'
<1>1. /\ rows[r] # Nil /\ rows[r].status \in ActiveRun
      /\ UNCHANGED <<wire, page, kept, campaign, issued, history>>
  BY DEF EndRun
<1>2. /\ rows \in [Run -> Row \union {Nil}] /\ RowsFit(rows, issued) /\ issued \in Seq(Request)
      /\ RunsFit(rows, wire, page, kept, issued, history)
      /\ CompletedFits(page) /\ SettledFits(page) /\ campaign = page.plan
  BY Shape
<1>3. r \in Run /\ r <= Len(issued)
  BY <1>1, <1>2 DEF RowsFit
<1>4. issued[r].messages \in Int /\ issued[r].limit \in Int
  <2>1. r \in 1..Len(issued)
    BY <1>2, <1>3 DEF Run
  <2>2. issued[r] \in Request
    BY <1>2, <2>1
  <2> QED
    BY <2>2 DEF Request
<1>5. \E row \in Row : rows' = [rows EXCEPT ![r] = row] /\ RowFits(row, issued[r])
  <2>1. CASE \E calls \in 0..issued[r].limit :
               rows' = [rows EXCEPT ![r] = [status |-> "stopped", items |-> <<>>, calls |-> calls]]
    <3>1. PICK calls \in 0..issued[r].limit :
            rows' = [rows EXCEPT ![r] = [status |-> "stopped", items |-> <<>>, calls |-> calls]]
      BY <2>1
    <3> DEFINE row == [status |-> "stopped", items |-> <<>>, calls |-> calls]
    <3>2. calls \in Nat /\ calls <= issued[r].limit
      BY <1>4
    <3>3. row \in Row /\ row.status = "stopped" /\ row.calls = calls
      BY <3>2 DEF Row, Status
    <3>4. rows' = [rows EXCEPT ![r] = row]
      BY <3>1
    <3> HIDE DEF row
    <3>5. RowFits(row, issued[r])
      BY <3>2, <3>3 DEF RowFits, ActiveRun, Settleable
    <3> QED
      BY <3>3, <3>4, <3>5
  <2>2. ASSUME NEW items \in [1..issued[r].messages -> Fate],
               NEW calls, calls = Cardinality(EndedAs(items, "classified")), calls <= issued[r].limit,
               NEW status \in {"partial", "completed"},
               status = "completed" => EndedAs(items, "unread") = {},
               rows' = [rows EXCEPT ![r] = [status |-> status, items |-> items, calls |-> calls]]
        PROVE  \E row \in Row : rows' = [rows EXCEPT ![r] = row] /\ RowFits(row, issued[r])
    <3> DEFINE row == [status |-> status, items |-> items, calls |-> calls]
               n == issued[r].messages
    <3>1. items \in Seq(Fate)
      <4>1. CASE n >= 0
        BY <1>4, <4>1
      <4>2. CASE ~(n >= 0)
        <5>1. 1..n = 1..0 /\ 0 \in Nat
          BY <1>4, <4>2
        <5>2. items \in [1..0 -> Fate]
          BY <5>1
        <5> QED
          BY <5>1, <5>2
      <4> QED
        BY <4>1, <4>2
    <3>2. calls \in Nat
      BY <2>2, <3>1, Places
    <3>3. row \in Row /\ row.status = status /\ row.items = items /\ row.calls = calls
      BY <3>1, <3>2 DEF Row, Status
    <3>4. rows' = [rows EXCEPT ![r] = row]
      BY <2>2
    <3> HIDE DEF row
    <3>5. RowFits(row, issued[r])
      BY <2>2, <3>3 DEF RowFits, ActiveRun, Settleable
    <3> QED
      BY <3>3, <3>4, <3>5
  <2>3. CASE \E items \in [1..issued[r].messages -> Fate] :
               LET calls == Cardinality(EndedAs(items, "classified"))
                   some(kind) == EndedAs(items, kind) # {}
               IN /\ calls <= issued[r].limit
                  /\ \E status \in IF some("unread") THEN {"partial"}
                                   ELSE IF some("other") THEN {"partial", "completed"} ELSE {"completed"} :
                       rows' = [rows EXCEPT ![r] = [status |-> status, items |-> items, calls |-> calls]]
    <3>1. PICK items \in [1..issued[r].messages -> Fate] :
            LET calls == Cardinality(EndedAs(items, "classified"))
                some(kind) == EndedAs(items, kind) # {}
            IN /\ calls <= issued[r].limit
               /\ \E status \in IF some("unread") THEN {"partial"}
                                ELSE IF some("other") THEN {"partial", "completed"} ELSE {"completed"} :
                    rows' = [rows EXCEPT ![r] = [status |-> status, items |-> items, calls |-> calls]]
      BY <2>3
    <3> DEFINE calls == Cardinality(EndedAs(items, "classified"))
    <3>2. PICK status \in {"partial", "completed"} :
            /\ status = "completed" => EndedAs(items, "unread") = {}
            /\ rows' = [rows EXCEPT ![r] = [status |-> status, items |-> items, calls |-> calls]]
      BY <3>1
    <3>3. calls <= issued[r].limit
      BY <3>1
    <3> QED
      BY <2>2, <3>2, <3>3
  <2> QED
    BY <2>1, <2>3 DEF EndRun
<1>6. PICK row \in Row : rows' = [rows EXCEPT ![r] = row] /\ RowFits(row, issued[r])
  BY <1>5
<1> DEFINE rn == rows'
<1>7. rn = [rows EXCEPT ![r] = row]
  BY <1>6
<1> HIDE DEF rn
<1>8. RunsFit(rn, wire, page, kept, issued, history)
  BY <1>1, <1>2, <1>3, <1>6, <1>7, RowChange
<1> QED
  BY <1>1, <1>2, <1>8 DEF CampaignSound, rn

-----------------------------------------------------------------------------
(* The answers.                                                                *)

\* The page takes a state that fits, and the campaign does what follows.
LEMMA TurnKeeps ==
  ASSUME CampaignSound, NEW p \in Controller, NEW run, NEW pending, NEW others, others \subseteq Call,
         p.plan = page.plan, p.shown = page.shown, run = p.runId, pending = p.pending, rows' = rows,
         PageFits(rows, p, issued), WireFits(rows, others, p, issued), CampaignFits(rows, p, issued, history),
         Take(p, run, pending, others)
  PROVE  CampaignSound'
<1>1. /\ ClientTyped(rows, wire, page, kept, issued, history) /\ RowsFit(rows, issued)
      /\ CompletedFits(page) /\ campaign = page.plan
  BY Shape
<1>2. ClientTyped(rows, others, p, [run |-> run, pending |-> pending], issued, history)
  BY <1>1 DEF ClientTyped
<1>3. RunsFit(rows, others, p, [run |-> run, pending |-> pending], issued, history)
  BY <1>1, <1>2 DEF RunsFit
<1>4. CompletedFits(p) /\ campaign = p.plan
  BY <1>1 DEF CompletedFits
<1> QED
  BY <1>3, <1>4, TakeKeeps

\* What is known of a call that somebody waits for.
LEMMA Waited ==
  ASSUME CampaignSound, NEW c \in wire, c.phase = "back" \/ ~c.gone, ~Behind(c, issued)
  PROVE  /\ ~c.gone /\ Timely(c, issued) /\ c \in Call /\ CallFits(c, rows, wire, page, issued)
         /\ AnswerTrue(c, rows)
         /\ \A d \in wire : d \in Call /\ CallFits(d, rows, wire, page, issued)
<1>1. WireFits(rows, wire, page, issued) /\ wire \subseteq Call
  BY Shape
<1>2. \A d \in wire : d \in Call /\ CallFits(d, rows, wire, page, issued)
  BY <1>1 DEF WireFits
<1>3. ~c.gone /\ Timely(c, issued)
  BY <1>2 DEF CallFits, Timely
<1> QED
  BY <1>2, <1>3 DEF CallFits

\* An answer that found the run.
LEMMA FoundRun ==
  ASSUME NEW c \in Call, AnswerTrue(c, rows), c.phase = "back", c.answer.is = "found"
  PROVE  /\ c.answer.run \in Snapshot /\ c.answer.run # Nil /\ c.answer.run.id = c.run
         /\ c.run \in Run /\ rows[c.run] # Nil /\ SnapshotTrue(c.answer.run, c.run, rows)
<1>1. /\ c.answer \in Answer /\ c.answer.run # Nil /\ SnapshotTrue(c.answer.run, c.run, rows)
  BY DEF AnswerTrue
<1>2. c.answer.run \in Snapshot /\ c.run \in Run
  BY <1>1 DEF Answer, Call
<1> QED
  BY <1>1, <1>2 DEF SnapshotTrue

\* A read or a stop that is not behind is of the run kept: nothing is pending, and
\* no start is waited for.
LEMMA AskedRun ==
  ASSUME CampaignSound, NEW c \in wire, ~c.gone, ~Behind(c, issued), c.kind \in {"read", "stop"}
  PROVE  /\ page.pending = Nil /\ c.run = page.runId /\ c.run \in Run /\ rows[c.run] # Nil
         /\ c.before \in Snapshot \union {Nil} /\ SnapshotTrue(c.before, c.run, rows)
         /\ \A d \in wire : /\ d.kind = "start" => d.gone /\ rows[d.run] # Nil
                            /\ Timely(d, issued) => d.kind \in {"read", "stop"}
<1>1. /\ c \in Call /\ CallFits(c, rows, wire, page, issued) /\ Timely(c, issued)
      /\ \A d \in wire : d \in Call /\ CallFits(d, rows, wire, page, issued)
  BY Waited
<1>2. /\ page.pending = Nil /\ c.run = page.runId /\ rows[c.run] # Nil /\ SnapshotTrue(c.before, c.run, rows)
  BY <1>1 DEF CallFits
<1>3. c.run \in Run /\ c.before \in Snapshot \union {Nil}
  BY <1>1 DEF Call
<1>4. ASSUME NEW d \in wire
      PROVE  /\ d.kind = "start" => d.gone /\ rows[d.run] # Nil
             /\ Timely(d, issued) => d.kind \in {"read", "stop"}
  <2>1. d \in Call /\ CallFits(d, rows, wire, page, issued)
    BY <1>1
  <2>2. d.run \in Run /\ d.kind \in {"start", "read", "restore", "stop"}
    BY <2>1 DEF Call
  <2>3. d.kind = "start" => d.gone /\ rows[d.run] # Nil
    BY <1>2, <2>1, <2>2, NilApart DEF CallFits
  <2>4. Timely(d, issued) => d.kind # "restore"
    BY <1>1, <2>1 DEF CallFits
  <2> QED
    BY <2>2, <2>3, <2>4 DEF Timely
<1> QED
  BY <1>2, <1>3, <1>4

\* After a read or a stop is answered or lost, the page shows that run.
LEMMA AskedKeeps ==
  ASSUME CampaignSound, NEW c \in wire, ~c.gone, ~Behind(c, issued), c.kind \in {"read", "stop"},
         NEW others, others \subseteq (wire \ {c}) \union {[c EXCEPT !.gone = TRUE]},
         c.phase = "back" \/ c.kind = "read" => others \subseteq wire \ {c},
         NEW p, NEW phase \in Phase, NEW run \in Snapshot \union {Nil}, SnapshotTrue(run, c.run, rows),
         p = [page EXCEPT !.phase = phase, !.run = run, !.runId = c.run, !.pending = Nil],
         rows' = rows, Take(p, c.run, Nil, others)
  PROVE  CampaignSound'
<1>1. /\ page \in Controller /\ PageFits(rows, page, issued) /\ WireFits(rows, wire, page, issued)
      /\ CampaignFits(rows, page, issued, history)
  BY Shape
<1>2. /\ page.pending = Nil /\ c.run = page.runId /\ c.run \in Run /\ rows[c.run] # Nil
      /\ \A d \in wire : /\ d.kind = "start" => d.gone /\ rows[d.run] # Nil
                         /\ Timely(d, issued) => d.kind \in {"read", "stop"}
  BY AskedRun
<1>3. \A d \in wire : d \in Call /\ CallFits(d, rows, wire, page, issued)
  BY Waited
<1>4. /\ p \in Controller /\ p.phase = phase /\ p.run = run /\ p.runId = page.runId /\ p.pending = Nil
      /\ p.plan = page.plan /\ p.shown = page.shown
  BY <1>1, <1>2 DEF Controller
<1>5. ASSUME NEW d \in others PROVE d \in Call /\ CallFits(d, rows, others, p, issued)
  <2>1. CASE d \in wire
    <3>1. d \in Call /\ CallFits(d, rows, wire, page, issued)
          /\ (d.kind = "start" => d.gone /\ rows[d.run] # Nil)
          /\ (Timely(d, issued) => d.kind \in {"read", "stop"})
      BY <1>2, <1>3, <2>1
    <3> QED
      BY <1>2, <1>4, <3>1 DEF CallFits
  <2>2. CASE d \notin wire
    <3>1. d = [c EXCEPT !.gone = TRUE] /\ c.phase # "back" /\ c.kind = "stop" /\ c \in Call
      BY <1>3, <1>5, <2>2
    <3>2. c.phase = "sent" /\ c.after <= Len(issued)
      BY <1>3, <3>1 DEF Call, CallFits
    <3>3. /\ d \in Call /\ d.kind = "stop" /\ d.phase = "sent" /\ d.gone /\ d.run = c.run
          /\ d.after <= Len(issued)
      BY <3>1, <3>2 DEF Call
    <3> QED
      BY <1>2, <3>3 DEF CallFits, Timely
  <2> QED
    BY <2>1, <2>2
<1>6. PageFits(rows, p, issued)
  BY <1>2, <1>4 DEF PageFits
<1>7. WireFits(rows, others, p, issued) /\ others \subseteq Call
  BY <1>5 DEF WireFits
<1>8. CampaignFits(rows, p, issued, history)
  <2>1. CampaignFits(rows, page, issued, history)
    BY <1>1
  <2>2. p.plan = page.plan /\ p.runId = page.runId /\ p.pending = page.pending
    BY <1>2, <1>4
  <2> QED
    BY ONLY <2>1, <2>2, PlanView
<1> QED
  BY <1>2, <1>4, <1>6, <1>7, <1>8, TurnKeeps

\* A read is answered: the run may be counted and the next batch asked for.
LEMMA ReadAnsweredKeeps ==
  ASSUME CampaignSound, NEW c \in wire, ReadAnswered(c), ~Behind(c, issued)
  PROVE  CampaignSound'
<1>1. /\ c.kind = "read" /\ c.phase = "back" /\ rows' = rows
  BY DEF ReadAnswered
<1>2. /\ ~c.gone /\ Timely(c, issued) /\ c \in Call /\ CallFits(c, rows, wire, page, issued) /\ AnswerTrue(c, rows)
  BY <1>1, Waited
<1>3. /\ c.before \in Snapshot \union {Nil} /\ SnapshotTrue(c.before, c.run, rows)
      /\ c.run = page.runId /\ page.pending = Nil
  BY <1>1, <1>2, AskedRun
<1>4. kept.run = page.runId /\ kept.pending = page.pending
  BY Shape
<1>5. CASE c.answer.is = "found"
  <2>1. /\ c.answer.run \in Snapshot /\ c.answer.run.id = c.run /\ SnapshotTrue(c.answer.run, c.run, rows)
    BY <1>1, <1>2, <1>5, FoundRun
  <2>2. Take([page EXCEPT !.phase = "run", !.run = c.answer.run, !.runId = c.run, !.pending = Nil],
             c.run, Nil, wire \ {c})
    BY <1>1, <1>5, <2>1 DEF ReadAnswered, ShowRun
  <2>3. "run" \in Phase
    BY DEF Phase
  <2> QED
    BY <1>1, <1>2, <2>1, <2>2, <2>3, AskedKeeps
<1>6. CASE c.answer.is # "found"
  <2>1. c.answer.is \in Phase
    BY <1>1, <1>2, <1>6 DEF CallFits, Phase
  <2>2. Take([page EXCEPT !.phase = c.answer.is, !.run = c.before, !.runId = c.run, !.pending = Nil],
             c.run, Nil, wire \ {c})
    BY <1>1, <1>3, <1>4, <1>6 DEF ReadAnswered, ShowPhase
  <2> QED
    BY <1>1, <1>2, <1>3, <2>1, <2>2, AskedKeeps
<1> QED
  BY <1>5, <1>6

\* A stop is answered.
LEMMA StopAnsweredKeeps ==
  ASSUME CampaignSound, NEW c \in wire, StopAnswered(c), ~Behind(c, issued)
  PROVE  CampaignSound'
<1>1. /\ c.kind = "stop" /\ c.phase = "back" /\ rows' = rows
  BY DEF StopAnswered
<1>2. /\ ~c.gone /\ Timely(c, issued) /\ c \in Call /\ CallFits(c, rows, wire, page, issued) /\ AnswerTrue(c, rows)
  BY <1>1, Waited
<1>3. c.answer.is = "found"
  BY <1>1, <1>2 DEF CallFits
<1>4. /\ c.answer.run \in Snapshot /\ c.answer.run.id = c.run /\ SnapshotTrue(c.answer.run, c.run, rows)
  BY <1>1, <1>2, <1>3, FoundRun
<1>5. Take([page EXCEPT !.phase = "run", !.run = c.answer.run, !.runId = c.run, !.pending = Nil],
           c.run, Nil, wire \ {c})
  BY <1>4 DEF StopAnswered, ShowRun
<1>6. "run" \in Phase
  BY DEF Phase
<1> QED
  BY <1>1, <1>2, <1>4, <1>5, <1>6, AskedKeeps

\* A page just loaded shows what storage keeps.
LEMMA RestoredKeeps ==
  ASSUME CampaignSound, NEW c \in wire, ~c.gone, c.kind = "restore", rows' = rows,
         NEW p, NEW phase \in Phase, NEW run \in Snapshot \union {Nil}, SnapshotTrue(run, c.run, rows),
         page.pending # Nil => phase = "uncertain",
         p = [page EXCEPT !.phase = phase, !.run = run],
         Take(p, kept.run, kept.pending, wire \ {c})
  PROVE  CampaignSound'
<1>1. /\ page \in Controller /\ PageFits(rows, page, issued) /\ WireFits(rows, wire, page, issued)
      /\ CampaignFits(rows, page, issued, history) /\ wire \subseteq Call
      /\ kept.run = page.runId /\ kept.pending = page.pending
  BY Shape
<1>2. c.run = page.runId /\ CallFits(c, rows, wire, page, issued) /\ Timely(c, issued)
  BY <1>1 DEF WireFits, CallFits, Timely, Behind
<1>3. /\ p \in Controller /\ p.phase = phase /\ p.run = run /\ p.runId = page.runId
      /\ p.pending = page.pending /\ p.plan = page.plan /\ p.shown = page.shown
  BY <1>1 DEF Controller
<1>4. ASSUME NEW d \in wire \ {c} PROVE CallFits(d, rows, wire \ {c}, p, issued)
  <2>1. ~Timely(d, issued)
    BY <1>2 DEF CallFits
  <2>2. CallFits(d, rows, wire, page, issued)
    BY <1>1 DEF WireFits
  <2> QED
    BY <1>3, <2>1, <2>2 DEF CallFits
<1>5. WireFits(rows, wire \ {c}, p, issued) /\ wire \ {c} \subseteq Call
  BY <1>1, <1>4 DEF WireFits
<1>6. PageFits(rows, p, issued)
  BY <1>1, <1>2, <1>3 DEF PageFits
<1>7. CampaignFits(rows, p, issued, history)
  <2>1. CampaignFits(rows, page, issued, history)
    BY <1>1
  <2>2. p.plan = page.plan /\ p.runId = page.runId /\ p.pending = page.pending
    BY <1>3
  <2> QED
    BY ONLY <2>1, <2>2, PlanView
<1> QED
  BY <1>1, <1>3, <1>5, <1>6, <1>7, TurnKeeps

\* The read of a page that was loaded again is answered.
LEMMA RestoreAnsweredKeeps ==
  ASSUME CampaignSound, NEW c \in wire, RestoreAnswered(c)
  PROVE  CampaignSound'
<1> DEFINE phase == IF page.pending # Nil THEN "uncertain"
                    ELSE IF c.answer.is = "found" THEN "run" ELSE c.answer.is
<1>1. /\ c.kind = "restore" /\ c.phase = "back" /\ rows' = rows
      /\ Take([page EXCEPT !.phase = phase, !.run = c.answer.run], kept.run, kept.pending, wire \ {c})
  BY DEF RestoreAnswered
<1>2. /\ ~c.gone /\ Timely(c, issued) /\ c \in Call /\ CallFits(c, rows, wire, page, issued)
      /\ AnswerTrue(c, rows)
  BY <1>1, Waited DEF Behind
<1>3. c.answer.run \in Snapshot \union {Nil} /\ SnapshotTrue(c.answer.run, c.run, rows)
  <2>1. c.answer \in Answer /\ SnapshotTrue(c.answer.run, c.run, rows)
    BY <1>1, <1>2 DEF AnswerTrue
  <2> QED
    BY <2>1 DEF Answer
<1>4. phase \in Phase /\ (page.pending # Nil => phase = "uncertain")
  <2>1. c.answer.is \in {"found", "absent", "unavailable"}
    BY <1>1, <1>2 DEF CallFits
  <2> QED
    BY <2>1 DEF Phase
<1> HIDE DEF phase
<1> QED
  BY <1>1, <1>2, <1>3, <1>4, RestoredKeeps

\* The start under way is the pending one, and the only call of the page.
LEMMA Starting ==
  ASSUME CampaignSound, NEW c \in wire, ~c.gone, c.kind = "start"
  PROVE  /\ c.run = page.pending /\ page.pending # Nil /\ c.run \in Run /\ c.run = Len(issued)
         /\ c.before = page.run /\ c.from = page.runId /\ page.phase = "starting"
         /\ \A d \in wire : Timely(d, issued) => d = c
<1>1. /\ Timely(c, issued) /\ c \in Call /\ CallFits(c, rows, wire, page, issued) /\ PageFits(rows, page, issued)
  BY Waited, Shape DEF Behind
<1>2. c.run = page.pending /\ c.run \in Run
  BY <1>1 DEF CallFits, Call
<1>3. page.pending # Nil
  BY <1>2, NilApart
<1> QED
  BY <1>1, <1>2, <1>3 DEF CallFits, PageFits

\* A start whose answer does not come leaves the page in doubt of it.
LEMMA StartLostKeeps ==
  ASSUME CampaignSound, NEW c \in wire, ~c.gone, c.kind = "start", rows' = rows,
         NEW others, others \subseteq (wire \ {c}) \union {[c EXCEPT !.gone = TRUE]},
         c.phase # "sent" => others \subseteq wire \ {c},
         ShowPhase("uncertain", c.before, c.from, c.run, others)
  PROVE  CampaignSound'
<1> DEFINE p == [page EXCEPT !.phase = "uncertain", !.run = c.before, !.runId = c.from, !.pending = c.run]
<1>1. /\ page \in Controller /\ PageFits(rows, page, issued) /\ WireFits(rows, wire, page, issued)
      /\ CampaignFits(rows, page, issued, history) /\ wire \subseteq Call
      /\ kept.run = page.runId /\ kept.pending = page.pending
  BY Shape
<1>2. /\ c.run = page.pending /\ page.pending # Nil /\ c.run \in Run
      /\ c.before = page.run /\ c.from = page.runId
      /\ \A d \in wire : Timely(d, issued) => d = c
  BY Starting
<1>3. /\ p \in Controller /\ p.phase = "uncertain" /\ p.run = page.run /\ p.runId = page.runId
      /\ p.pending = page.pending /\ p.plan = page.plan /\ p.shown = page.shown
  BY <1>1, <1>2 DEF Controller, Phase
<1>4. Take(p, kept.run, kept.pending, others)
  BY DEF ShowPhase
<1> HIDE DEF p
<1>5. ASSUME NEW d \in others PROVE d \in Call /\ CallFits(d, rows, others, p, issued)
  <2>1. CASE d \in wire \ {c}
    <3>1. d \in Call /\ CallFits(d, rows, wire, page, issued) /\ ~Timely(d, issued)
      BY <1>1, <1>2, <2>1 DEF WireFits
    <3> QED
      BY <1>3, <3>1 DEF CallFits
  <2>2. CASE d \notin wire \ {c}
    <3>1. /\ d = [c EXCEPT !.gone = TRUE] /\ c.phase = "sent" /\ c \in Call
          /\ c.after <= Len(issued)
      BY <1>1, <1>5, <2>2 DEF WireFits, CallFits
    <3>2. /\ d \in Call /\ d.kind = "start" /\ d.phase = "sent" /\ d.gone /\ d.run = c.run
          /\ d.after <= Len(issued)
      BY <3>1 DEF Call
    <3> QED
      BY <1>2, <1>3, <3>2 DEF CallFits, Timely
  <2> QED
    BY <2>1, <2>2
<1>6. WireFits(rows, others, p, issued) /\ others \subseteq Call
  BY <1>5 DEF WireFits
<1>7. PageFits(rows, p, issued)
  BY <1>1, <1>3 DEF PageFits
<1>8. CampaignFits(rows, p, issued, history)
  <2>1. CampaignFits(rows, page, issued, history)
    BY <1>1
  <2>2. p.plan = page.plan /\ p.runId = page.runId /\ p.pending = page.pending
    BY <1>3
  <2> QED
    BY ONLY <2>1, <2>2, PlanView
<1> QED
  BY <1>1, <1>3, <1>4, <1>6, <1>7, <1>8, TurnKeeps

\* The pending start made its run, which is shown now, or it was refused.
LEMMA StartedKeeps ==
  ASSUME CampaignSound, NEW c \in wire, c.kind = "start", c.phase = "back", rows' = rows,
         NEW p \in Controller, p.plan = page.plan, p.shown = page.shown, p.pending = Nil,
         SnapshotTrue(p.run, p.runId, rows),
         \/ p.runId = c.run /\ rows[c.run] # Nil
         \/ /\ p.runId = page.runId /\ rows[c.run] = Nil
            /\ \A d \in wire : d.kind = "start" /\ d.gone => d.run # c.run,
         Take(p, p.runId, Nil, wire \ {c})
  PROVE  CampaignSound'
<1>1. /\ page \in Controller /\ PageFits(rows, page, issued) /\ WireFits(rows, wire, page, issued)
      /\ CampaignFits(rows, page, issued, history) /\ wire \subseteq Call
  BY Shape
<1>2. ~c.gone /\ c \in Call /\ CallFits(c, rows, wire, page, issued)
  BY Waited DEF Behind
<1>3. /\ c.run = page.pending /\ page.pending # Nil /\ c.run \in Run /\ c.run = Len(issued)
      /\ \A d \in wire : Timely(d, issued) => d = c
  BY <1>2, Starting
<1>4. ASSUME NEW d \in wire \ {c} PROVE CallFits(d, rows, wire \ {c}, p, issued)
  <2>1. CallFits(d, rows, wire, page, issued) /\ ~Timely(d, issued)
    BY <1>1, <1>3 DEF WireFits
  <2>2. d.kind = "start" => d.gone
    BY <2>1 DEF Timely, Behind
  <2>3. d.kind = "start" => rows[d.run] # Nil
    BY <1>3, <2>1, <2>2 DEF CallFits
  <2> QED
    BY <2>1, <2>2, <2>3 DEF CallFits
<1>5. WireFits(rows, wire \ {c}, p, issued) /\ wire \ {c} \subseteq Call
  BY <1>1, <1>4 DEF WireFits
<1>6. PageFits(rows, p, issued)
  BY <1>1 DEF PageFits
<1>7. ASSUME p.plan # Nil
      PROVE  /\ PlanFits(rows, p, issued, history) /\ WorkFits(rows, p, issued, history)
             /\ history.inSight => FiguresFit(rows, p, issued, history)
  <2>1. /\ PlanFits(rows, page, issued, history) /\ WorkFits(rows, page, issued, history)
        /\ history.inSight => FiguresFit(rows, page, issued, history)
    BY <1>1, <1>7 DEF CampaignFits
  <2>2. WorkFits(rows, p, issued, history) /\ (history.inSight => FiguresFit(rows, p, issued, history))
    BY <2>1 DEF WorkFits, FiguresFit
  <2>3. \/ page.runId \in {Nil, page.plan.last}
        \/ ~history.inSight /\ page.runId <= history.before /\ history.counted = <<>>
    BY <1>3, <2>1 DEF PlanFits
  <2>4. \/ p.runId \in {Nil, p.plan.last}
        \/ p.pending = Nil /\ IsNext(p.runId, p, issued, history)
        \/ ~history.inSight /\ p.runId <= history.before /\ history.counted = <<>>
    <3>1. CASE p.runId = page.runId
      BY <2>3, <3>1
    <3>2. CASE p.runId = c.run
      <4>1. IsNext(c.run, page, issued, history)
        BY <1>3, <2>1 DEF PlanFits
      <4> QED
        BY <3>2, <4>1 DEF IsNext
    <3> QED
      BY <3>1, <3>2
  <2>5. ASSUME NEW r \in Run, Made(r, rows, issued, history)
        PROVE  r \in ToSet(history.counted) \union {p.pending, p.runId}
    <3>1. r \in ToSet(history.counted) \union {page.pending, page.runId}
      BY <2>1, <2>5 DEF PlanFits
    <3>2. CASE r = page.pending
      <4>1. rows[c.run] # Nil
        BY <1>3, <2>5, <3>2 DEF Made
      <4> QED
        BY <1>3, <3>2, <4>1
    <3>3. CASE r = page.runId
      <4>1. r # Nil /\ r > history.before /\ r \in Nat /\ history.before \in Nat
        <5>1. r \in Nat
          BY <2>5 DEF Run
        <5>2. history \in History
          BY Shape
        <5> QED
          BY <2>5, <5>1, <5>2, NilApart DEF Made, History
      <4>2. r = page.plan.last
        BY <2>3, <3>3, <4>1
      <4>3. r \in ToSet(history.counted)
        BY <2>1, <4>1, <4>2 DEF PlanFits
      <4> QED
        BY <4>3
    <3> QED
      BY <3>1, <3>2, <3>3
  <2>6. PlanFits(rows, p, issued, history)
    <3>1. history.before <= Len(issued) /\ (p.plan.retrying => p.plan.retry # <<>>)
      BY <2>1 DEF PlanFits
    <3>2. p.plan.last # Nil => p.plan.last \in ToSet(history.counted) \/ p.plan.last <= history.before
      BY <2>1 DEF PlanFits
    <3>3. \A r \in ToSet(history.counted) : /\ rows[r] # Nil /\ rows[r].status \in Settleable
                                            /\ history.inSight => r > history.before
      BY <2>1 DEF PlanFits
    <3> QED
      BY <2>4, <2>5, <3>1, <3>2, <3>3 DEF PlanFits
  <2> QED
    BY <2>2, <2>6
<1>8. CampaignFits(rows, p, issued, history)
  BY <1>7 DEF CampaignFits
<1> QED
  BY <1>5, <1>6, <1>8, TurnKeeps

\* A start is answered.
LEMMA StartAnsweredKeeps ==
  ASSUME CampaignSound, NEW c \in wire, StartAnswered(c), ~Outrun(c)
  PROVE  CampaignSound'
<1>1. c.kind = "start" /\ c.phase = "back" /\ rows' = rows
  BY DEF StartAnswered
<1>2. /\ ~c.gone /\ Timely(c, issued) /\ c \in Call /\ CallFits(c, rows, wire, page, issued) /\ AnswerTrue(c, rows)
  BY <1>1, Waited DEF Behind
<1>3. /\ c.run = page.pending /\ c.run \in Run /\ c.before = page.run /\ c.from = page.runId
  BY <1>1, <1>2, Starting
<1>4. page \in Controller /\ PageFits(rows, page, issued)
  BY Shape
<1>5. CASE c.answer.is = "found"
  <2> DEFINE p == [page EXCEPT !.phase = "run", !.run = c.answer.run, !.runId = c.run, !.pending = Nil]
  <2>1. /\ c.answer.run \in Snapshot /\ c.answer.run.id = c.run /\ rows[c.run] # Nil
        /\ SnapshotTrue(c.answer.run, c.run, rows)
    BY <1>1, <1>2, <1>5, FoundRun
  <2>2. /\ p \in Controller /\ p.plan = page.plan /\ p.shown = page.shown /\ p.pending = Nil
        /\ p.run = c.answer.run /\ p.runId = c.run
    BY <1>3, <1>4, <2>1 DEF Controller, Phase
  <2>3. Take(p, c.run, Nil, wire \ {c})
    BY <1>5, <2>1 DEF StartAnswered, ShowRun
  <2> HIDE DEF p
  <2>4. Take(p, p.runId, Nil, wire \ {c})
    BY <2>2, <2>3
  <2> QED
    BY <1>1, <2>1, <2>2, <2>4, StartedKeeps
<1>6. CASE c.answer.is # "found"
  <2> DEFINE p == [page EXCEPT !.phase = "blocked", !.run = c.before, !.runId = c.from,
                               !.pending = Nil, !.reason = c.answer.is]
  <2>1. /\ c.answer.is \in {"run_in_progress", "stale_worklist"} /\ rows[c.run] = Nil
        /\ \A d \in wire : d.kind = "start" /\ d.gone => d.run # c.run
    BY <1>1, <1>2, <1>6 DEF CallFits, Outrun
  <2>2. /\ p \in Controller /\ p.plan = page.plan /\ p.shown = page.shown /\ p.pending = Nil
        /\ p.run = page.run /\ p.runId = page.runId
    BY <1>3, <1>4, <2>1 DEF Controller, Phase
  <2>3. Take(p, c.from, Nil, wire \ {c})
    BY <1>6 DEF StartAnswered
  <2> HIDE DEF p
  <2>4. Take(p, p.runId, Nil, wire \ {c}) /\ SnapshotTrue(p.run, p.runId, rows)
    BY <1>3, <1>4, <2>2, <2>3 DEF PageFits
  <2> QED
    BY <1>1, <2>1, <2>2, <2>4, StartedKeeps
<1> QED
  BY <1>5, <1>6

\* A call is lost on its way or its answer is.
LEMMA LostKeeps ==
  ASSUME CampaignSound, NEW c \in wire, CallLost(c), ~Behind(c, issued)
  PROVE  CampaignSound'
<1> DEFINE late == {{}} \union IF c.phase = "sent" /\ c.kind \in {"start", "stop"}
                               THEN {{[c EXCEPT !.gone = TRUE]}} ELSE {}
<1>1. /\ ~c.gone /\ rows' = rows
      /\ \E rest \in late :
           LET others == (wire \ {c}) \union rest
           IN CASE c.kind = "start"   -> ShowPhase("uncertain", c.before, c.from, c.run, others)
                [] c.kind = "restore" -> ShowPhase(IF page.pending # Nil THEN "uncertain" ELSE "unavailable",
                                                   Nil, page.runId, page.pending, others)
                [] OTHER              -> ShowPhase("unavailable", c.before, c.run, Nil, others)
  BY DEF CallLost
<1>2. PICK rest \in late :
        LET others == (wire \ {c}) \union rest
        IN CASE c.kind = "start"   -> ShowPhase("uncertain", c.before, c.from, c.run, others)
             [] c.kind = "restore" -> ShowPhase(IF page.pending # Nil THEN "uncertain" ELSE "unavailable",
                                                Nil, page.runId, page.pending, others)
             [] OTHER              -> ShowPhase("unavailable", c.before, c.run, Nil, others)
  BY <1>1
<1> DEFINE others == (wire \ {c}) \union rest
<1>3. /\ others \subseteq (wire \ {c}) \union {[c EXCEPT !.gone = TRUE]}
      /\ c.phase # "sent" \/ c.kind \in {"read", "restore"} => others = wire \ {c}
  <2>1. CASE c.phase = "sent" /\ c.kind \in {"start", "stop"}
    BY <2>1
  <2>2. CASE ~(c.phase = "sent" /\ c.kind \in {"start", "stop"})
    <3>1. rest = {}
      BY <2>2
    <3> QED
      BY <3>1
  <2> QED
    BY <2>1, <2>2
<1>4. /\ c \in Call /\ CallFits(c, rows, wire, page, issued)
  BY <1>1, Waited
<1>5. kept.run = page.runId /\ kept.pending = page.pending /\ page \in Controller
  BY Shape
<1>6. CASE c.kind = "start"
  <2>1. ShowPhase("uncertain", c.before, c.from, c.run, others)
    BY <1>2, <1>6
  <2> HIDE DEF others
  <2> QED
    BY <1>1, <1>3, <1>6, <2>1, StartLostKeeps
<1>7. CASE c.kind = "restore"
  <2> DEFINE phase == IF page.pending # Nil THEN "uncertain" ELSE "unavailable"
             p == [page EXCEPT !.phase = phase, !.run = Nil]
  <2>1. ShowPhase(phase, Nil, page.runId, page.pending, others)
    BY <1>2, <1>7
  <2>2. others = wire \ {c}
    BY <1>3, <1>7
  <2>3. [page EXCEPT !.phase = phase, !.run = Nil, !.runId = page.runId, !.pending = page.pending] = p
    BY <1>5 DEF Controller
  <2>4. Take(p, kept.run, kept.pending, wire \ {c})
    BY <2>1, <2>2, <2>3 DEF ShowPhase
  <2>5. phase \in Phase /\ (page.pending # Nil => phase = "uncertain") /\ SnapshotTrue(Nil, c.run, rows)
    BY DEF Phase, SnapshotTrue
  <2> HIDE DEF phase
  <2> QED
    BY <1>1, <1>7, <2>4, <2>5, RestoredKeeps
<1>8. CASE c.kind \notin {"start", "restore"}
  <2>1. c.kind \in {"read", "stop"}
    BY <1>4, <1>8 DEF Call
  <2>2. ShowPhase("unavailable", c.before, c.run, Nil, others)
    BY <1>2, <1>8
  <2> HIDE DEF others
  <2>3. /\ page.pending = Nil /\ c.run = page.runId /\ c.before \in Snapshot \union {Nil}
        /\ SnapshotTrue(c.before, c.run, rows)
    BY <1>1, <2>1, AskedRun
  <2>4. Take([page EXCEPT !.phase = "unavailable", !.run = c.before, !.runId = c.run, !.pending = Nil],
             c.run, Nil, others)
    BY <1>5, <2>2, <2>3 DEF ShowPhase
  <2>5. "unavailable" \in Phase /\ (c.phase = "back" \/ c.kind = "read" => others \subseteq wire \ {c})
    BY <1>3 DEF Phase
  <2> QED
    BY <1>1, <1>3, <2>1, <2>3, <2>4, <2>5, AskedKeeps
<1> QED
  BY <1>6, <1>7, <1>8

-----------------------------------------------------------------------------
(* The invariant, and what follows from it.                                    *)

\* The invariant holds of a page just loaded.
LEMMA CampaignInit ==
  ASSUME ClientInit
  PROVE  CampaignSound
<1>1. /\ rows = [r \in 1..MaxStarts |-> Nil] /\ wire = {} /\ issued = <<>>
      /\ history = [before |-> 0, counted |-> <<>>, inSight |-> TRUE]
      /\ page = [phase |-> "idle", run |-> Nil, runId |-> Nil, pending |-> Nil, reason |-> Nil,
                 auto |-> FALSE, plan |-> Nil, shown |-> Nil]
      /\ kept = [run |-> Nil, pending |-> Nil] /\ campaign = Nil
  BY DEF ClientInit
<1>2. rows \in [Run -> Row \union {Nil}] /\ \A r \in Run : rows[r] = Nil
  BY <1>1 DEF Run
<1>3. page \in Controller
  BY <1>1 DEF Controller, Phase
<1>4. history \in History /\ issued \in Seq(Request) /\ Len(issued) <= MaxStarts
  <2>1. MaxStarts \in Nat /\ <<>> \in Seq(Run) /\ <<>> \in Seq(Request) /\ Len(<<>>) = 0
    BY TriageRunClientAssumption
  <2> QED
    BY <1>1, <2>1 DEF History
<1>5. ClientTyped(rows, wire, page, kept, issued, history)
  BY <1>1, <1>2, <1>3, <1>4 DEF ClientTyped
<1>6. RowsFit(rows, issued) /\ WireFits(rows, wire, page, issued)
  BY <1>1, <1>2 DEF RowsFit, WireFits
<1>7. PageFits(rows, page, issued) /\ CampaignFits(rows, page, issued, history)
  BY <1>1 DEF PageFits, SnapshotTrue, CampaignFits
<1>8. CompletedFits(page) /\ SettledFits(page) /\ campaign = page.plan
  BY <1>1 DEF CompletedFits, SettledFits
<1> QED
  BY <1>5, <1>6, <1>7, <1>8 DEF CampaignSound, RunsFit

\* Every step of the page, the server and the network keeps it, unless it shows a
\* late answer.
LEMMA CampaignNext ==
  ASSUME CampaignIInv, [ClientNext]_clientVars
  PROVE  CampaignIInv'
<1> SUFFICES ASSUME inOrder' PROVE CampaignSound'
  BY DEF CampaignIInv
<1>0. inOrder
  BY DEF ClientNext, clientVars, StartCampaign, ContinueBatch, SkipFailedAndContinue, ContinueWith,
         ResetCampaign, Resume, ReadRun, Poll, StopBatch, ReloadPage, ServeStart, ServeRead, ServeStop,
         StartAnswered, ReadAnswered, RestoreAnswered, StopAnswered, CallLost, EndRun, Heard
<1> CampaignSound
  BY <1>0 DEF CampaignIInv
<1>1. CASE UNCHANGED clientVars
  BY <1>1 DEF clientVars, CampaignSound
<1>2. CASE \E calls \in Allowed : StartCampaign(calls)
  BY <1>2, StartKeeps
<1>3. CASE ContinueBatch
  BY <1>3, ContinueKeeps DEF ContinueBatch
<1>4. CASE SkipFailedAndContinue
  BY <1>4, ContinueKeeps DEF SkipFailedAndContinue
<1>5. CASE ResetCampaign
  BY <1>5, ResetKeeps
<1>6. CASE Resume
  BY <1>6, ResumeKeeps
<1>7. CASE ReadRun
  BY <1>7, ReadKeeps
<1>8. CASE Poll
  BY <1>8, PollKeeps
<1>9. CASE StopBatch
  BY <1>9, StopKeeps
<1>10. CASE ReloadPage
  BY <1>10, ReloadKeeps
<1>11. CASE \E c \in wire : ServeStart(c) \/ ServeRead(c) \/ ServeStop(c)
  BY <1>11, ServeStartKeeps, ServeReadKeeps, ServeStopKeeps
<1>12. ASSUME NEW c \in wire,
              \/ StartAnswered(c) \/ ReadAnswered(c) \/ RestoreAnswered(c) \/ StopAnswered(c)
              \/ CallLost(c)
       PROVE  CampaignSound'
  <2>1. CASE StartAnswered(c)
    BY <2>1, StartAnsweredKeeps DEF StartAnswered, Heard
  <2>2. CASE ReadAnswered(c)
    BY <2>2, ReadAnsweredKeeps DEF ReadAnswered, Heard
  <2>3. CASE RestoreAnswered(c)
    BY <2>3, RestoreAnsweredKeeps
  <2>4. CASE StopAnswered(c)
    BY <2>4, StopAnsweredKeeps DEF StopAnswered, Heard
  <2>5. CASE CallLost(c)
    BY <2>5, LostKeeps DEF CallLost, Heard
  <2> QED
    BY <1>12, <2>1, <2>2, <2>3, <2>4, <2>5
<1>13. CASE \E r \in DOMAIN rows : EndRun(r)
  BY <1>13, EndKeeps
<1> QED
  BY <1>1, <1>2, <1>3, <1>4, <1>5, <1>6, <1>7, <1>8, <1>9, <1>10, <1>11, <1>12, <1>13 DEF ClientNext

\* A run of the campaign that is not counted does what the plan asks next.
LEMMA OneUncounted ==
  ASSUME CampaignSound, page.plan # Nil, NEW r \in Campaigns, r \notin CountedRuns
  PROVE  /\ IsNext(r, page, issued, history) /\ r = Len(issued) /\ r \in Run
         /\ rows[r] \in Row /\ RowFits(rows[r], BatchRequest(page.plan))
<1>1. /\ RunsFit(rows, wire, page, kept, issued, history) /\ RowsFit(rows, issued)
      /\ rows \in [Run -> Row \union {Nil}] /\ history \in History /\ issued \in Seq(Request)
      /\ ClientTyped(rows, wire, page, kept, issued, history)
  BY Shape
<1>2. PlanFits(rows, page, issued, history)
  BY <1>1, MadeBefore
<1>3. r \in 1..Len(issued) /\ r > history.before /\ rows[r] # Nil /\ r \in Nat /\ history.before \in Nat
  BY <1>1 DEF Campaigns, History
<1>4. r \in Run
  BY <1>1, <1>3, TriageRunClientAssumption DEF ClientTyped, Run
<1>5. r # Nil
  BY <1>4, NilApart
<1>6. Made(r, rows, issued, history)
  BY <1>3 DEF Made
<1>7. r \in {page.pending, page.runId}
  BY <1>2, <1>4, <1>6 DEF PlanFits, CountedRuns
<1>8. IsNext(r, page, issued, history)
  <2>1. CASE r = page.pending
    BY <1>2, <1>5, <2>1 DEF PlanFits
  <2>2. CASE r = page.runId
    <3>1. \/ page.runId \in {Nil, page.plan.last}
          \/ page.pending = Nil /\ IsNext(page.runId, page, issued, history)
          \/ ~history.inSight /\ page.runId <= history.before /\ history.counted = <<>>
      BY <1>2 DEF PlanFits
    <3>2. page.plan.last # Nil => page.plan.last \in CountedRuns \/ page.plan.last <= history.before
      BY <1>2 DEF PlanFits, CountedRuns
    <3> QED
      BY <1>3, <1>5, <2>2, <3>1, <3>2
  <2> QED
    BY <1>7, <2>1, <2>2
<1>9. r = Len(issued) /\ issued[r] = BatchRequest(page.plan)
  BY <1>8 DEF IsNext
<1>10. rows[r] \in Row /\ RowFits(rows[r], BatchRequest(page.plan))
  BY <1>1, <1>3, <1>4, <1>9 DEF RowsFit
<1> QED
  BY <1>4, <1>8, <1>9, <1>10

\* The figures the page shows follow from the invariant.
LEMMA CampaignFollows ==
  ASSUME CampaignSound
  PROVE  CampaignTrue
<1> SUFFICES ASSUME page.plan # Nil, history.inSight
             PROVE  /\ CountedOnce /\ CountedRuns \subseteq Campaigns
                    /\ page.plan.calls = Spent(CountedRuns)
                    /\ Spent(Campaigns) <= page.plan.maxCalls
                    /\ page.shown = "completed" =>
                         \A m \in 0..page.plan.total - 1 : \E r \in CountedRuns : Covers(r, m, rows, issued)
  BY DEF CampaignTrue
<1> DEFINE plan == page.plan
<1>1. /\ RunsFit(rows, wire, page, kept, issued, history) /\ CompletedFits(page)
      /\ rows \in [Run -> Row \union {Nil}]
  BY Shape
<1>2. PlanFits(rows, page, issued, history) /\ FiguresFit(rows, page, issued, history)
  BY <1>1, MadeBefore
<1>3. /\ plan \in Plan /\ issued \in Seq(Request)
      /\ plan.retrying => plan.retry # <<>>
      /\ \A r \in CountedRuns : r \in Run /\ r \in 1..Len(issued) /\ rows[r] \in Row
  BY <1>1, MadeBefore DEF CountedRuns
<1>4. /\ plan.calls \in Nat /\ plan.maxCalls \in Nat /\ plan.offset \in Nat /\ plan.total \in Nat
      /\ plan.retry \in Seq(Nat) /\ plan.unread \in Int
  BY <1>3, TriageRunClientAssumption DEF Plan
<1>5. /\ IsInjective(history.counted)
      /\ plan.calls = SpentBy(rows, CountedRuns) /\ plan.calls <= plan.maxCalls
      /\ plan.unread >= Len(plan.retry)
      /\ plan.unread = Len(plan.retry) /\ plan.other = 0 =>
           \A m \in 0..plan.offset - 1 :
             m \in ToSet(plan.retry) \/ \E r \in CountedRuns : Covers(r, m, rows, issued)
  BY <1>2 DEF FiguresFit, CountedRuns
<1>6. CountedOnce
  BY <1>5 DEF CountedOnce
<1>7. CountedRuns \subseteq Campaigns
  <2>1. \A r \in CountedRuns : r > history.before /\ rows[r] # Nil
    BY <1>2 DEF PlanFits, CountedRuns
  <2> QED
    BY <1>3, <2>1 DEF Campaigns
<1>8. plan.calls = Spent(CountedRuns)
  BY <1>5 DEF Spent
<1>9. Spent(Campaigns) <= plan.maxCalls
  <2>1. CASE Campaigns \subseteq CountedRuns
    <3>1. Campaigns = CountedRuns
      BY <1>7, <2>1
    <3> QED
      BY <1>5, <1>8, <3>1
  <2>2. CASE ~(Campaigns \subseteq CountedRuns)
    <3>1. PICK r \in Campaigns : r \notin CountedRuns
      BY <2>2
    <3>2. /\ r \in Run /\ r = Len(issued) /\ rows[r] \in Row /\ RowFits(rows[r], BatchRequest(plan))
      BY <3>1, OneUncounted
    <3>3. \A q \in Campaigns : q \notin CountedRuns => q = r
      BY <3>2, OneUncounted
    <3>4. Campaigns = CountedRuns \union {r}
      BY <1>7, <3>1, <3>3
    <3> DEFINE S == CountedRuns
    <3>5. \A q \in S \union {r} : rows[q].calls \in Nat
      BY <1>3, <3>2 DEF Row
    <3>6. r \in 1..MaxStarts /\ r \notin S
      BY <3>1, <3>2 DEF Run
    <3> HIDE DEF S
    <3>7. SpentBy(rows, S \union {r}) = SpentBy(rows, S) + rows[r].calls
      BY ONLY <3>5, <3>6, SpentAdd
    <3>8. Spent(Campaigns) = plan.calls + rows[r].calls
      BY <1>5, <3>4, <3>7 DEF Spent, S
    <3>9. BatchRequest(plan) \in Request /\ BatchRequest(plan).limit <= plan.maxCalls - plan.calls
      BY <1>3, BatchType
    <3>10. rows[r].calls <= BatchRequest(plan).limit \/ rows[r].calls = 0
      BY <3>2 DEF RowFits
    <3>11. rows[r].calls \in Nat /\ BatchRequest(plan).limit \in Int
      BY <3>2, <3>9 DEF Row, Request
    <3> QED
      BY <1>4, <1>5, <3>8, <3>9, <3>10, <3>11
  <2> QED
    BY <2>1, <2>2
<1>10. ASSUME page.shown = "completed", NEW m \in 0..plan.total - 1
       PROVE  \E r \in CountedRuns : Covers(r, m, rows, issued)
  <2>1. plan.offset = plan.total /\ plan.unread = 0 /\ plan.other = 0
    BY <1>1, <1>10 DEF CompletedFits
  <2>2. Len(plan.retry) = 0 /\ ToSet(plan.retry) = {}
    <3>1. Len(plan.retry) \in Nat
      BY <1>4
    <3>2. Len(plan.retry) = 0
      BY <1>5, <2>1, <3>1
    <3> QED
      BY <1>4, <3>2 DEF ToSet
  <2> QED
    BY <1>5, <1>10, <2>1, <2>2
<1> QED
  BY <1>6, <1>7, <1>8, <1>9, <1>10

\* That no batch is made twice follows from the invariant.
LEMMA BatchFollows ==
  ASSUME CampaignSound
  PROVE  NoBatchTwice
<1> SUFFICES ASSUME page.plan # Nil, NEW q \in Campaigns, NEW r \in Campaigns,
                    NEW m \in Selects(q, issued) \cap Selects(r, issued), q < r
             PROVE  issued[r].retrying /\ Unread(q, m, rows, issued)
  BY DEF NoBatchTwice
<1> DEFINE plan == page.plan
<1>1. RunsFit(rows, wire, page, kept, issued, history)
  BY Shape
<1>2. PlanFits(rows, page, issued, history) /\ WorkFits(rows, page, issued, history)
  BY <1>1, MadeBefore
<1>3. plan \in Plan /\ issued \in Seq(Request) /\ (plan.retrying => plan.retry # <<>>)
  BY <1>1, MadeBefore
<1>4. /\ q \in 1..Len(issued) /\ r \in 1..Len(issued)
      /\ q > history.before /\ r > history.before
  BY <1>3 DEF Campaigns
<1>5. q \in CountedRuns
  <2> SUFFICES ASSUME q \notin CountedRuns PROVE FALSE
    OBVIOUS
  <2>1. q = Len(issued)
    BY OneUncounted
  <2> QED
    BY <1>4, <2>1
<1>6. q \in {x \in ToSet(history.counted) : x > history.before}
  BY <1>4, <1>5 DEF CountedRuns
<1>7. CASE r \in CountedRuns
  <2>1. r \in {x \in ToSet(history.counted) : x > history.before}
    BY <1>4, <1>7 DEF CountedRuns
  <2> QED
    BY <1>2, <1>6, <2>1 DEF WorkFits
<1>8. CASE r \notin CountedRuns
  <2>1. issued[r] = BatchRequest(plan)
    BY <1>8, OneUncounted DEF IsNext
  <2>2. m < plan.offset /\ (m \in ToSet(plan.retry) => Unread(q, m, rows, issued))
    BY <1>2, <1>6 DEF WorkFits
  <2>3. /\ issued[r] \in Request /\ issued[r].retrying = plan.retrying
        /\ plan.retrying => /\ issued[r].offset = Head(plan.retry) /\ issued[r].messages = 1
                            /\ Head(plan.retry) \in ToSet(plan.retry)
        /\ ~plan.retrying => issued[r].offset = plan.offset
    BY <1>3, <2>1, BatchType
  <2>4. /\ issued[r].offset \in Nat /\ issued[r].messages \in Int /\ plan.offset \in Nat
        /\ plan.retrying \in BOOLEAN
    BY <1>3, <2>3 DEF Request, Plan
  <2>5. m \in issued[r].offset .. issued[r].offset + issued[r].messages - 1
    BY DEF Selects
  <2>6. plan.retrying
    BY <2>2, <2>3, <2>4, <2>5
  <2>7. m = Head(plan.retry)
    BY <2>3, <2>4, <2>5, <2>6
  <2> QED
    BY <2>2, <2>3, <2>6, <2>7
<1> QED
  BY <1>7, <1>8

(* The plan of a campaign, the run the page waits for, the calls under way and  *)
(* the rows of the server fit one another at every step until a late answer is  *)
(* shown, however the calls overtake one another (triage-run-client.ts).        *)
THEOREM CampaignInvariant == ClientSpec => []CampaignIInv
<1>1. ClientInit => CampaignIInv
  BY CampaignInit DEF CampaignIInv
<1>2. CampaignIInv /\ [ClientNext]_clientVars => CampaignIInv'
  BY CampaignNext
<1> QED
  BY <1>1, <1>2, PTL DEF ClientSpec

(* A campaign that began with its last run in sight, and was shown no late      *)
(* answer, tells the calls of the runs it made, each once, stays within what    *)
(* was allowed and is complete only when every message is classified or current *)
(* (countRunItems, batchOutcome).                                               *)
THEOREM CampaignsAreTold == ClientSpec => []CampaignTrue
<1>1. CampaignIInv => CampaignTrue
  BY CampaignFollows DEF CampaignIInv, CampaignTrue
<1>2. ClientSpec => []CampaignIInv
  BY CampaignInvariant
<1> QED
  BY <1>1, <1>2, PTL

(* Two runs of one campaign select the same message only when the first could   *)
(* not read it and the second tries it again, whatever was lost or loaded again *)
(* in between and whatever is still under way, until a late answer is shown     *)
(* (usePendingExecutor, the pending start kept in storage).                     *)
THEOREM BatchesAreMadeOnce == ClientSpec => []NoBatchTwice
<1>1. CampaignIInv => NoBatchTwice
  BY BatchFollows DEF CampaignIInv, NoBatchTwice
<1>2. ClientSpec => []CampaignIInv
  BY CampaignInvariant
<1> QED
  BY <1>1, <1>2, PTL

===============================================================================
