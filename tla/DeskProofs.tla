----------------------------- MODULE DeskProofs -----------------------------
(* Proofs about the two parts of the desk a run checks together, each of its   *)
(* own specification.                                                          *)
(*                                                                             *)
(* Reviews, for any fields, subjects, Save ids and bounds: what the browser    *)
(* says of a save is what the store holds. An id may be on several calls at    *)
(* once, in the tab's storage, in the panel and in the journal; that it stands *)
(* for one content in all these places (OneContent) is what makes an answer of *)
(* the journal an answer to the save the person sees.                          *)
(*                                                                             *)
(* OpenWork, for any copies, requests, handlers and page sizes: a request id   *)
(* is recorded exactly when one decision stands for it (WorkIInv), a list read *)
(* while the mailbox stood still is true (QuietIInv), and a list loaded to its *)
(* end is whole (WholeIInv).                                                   *)
EXTENDS Reviews, OpenWork, PagesProofs

Uses == Sends \union Keeps \union Stored \union Awaits

\* Nothing is decided, kept or stored at first.
LEMMA ReviewsInitIInv == ReviewsInit => ReviewsIInv
<1> SUFFICES ASSUME ReviewsInit PROVE ReviewsIInv
  OBVIOUS
<1>1. calls = {} /\ panel = None /\ reviews = <<>>
  BY DEF ReviewsInit
<1>2. CallsTyped /\ PanelTyped /\ AnswersTrue /\ ShownTrue
  BY <1>1 DEF CallsTyped, PanelTyped, AnswersTrue, ShownTrue
<1>3. JournalShape /\ SessionTyped
  BY DEF ReviewsInit, JournalShape, SessionTyped
<1>4. Sends = {} /\ Keeps = {} /\ Stored = {} /\ Awaits = {}
  BY <1>1 DEF ReviewsInit, Sends, Keeps, Stored, Awaits
<1>5. OneContent
  BY <1>4 DEF OneContent
<1>6. JournalTrue
  BY <1>1 DEF ReviewsInit, JournalTrue, RowsOf
<1>7. ToldTrue
  BY ReviewsAssumption DEF ReviewsInit, ToldTrue, Refusal
<1> QED
  BY <1>2, <1>3, <1>5, <1>6, <1>7 DEF ReviewsIInv

\* An id that gets no use it did not have keeps its content.
LEMMA FewerUses == OneContent /\ Uses' \subseteq Uses => OneContent'
  BY DEF OneContent, Uses

\* A call that comes of another one: it asks the same under the same id.
ComesOf(d, c) ==
  /\ d = [x \in CallField |-> d[x]]
  /\ d.request = c.request /\ d.subject = c.subject /\ d.verdict = c.verdict

LEMMA CallsComeOf ==
  ASSUME CallsTyped, \A d \in calls' : \E c \in calls : ComesOf(d, c)
  PROVE  CallsTyped' /\ Sends' \subseteq Sends
<1>1. CallsTyped'
  BY DEF CallsTyped, ComesOf
<1>2. ASSUME NEW d \in calls' PROVE <<d.request, Payload(d)>> \in Sends
  <2>1. PICK c \in calls : ComesOf(d, c)
    OBVIOUS
  <2>2. Payload(d) = Payload(c) /\ d.request = c.request
    BY <2>1 DEF Payload, ComesOf
  <2> QED
    BY <2>2 DEF Sends
<1>3. Sends' \subseteq Sends
  BY <1>2 DEF Sends, Payload
<1> QED
  BY <1>1, <1>3

LEMMA Itself == CallsTyped => \A c \in calls : ComesOf(c, c)
  BY DEF CallsTyped, ComesOf

\* The forms a call takes on its way.
LEMMA CallForms ==
  ASSUME CallsTyped, NEW c \in calls
  PROVE  /\ ComesOf(c, c) /\ ComesOf([c EXCEPT !.mute = TRUE], c)
         /\ [c EXCEPT !.mute = TRUE].phase = c.phase
         /\ \A answer : /\ ComesOf(Answered(c, answer), c)
                        /\ Answered(c, answer).phase = "back" /\ Answered(c, answer).answer = answer
         /\ \A kind : LET d == [c EXCEPT !.kind = kind, !.phase = "sent", !.answer = None]
                      IN ComesOf(d, c) /\ d.phase = "sent"
  BY DEF CallsTyped, ComesOf, CallField, Answered

\* Calls nobody waits for are saves on their way.
LEMMA SilencedForms ==
  ASSUME CallsTyped, NEW S, S \subseteq calls, NEW d \in Silenced(S)
  PROVE  (\E c \in calls : ComesOf(d, c)) /\ d.phase = "sent"
<1>1. PICK c \in S : d = [c EXCEPT !.mute = TRUE] /\ c.phase = "sent"
  BY DEF Silenced
<1> QED
  BY <1>1, CallForms

\* A call that carries nothing untrue.
Honest(d) ==
  \/ d.phase = "sent"
  \/ ~Settled(d.answer)
  \/ d.answer = "failed"
  \/ requests[d.request] # None /\ requests[d.request].result = d.answer

\* While the journal, the tab and the panel stand still, calls may move on.
LEMMA CallsStep ==
  ASSUME ReviewsIInv, UNCHANGED <<journalVars, reading, panel, session, told>>,
         \A d \in calls' : d \in calls \/ ((\E c \in calls : ComesOf(d, c)) /\ Honest(d))
  PROVE  ReviewsIInv'
<1> USE DEF journalVars
<1>1. CallsTyped' /\ Sends' \subseteq Sends
  <2>1. \A c \in calls : ComesOf(c, c)
    BY Itself DEF ReviewsIInv
  <2>2. \A d \in calls' : \E c \in calls : ComesOf(d, c)
    BY <2>1
  <2> QED
    BY <2>2, CallsComeOf DEF ReviewsIInv
<1>2. Keeps' = Keeps /\ Stored' = Stored /\ Awaits' = Awaits
  BY DEF Keeps, Stored, Awaits, Deciding
<1>3. OneContent'
  BY <1>1, <1>2, FewerUses DEF ReviewsIInv, Uses
<1>4. JournalShape' /\ SessionTyped' /\ PanelTyped'
  BY DEF ReviewsIInv, JournalShape, SessionTyped, PanelTyped
<1>5. AnswersTrue'
  BY DEF ReviewsIInv, AnswersTrue, Honest
<1>6. JournalTrue' /\ ToldTrue' /\ ShownTrue'
  BY DEF ReviewsIInv, JournalTrue, RowsOf, ToldTrue, ShownTrue
<1> QED
  BY <1>1, <1>3, <1>4, <1>5, <1>6 DEF ReviewsIInv

\* The journal never calls a request of this page a conflict: what it knows of the
\* id is what the call asks.
LEMMA Said ==
  ASSUME ReviewsIInv, NEW c \in calls
  PROVE  \/ requests[c.request] = None /\ RequestSaid(c) = Absent
         \/ /\ requests[c.request] # None /\ requests[c.request].payload = Payload(c)
            /\ RequestSaid(c) = requests[c.request].result
            /\ RequestSaid(c) \in Refusal \union {Recorded}
<1>1. c.request \in Request
  BY DEF ReviewsIInv, CallsTyped
<1>2. CASE requests[c.request] = None
  BY <1>2 DEF RequestSaid, RequestOutcome
<1>3. CASE requests[c.request] # None
  <2>1. <<c.request, Payload(c)>> \in Sends
    BY DEF Sends
  <2>2. <<c.request, requests[c.request].payload>> \in Stored
    BY <1>1, <1>3 DEF Stored
  <2>3. requests[c.request].payload = Payload(c)
    BY <2>1, <2>2 DEF ReviewsIInv, OneContent
  <2>4. requests[c.request].result \in Refusal \union {Recorded}
    BY <1>1, <1>3 DEF ReviewsIInv, JournalShape, RequestRow
  <2> QED
    BY <1>3, <2>3, <2>4 DEF RequestSaid, RequestOutcome
<1> QED
  BY <1>2, <1>3

\* An answer comes back to the page, if it still waits for it.
LEMMA BackKeeps ==
  ASSUME ReviewsIInv, NEW c \in calls, NEW answer, Back(c, answer),
         UNCHANGED <<journalVars, reading, panel, session, told>>,
         \/ ~Settled(answer) \/ answer = "failed"
         \/ requests[c.request] # None /\ requests[c.request].result = answer
  PROVE  ReviewsIInv'
<1>1. \A d \in calls' : d \in calls \/ d = Answered(c, answer)
  BY DEF Back
<1>2. CallsTyped
  BY DEF ReviewsIInv
<1>3. ComesOf(Answered(c, answer), c) /\ Answered(c, answer).answer = answer
  BY <1>2, CallForms
<1>4. Honest(Answered(c, answer))
  BY <1>3 DEF Honest, ComesOf
<1> QED
  BY <1>1, <1>3, <1>4, CallsStep

LEMMA StatusKeeps ==
  ASSUME ReviewsIInv, NEW c \in calls, ReviewStatus(c)
  PROVE  ReviewsIInv'
<1>1. UNCHANGED <<journalVars, reading, panel, session, told>>
  BY DEF ReviewStatus, browserVars
<1>2. CASE Back(c, RequestSaid(c))
  <2>1. \/ ~Settled(RequestSaid(c))
        \/ requests[c.request] # None /\ requests[c.request].result = RequestSaid(c)
    BY Said DEF Settled
  <2> QED
    BY <1>1, <1>2, <2>1, BackKeeps
<1>3. CASE Back(c, "unavailable")
  BY <1>1, <1>3, BackKeeps DEF Settled
<1> QED
  BY <1>2, <1>3 DEF ReviewStatus

\* An answer lost on the way, or one the store still has to give.
LEMMA LoseKeeps ==
  ASSUME ReviewsIInv, NEW c \in calls, Lose(c)
  PROVE  ReviewsIInv'
<1>1. UNCHANGED <<journalVars, reading, panel, session, told>>
  BY DEF Lose, browserVars
<1> DEFINE lost == Answered(c, IF c.kind = "save" THEN "unknown" ELSE "unavailable")
<1>2. CallsTyped
  BY DEF ReviewsIInv
<1>3. \A d \in calls' : d \in calls \/ d \in Silenced({c}) \/ d = lost
  BY DEF Lose
<1>4. \A d \in Silenced({c}) : (\E e \in calls : ComesOf(d, e)) /\ d.phase = "sent"
  <2>1. {c} \subseteq calls
    OBVIOUS
  <2> QED
    BY <1>2, <2>1, SilencedForms
<1>5. ComesOf(lost, c) /\ lost.answer \in {"unknown", "unavailable"}
  BY <1>2, CallForms
<1> HIDE DEF lost
<1>6. \A d \in Silenced({c}) : Honest(d)
  BY <1>4 DEF Honest
<1>7. Honest(lost)
  BY <1>5 DEF Honest, Settled
<1> QED
  BY <1>1, <1>3, <1>4, <1>5, <1>6, <1>7, CallsStep

\* One write transaction: the journal grows by at most the call's own answer.
LEMMA RecordGrows ==
  ASSUME ReviewsIInv, NEW c \in calls, RecordReview(c)
  PROVE  /\ JournalShape' /\ JournalTrue'
         /\ \A r \in Request : requests[r] # None => requests'[r] = requests[r]
         /\ \A i \in DOMAIN reviews : i \in DOMAIN reviews' /\ reviews'[i] = reviews[i]
         /\ Stored' \subseteq Stored \union Sends
         /\ requests'[c.request] # None /\ requests'[c.request].payload = Payload(c)
         /\ requests'[c.request].result \in Refusal \union {Recorded}
<1> DEFINE r == c.request
<1>1. /\ r \in Request /\ Payload(c) \in [subject : Subject, verdict : Labels]
      /\ requests \in [Request -> RequestRow \union {None}]
      /\ reviews \in Seq([subject : Subject, verdict : Labels, at : Nat, request : Request])
  BY DEF ReviewsIInv, CallsTyped, JournalShape, Payload
<1>2. CASE UNCHANGED journalVars /\ RequestSaid(c) # Absent
  <2>1. /\ requests[r] # None /\ requests[r].payload = Payload(c)
        /\ requests[r].result \in Refusal \union {Recorded}
    BY <1>2, Said
  <2>2. requests' = requests /\ reviews' = reviews
    BY <1>2 DEF journalVars
  <2>3. JournalShape' /\ JournalTrue' /\ Stored' = Stored
    BY <2>2 DEF ReviewsIInv, JournalShape, JournalTrue, RowsOf, Stored
  <2> QED
    BY <2>1, <2>2, <2>3
<1>3. CASE RequestSaid(c) = Absent
  <2>1. requests[r] = None
    BY <1>3, Said DEF Absent, Refusal, Recorded
  <2>2. RowsOf(r) = {}
    BY <1>1, <2>1 DEF ReviewsIInv, JournalTrue
  <2>3. PICK result \in Refusal \union {Recorded} :
          /\ requests' = [requests EXCEPT ![r] = Remembered(Payload(c), result)]
          /\ reviews' = IF result = Recorded THEN AppendReview(c) ELSE reviews
    <3>1. Admission(c.subject) \in Refusal \union {"admitted"}
      BY DEF Admission, Refusal
    <3> QED
      BY <1>3, <3>1 DEF RecordReview, Remember, Refusal, Recorded
  <2> DEFINE row == Remembered(Payload(c), result)
  <2>4. row \in RequestRow /\ row.payload = Payload(c) /\ row.result = result /\ row # None
    BY <1>1, ReviewsAssumption DEF Remembered, RequestRow
  <2> HIDE DEF row
  <2>5. requests'[r] = row /\ \A q \in Request : q # r => requests'[q] = requests[q]
    BY <1>1, <2>3 DEF row
  <2>6. requests' \in [Request -> RequestRow \union {None}]
    BY <1>1, <2>3, <2>4 DEF row
  <2>7. Stored' \subseteq Stored \union Sends
    <3>1. <<r, row.payload>> \in Sends
      BY <2>4 DEF Sends
    <3> QED
      BY <2>5, <3>1 DEF Stored
  <2>8. CASE result # Recorded
    <3>1. reviews' = reviews
      BY <2>3, <2>8
    <3>2. JournalShape'
      BY <1>1, <2>6, <3>1 DEF JournalShape
    <3>3. JournalTrue'
      BY <2>2, <2>4, <2>5, <2>8, <3>1 DEF ReviewsIInv, JournalTrue, RowsOf
    <3> QED
      BY <2>1, <2>4, <2>5, <2>7, <3>1, <3>2, <3>3
  <2>9. CASE result = Recorded
    <3> DEFINE new == [subject |-> c.subject, verdict |-> c.verdict, at |-> Now, request |-> r]
               n == Len(reviews)
    <3>1. reviews' = Append(reviews, new) /\ n \in Nat /\ Now \in Nat
      BY <1>1, <2>3, <2>9 DEF AppendReview, Now
    <3>2. new \in [subject : Subject, verdict : Labels, at : Nat, request : Request]
      BY <3>1 DEF ReviewsIInv, CallsTyped
    <3>3. new.request = r /\ new.verdict = c.verdict
      OBVIOUS
    <3> HIDE DEF new
    <3>4. /\ DOMAIN reviews = 1..n /\ DOMAIN reviews' = 1..(n + 1)
          /\ reviews'[n + 1] = new /\ \A i \in 1..n : reviews'[i] = reviews[i]
      BY <1>1, <3>1, <3>2
    <3>5. JournalShape'
      BY <1>1, <2>6, <3>1, <3>2 DEF JournalShape
    <3>6. RowsOf(r)' = {n + 1} /\ \A q \in Request : q # r => RowsOf(q)' = RowsOf(q)
      BY <2>2, <3>1, <3>3, <3>4 DEF RowsOf
    <3>7. RowsOf(r)' # {} /\ \A i \in RowsOf(r)' : i = n + 1
      BY <3>6
    <3>8. \A q \in Request \ {r} : \A i \in RowsOf(q) : reviews'[i] = reviews[i]
      BY <3>4 DEF RowsOf
    <3>9. row.payload.verdict = c.verdict
      BY <2>4 DEF Payload
    <3>10. JournalTrue'
      BY <2>4, <2>5, <2>9, <3>3, <3>4, <3>6, <3>7, <3>8, <3>9 DEF ReviewsIInv, JournalTrue
    <3> QED
      BY <2>1, <2>4, <2>5, <2>7, <3>4, <3>5, <3>10
  <2> QED
    BY <2>8, <2>9
<1> QED
  BY <1>2, <1>3 DEF RecordReview

\* A save of which the store keeps a record, answered or not.
LEMMA StoreKeeps ==
  ASSUME ReviewsIInv, NEW c \in calls, StoreReview(c)
  PROVE  ReviewsIInv'
<1>1. reading' = reading /\ panel' = panel /\ session' = session /\ told' = told
  BY DEF StoreReview, browserVars
<1>2. CallsTyped /\ c.request \in Request
  BY DEF ReviewsIInv, CallsTyped
<1>3. CASE UNCHANGED journalVars /\ \E answer \in {"failed", "unknown"} : Back(c, answer)
  <2>1. PICK answer \in {"failed", "unknown"} : Back(c, answer)
    BY <1>3
  <2>2. ~Settled(answer) \/ answer = "failed"
    BY DEF Settled
  <2> QED
    BY <1>1, <1>3, <2>1, <2>2, BackKeeps
<1>4. CASE RecordReview(c) /\ (Back(c, Result(c)) \/ Back(c, "unknown"))
  <2>1. /\ JournalShape' /\ JournalTrue'
        /\ \A r \in Request : requests[r] # None => requests'[r] = requests[r]
        /\ \A i \in DOMAIN reviews : i \in DOMAIN reviews' /\ reviews'[i] = reviews[i]
        /\ Stored' \subseteq Stored \union Sends
        /\ requests'[c.request] # None /\ requests'[c.request].payload = Payload(c)
    BY <1>4, RecordGrows
  <2>2. PICK answer : /\ Back(c, answer)
                      /\ answer = "unknown" \/ answer = requests'[c.request].result
    <3>1. Result(c) = requests'[c.request].result
      BY <2>1 DEF Result, RequestOutcome
    <3> QED
      BY <1>4, <3>1
  <2>3. \A d \in calls' : d \in calls \/ d = Answered(c, answer)
    BY <2>2 DEF Back
  <2>4. ComesOf(Answered(c, answer), c) /\ Answered(c, answer).answer = answer
    BY <1>2, CallForms
  <2>5. CallsTyped' /\ Sends' \subseteq Sends
    <3>1. \A d \in calls : ComesOf(d, d)
      BY <1>2, Itself
    <3>2. \A d \in calls' : \E e \in calls : ComesOf(d, e)
      BY <2>3, <2>4, <3>1
    <3> QED
      BY <1>2, <3>2, CallsComeOf
  <2>6. OneContent'
    <3>1. Keeps' = Keeps /\ Awaits' = Awaits
      BY <1>1 DEF Keeps, Awaits, Deciding
    <3> QED
      BY <2>1, <2>5, <3>1, FewerUses DEF ReviewsIInv, Uses
  <2>7. AnswersTrue'
    <3> SUFFICES ASSUME NEW d \in calls', d.phase = "back", Settled(d.answer), d.answer # "failed"
                 PROVE  requests'[d.request] # None /\ requests'[d.request].result = d.answer
      BY DEF AnswersTrue
    <3>1. CASE d \in calls
      BY <2>1, <3>1 DEF ReviewsIInv, AnswersTrue, CallsTyped
    <3>2. CASE d = Answered(c, answer)
      <4>1. d.request = c.request /\ d.answer = answer
        BY <2>4, <3>2 DEF ComesOf
      <4>2. answer # "unknown"
        BY <4>1 DEF Settled
      <4> QED
        BY <2>1, <2>2, <4>1, <4>2
    <3> QED
      BY <2>3, <3>1, <3>2
  <2>8. SessionTyped' /\ PanelTyped'
    BY <1>1 DEF ReviewsIInv, SessionTyped, PanelTyped
  <2>9. ToldTrue'
    BY <1>1, <2>1 DEF ReviewsIInv, ToldTrue
  <2>10. ShownTrue'
    BY <1>1, <2>1 DEF ReviewsIInv, ShownTrue
  <2> QED
    BY <2>1, <2>5, <2>6, <2>7, <2>8, <2>9, <2>10 DEF ReviewsIInv
<1> QED
  BY <1>3, <1>4 DEF StoreReview

-----------------------------------------------------------------------------
\* The browser's own steps leave the journal as it is.
LEMMA BrowserStep ==
  ASSUME ReviewsIInv, UNCHANGED journalVars,
         CallsTyped', AnswersTrue', OneContent', SessionTyped', PanelTyped', ToldTrue', ShownTrue'
  PROVE  ReviewsIInv'
BY DEF journalVars, ReviewsIInv, JournalShape, JournalTrue, RowsOf

LEMMA CallsMove ==
  ASSUME CallsTyped, AnswersTrue, UNCHANGED requests,
         \A d \in calls' : d \in calls \/ ((\E c \in calls : ComesOf(d, c)) /\ Honest(d))
  PROVE  CallsTyped' /\ AnswersTrue' /\ Sends' \subseteq Sends
<1>1. \A c \in calls : ComesOf(c, c)
  BY Itself
<1>2. \A d \in calls' : \E c \in calls : ComesOf(d, c)
  BY <1>1
<1>3. AnswersTrue'
  BY DEF AnswersTrue, Honest
<1> QED
  BY <1>2, <1>3, CallsComeOf

\* Calls an earlier attempt made.
LEMMA MutedForms ==
  ASSUME CallsTyped, NEW mount, NEW d \in Muted(mount)
  PROVE  d \in calls \/ ((\E c \in calls : ComesOf(d, c)) /\ Honest(d))
<1>1. CASE d \in calls
  BY <1>1
<1>2. CASE d \in Silenced({c \in calls : c.mount = mount})
  <2> DEFINE own == {c \in calls : c.mount = mount}
  <2>1. own \subseteq calls
    OBVIOUS
  <2>2. (\E c \in calls : ComesOf(d, c)) /\ d.phase = "sent"
    BY <1>2, <2>1, SilencedForms
  <2> QED
    BY <2>2 DEF Honest
<1> QED
  BY <1>1, <1>2 DEF Muted

\* One more request goes out.
LEMMA SendForms ==
  ASSUME CallsTyped, AnswersTrue, UNCHANGED requests, NEW others, NEW new, Sent(others, new),
         \A d \in others : d \in calls \/ ((\E c \in calls : ComesOf(d, c)) /\ Honest(d)),
         new = [x \in CallField |-> new[x]], new.phase = "sent",
         new.request \in Request, new.subject \in Subject, new.verdict \in Labels
  PROVE  CallsTyped' /\ AnswersTrue' /\ Sends' \subseteq Sends \union {<<new.request, Payload(new)>>}
<1>1. calls' = others \union {new}
  BY DEF Sent
<1>2. \A c \in calls : ComesOf(c, c)
  BY Itself
<1>3. \A d \in others : \E c \in calls : ComesOf(d, c)
  BY <1>2
<1>4. CallsTyped'
  BY <1>1, <1>3 DEF CallsTyped, ComesOf
<1>5. AnswersTrue'
  BY <1>1 DEF AnswersTrue, Honest
<1>6. ASSUME NEW d \in others PROVE <<d.request, Payload(d)>> \in Sends
  <2>1. PICK c \in calls : ComesOf(d, c)
    BY <1>3
  <2>2. Payload(d) = Payload(c) /\ d.request = c.request
    BY <2>1 DEF Payload, ComesOf
  <2> QED
    BY <2>2 DEF Sends
<1>7. Sends' = {<<d.request, Payload(d)>> : d \in calls'}
  BY DEF Sends, Payload
<1>8. Sends' \subseteq Sends \union {<<new.request, Payload(new)>>}
  BY <1>1, <1>6, <1>7
<1> QED
  BY <1>4, <1>5, <1>8

\* A panel that starts again has recorded nothing and waits for nothing.
LEMMA StartForms ==
  ASSUME NEW listed, listed.subject \in Subject, NEW mount
  PROVE  LET new == StartFrom(listed, mount)
         IN /\ new = [x \in PanelField |-> new[x]]
            /\ new.choices \in Labels /\ new.recorded = Undecided /\ new.recorded \in Labels
            /\ new.signature = listed /\ new.pending = None /\ new.status = "idle"
<1> DEFINE new == StartFrom(listed, mount)
<1>1. /\ new = [x \in PanelField |-> new[x]] /\ new.signature = listed /\ new.pending = None
      /\ new.status = "idle" /\ new.choices = Undecided /\ new.recorded = Undecided
  BY DEF StartFrom, PanelField
<1>2. Undecided \in Labels
  BY DEF Undecided, Labels
<1> QED
  BY <1>1, <1>2

\* A reading arrives: a panel that starts again waits for nothing.
LEMMA ReadKeeps ==
  ASSUME ReviewsIInv, inForce \in Subject, Read
  PROVE  ReviewsIInv'
<1>1. /\ UNCHANGED journalVars /\ calls' = calls /\ session' = session /\ told' = told
      /\ reading' = Listed
  BY DEF Read, Show
<1>2. \/ panel' = None
      \/ Listed.subject # None /\ panel # None /\ panel' = panel
         /\ (panel.signature = Listed \/ Settling(panel.status))
      \/ Listed.subject # None /\ \E mount : panel' = StartFrom(Listed, mount)
  BY DEF Read, Show, Shown
<1>3. Listed.subject # None => Listed.subject \in Subject
  BY DEF Listed
<1>4. requests' = requests /\ reviews' = reviews
  BY <1>1 DEF journalVars
<1>5. CallsTyped' /\ AnswersTrue' /\ SessionTyped' /\ ToldTrue'
  BY <1>1, <1>4 DEF ReviewsIInv, CallsTyped, AnswersTrue, SessionTyped, ToldTrue
<1>6. PanelTyped' /\ ShownTrue' /\ Awaits' \subseteq Awaits
  <2>1. CASE panel' = None
    BY <2>1 DEF PanelTyped, ShownTrue, Awaits
  <2>2. CASE Listed.subject # None /\ panel # None /\ panel' = panel
             /\ (panel.signature = Listed \/ Settling(panel.status))
    <3>1. PanelTyped'
      BY <1>1, <1>3, <2>2 DEF ReviewsIInv, PanelTyped
    <3>2. ShownTrue'
      BY <1>4, <2>2 DEF ReviewsIInv, ShownTrue
    <3>3. Awaits' = Awaits
      BY <2>2 DEF Awaits
    <3> QED
      BY <3>1, <3>2, <3>3
  <2>3. CASE Listed.subject # None /\ \E mount : panel' = StartFrom(Listed, mount)
    <3>1. PICK mount : panel' = StartFrom(Listed, mount)
      BY <2>3
    <3>2. Listed.subject \in Subject
      BY <1>3, <2>3
    <3>3. /\ panel' = [x \in PanelField |-> panel'[x]]
          /\ panel'.choices \in Labels /\ panel'.recorded = Undecided /\ panel'.recorded \in Labels
          /\ panel'.signature = Listed /\ panel'.pending = None
      BY <3>1, <3>2, StartForms
    <3>4. PanelTyped'
      BY <1>1, <3>2, <3>3 DEF PanelTyped
    <3>5. ShownTrue'
      BY <3>3 DEF ShownTrue, Undecided
    <3>6. Awaits' = {}
      BY <3>3 DEF Awaits
    <3> QED
      BY <3>4, <3>5, <3>6
  <2> QED
    BY <1>2, <2>1, <2>2, <2>3
<1>7. OneContent'
  <2>1. Sends' = Sends /\ Keeps' = Keeps /\ Stored' = Stored
    BY <1>1, <1>4 DEF Sends, Payload, Keeps, Deciding, Stored
  <2> QED
    BY <1>6, <2>1, FewerUses DEF ReviewsIInv, Uses
<1> QED
  BY <1>1, <1>5, <1>6, <1>7, BrowserStep

\* The tab is loaded again: its saves may still arrive, its panel is gone.
LEMMA ReloadKeeps ==
  ASSUME ReviewsIInv, Reload
  PROVE  ReviewsIInv'
<1>1. UNCHANGED journalVars /\ panel' = None /\ calls' = Silenced(calls) /\ session' = session /\ told' = told
  BY DEF Reload
<1>2. requests' = requests
  BY <1>1 DEF journalVars
<1>3. CallsTyped' /\ AnswersTrue' /\ Sends' \subseteq Sends
  <2>1. \A d \in calls' : (\E c \in calls : ComesOf(d, c)) /\ d.phase = "sent"
    <3>1. calls \subseteq calls
      OBVIOUS
    <3> QED
      BY <1>1, <3>1, SilencedForms DEF ReviewsIInv
  <2>2. \A d \in calls' : d \in calls \/ ((\E c \in calls : ComesOf(d, c)) /\ Honest(d))
    BY <2>1 DEF Honest
  <2> QED
    BY <1>2, <2>2, CallsMove DEF ReviewsIInv
<1>4. Keeps' = Keeps /\ Stored' = Stored /\ Awaits' = {}
  BY <1>1, <1>2 DEF Keeps, Deciding, Stored, Awaits
<1>5. OneContent'
  BY <1>3, <1>4, FewerUses DEF ReviewsIInv, Uses
<1>6. SessionTyped' /\ ToldTrue' /\ PanelTyped' /\ ShownTrue'
  BY <1>1, <1>2 DEF ReviewsIInv, SessionTyped, ToldTrue, PanelTyped, ShownTrue
<1> QED
  BY <1>1, <1>3, <1>5, <1>6, BrowserStep

\* Another choice silences what the panel sent before.
LEMMA ChooseKeeps ==
  ASSUME ReviewsIInv, NEW f \in Field, NEW v \in Value \union {None}, Choose(f, v)
  PROVE  ReviewsIInv'
<1>1. /\ UNCHANGED journalVars /\ calls' = Muted(panel.mount) /\ session' = session /\ told' = told
      /\ reading' = reading /\ panel # None /\ panel' = [panel EXCEPT !.choices[f] = v]
  BY DEF Choose
<1>2. requests' = requests /\ reviews' = reviews
  BY <1>1 DEF journalVars
<1>3. CallsTyped' /\ AnswersTrue' /\ Sends' \subseteq Sends
  <2>1. \A d \in calls' : d \in calls \/ ((\E c \in calls : ComesOf(d, c)) /\ Honest(d))
    BY <1>1, MutedForms DEF ReviewsIInv
  <2> QED
    BY <1>2, <2>1, CallsMove DEF ReviewsIInv
<1>4. /\ panel' = [x \in PanelField |-> panel'[x]]
      /\ panel'.choices \in Labels /\ panel'.recorded = panel.recorded /\ panel'.status = panel.status
      /\ panel'.signature = panel.signature /\ panel'.pending = panel.pending
  BY <1>1 DEF ReviewsIInv, PanelTyped, PanelField, Labels
<1>5. PanelTyped' /\ ShownTrue' /\ Awaits' \subseteq Awaits
  <2>1. PanelTyped'
    BY <1>1, <1>4 DEF ReviewsIInv, PanelTyped
  <2>2. ShownTrue'
    BY <1>1, <1>2, <1>4 DEF ReviewsIInv, ShownTrue
  <2>3. Awaits' \subseteq Awaits
    BY <1>1, <1>4 DEF Awaits
  <2> QED
    BY <2>1, <2>2, <2>3
<1>6. Keeps' = Keeps /\ Stored' = Stored
  BY <1>1, <1>2 DEF Keeps, Deciding, Stored
<1>7. OneContent'
  BY <1>3, <1>5, <1>6, FewerUses DEF ReviewsIInv, Uses
<1>8. SessionTyped' /\ ToldTrue'
  BY <1>1, <1>2 DEF ReviewsIInv, SessionTyped, ToldTrue
<1> QED
  BY <1>1, <1>3, <1>5, <1>7, <1>8, BrowserStep

\* An id nobody uses may take up any content.
LEMMA NewUse ==
  ASSUME OneContent, NEW new, Uses' \subseteq (Sends \union Keeps \union Stored) \union {new},
         \A u \in Sends \union Keeps \union Stored : u[1] # new[1]
  PROVE  OneContent'
<1>1. \A u, v \in Sends \union Keeps \union Stored : u[1] = v[1] => u[2] = v[2]
  BY DEF OneContent
<1> HIDE DEF OneContent
<1>2. \A u, v \in Uses' : u[1] = v[1] => u[2] = v[2]
  BY <1>1
<1> QED
  BY <1>2 DEF Uses, OneContent

\* "Check or retry": the panel's own id, under the content it already stands for.
LEMMA CheckKeeps ==
  ASSUME ReviewsIInv, CheckOrRetry
  PROVE  ReviewsIInv'
<1> DEFINE kept == panel.pending
           subject == panel.signature.subject
           new == Call("check", subject, kept, TRUE)
<1>1. /\ UNCHANGED journalVars /\ Sent(calls, new) /\ session' = session /\ told' = told
      /\ reading' = reading /\ panel' = panel /\ panel # None /\ kept # None
  BY DEF CheckOrRetry
<1>2. requests' = requests /\ reviews' = reviews
  BY <1>1 DEF journalVars
<1>3. kept.id \in Request /\ kept.verdict \in Labels /\ subject \in Subject
  BY <1>1 DEF ReviewsIInv, PanelTyped
<1>4. new = Call("check", subject, kept, TRUE)
  OBVIOUS
<1>5. <<kept.id, Deciding(subject, kept.verdict)>> \in Awaits
  BY <1>1 DEF Awaits
<1> HIDE DEF new, kept, subject
<1>10. /\ new = [x \in CallField |-> new[x]] /\ new.phase = "sent"
       /\ new.request = kept.id /\ Payload(new) = Deciding(subject, kept.verdict)
       /\ new.request \in Request /\ new.subject \in Subject /\ new.verdict \in Labels
  BY <1>3, <1>4 DEF Call, CallField, Payload, Deciding
<1>6. CallsTyped' /\ AnswersTrue' /\ Sends' \subseteq Sends \union {<<new.request, Payload(new)>>}
  BY <1>1, <1>2, <1>10, SendForms DEF ReviewsIInv
<1>7. Keeps' = Keeps /\ Stored' = Stored /\ Awaits' = Awaits
  BY <1>1, <1>2 DEF Keeps, Deciding, Stored, Awaits
<1>8. OneContent'
  BY <1>5, <1>6, <1>7, <1>10, FewerUses DEF ReviewsIInv, Uses
<1>9. SessionTyped' /\ ToldTrue' /\ PanelTyped' /\ ShownTrue'
  BY <1>1, <1>2 DEF ReviewsIInv, SessionTyped, ToldTrue, PanelTyped, ShownTrue
<1> QED
  BY <1>1, <1>6, <1>8, <1>9, BrowserStep

\* A panel that starts to settle a save.
LEMMA SettlingForms ==
  ASSUME ReviewsIInv, UNCHANGED <<reading, journalVars>>, panel # None, NEW status, Settling(status), NEW kept,
         kept.id \in Request, kept.verdict \in Labels,
         panel' = [panel EXCEPT !.status = status, !.pending = kept]
  PROVE  /\ PanelTyped' /\ ShownTrue'
         /\ Awaits' \subseteq {<<kept.id, Deciding(panel.signature.subject, kept.verdict)>>}
<1>1. /\ panel' = [x \in PanelField |-> panel'[x]]
      /\ panel'.choices = panel.choices /\ panel'.recorded = panel.recorded /\ panel'.status = status
      /\ panel'.signature = panel.signature /\ panel'.pending = kept
  BY DEF ReviewsIInv, PanelTyped, PanelField
<1>2. PanelTyped'
  BY <1>1 DEF ReviewsIInv, PanelTyped
<1>3. ShownTrue'
  BY <1>1 DEF ReviewsIInv, ShownTrue, journalVars
<1>4. Awaits' \subseteq {<<kept.id, Deciding(panel.signature.subject, kept.verdict)>>}
  BY <1>1 DEF Awaits
<1> QED
  BY <1>2, <1>3, <1>4

\* A save takes a new id, or the content its subject's id already stands for.
LEMMA SaveKeeps ==
  ASSUME ReviewsIInv, Save
  PROVE  ReviewsIInv'
<1> DEFINE subject == reading.subject
           held == session[subject]
<1>1. /\ UNCHANGED journalVars /\ told' = told /\ reading' = reading
      /\ panel # None /\ ~Settling(panel.status)
  BY DEF Save
<1>2. requests' = requests /\ reviews' = reviews
  BY <1>1 DEF journalVars
<1>3. subject \in Subject /\ panel.signature.subject = subject /\ panel.choices \in Labels
  BY <1>1 DEF ReviewsIInv, PanelTyped
<1>4. Pending \in Labels
  BY <1>3 DEF Pending, Labels
<1>5. \A d \in Muted(panel.mount) : d \in calls \/ ((\E c \in calls : ComesOf(d, c)) /\ Honest(d))
  BY MutedForms DEF ReviewsIInv
<1>6. ToldTrue'
  BY <1>1, <1>2 DEF ReviewsIInv, ToldTrue
<1>7. Stored' = Stored
  BY <1>2 DEF Stored
<1>8. CASE \E r \in FreshRequest : LET fresh == [id |-> r, verdict |-> Pending]
           IN /\ session' = [session EXCEPT ![subject] = fresh]
              /\ panel' = [panel EXCEPT !.status = "saving", !.pending = fresh]
              /\ Sent(Muted(panel.mount), Call("save", subject, fresh, FALSE))
  <2>1. PICK r \in FreshRequest : LET fresh == [id |-> r, verdict |-> Pending]
           IN /\ session' = [session EXCEPT ![subject] = fresh]
              /\ panel' = [panel EXCEPT !.status = "saving", !.pending = fresh]
              /\ Sent(Muted(panel.mount), Call("save", subject, fresh, FALSE))
    BY <1>8
  <2> DEFINE fresh == [id |-> r, verdict |-> Pending]
             new == Call("save", subject, fresh, FALSE)
             use == <<r, Deciding(subject, Pending)>>
  <2>2. fresh.id = r /\ fresh.verdict = Pending /\ r \in Request
    BY DEF FreshRequest
  <2>3. /\ session' = [session EXCEPT ![subject] = fresh] /\ Sent(Muted(panel.mount), new)
        /\ panel' = [panel EXCEPT !.status = "saving", !.pending = fresh]
    BY <2>1
  <2>4. /\ new = [x \in CallField |-> new[x]] /\ new.phase = "sent" /\ new.request = r
        /\ new.request \in Request /\ new.subject \in Subject /\ new.verdict \in Labels
        /\ Payload(new) = Deciding(subject, Pending)
    BY <1>3, <1>4, <2>2 DEF Call, CallField, Payload, Deciding
  <2> HIDE DEF fresh, new
  <2>5. CallsTyped' /\ AnswersTrue' /\ Sends' \subseteq Sends \union {<<new.request, Payload(new)>>}
    BY <1>2, <1>5, <2>3, <2>4, SendForms DEF ReviewsIInv
  <2>6. PanelTyped' /\ ShownTrue' /\ Awaits' \subseteq {use}
    <3>1. Settling("saving")
      BY DEF Settling
    <3> QED
      BY <1>1, <1>3, <1>4, <2>2, <2>3, <3>1, SettlingForms
  <2>7. SessionTyped' /\ Keeps' \subseteq Keeps \union {use}
    <3>1. /\ session' = [s \in Subject |-> session'[s]] /\ session'[subject] = fresh
          /\ \A s \in Subject : s # subject => session'[s] = session[s]
      BY <1>3, <2>3 DEF ReviewsIInv, SessionTyped
    <3>2. SessionTyped'
      BY <1>4, <2>2, <3>1 DEF ReviewsIInv, SessionTyped
    <3>3. Keeps' \subseteq Keeps \union {use}
      BY <2>2, <3>1 DEF Keeps
    <3> QED
      BY <3>2, <3>3
  <2>8. OneContent'
    <3>1. \A u \in Sends \union Keeps \union Stored : u[1] # r
      BY DEF FreshRequest, Sends, Keeps, Stored
    <3>2. Uses' \subseteq (Sends \union Keeps \union Stored) \union {use}
      BY <1>7, <2>4, <2>5, <2>6, <2>7 DEF Uses
    <3>3. use[1] = r
      OBVIOUS
    <3> HIDE DEF use
    <3> QED
      BY <3>1, <3>2, <3>3, NewUse DEF ReviewsIInv
  <2> QED
    BY <1>1, <1>6, <2>5, <2>6, <2>7, <2>8, BrowserStep
<1>9. CASE /\ held # None /\ session' = session
           /\ \E kind, status : /\ Settling(status)
                                /\ panel' = [panel EXCEPT !.status = status, !.pending = held]
                                /\ Sent(Muted(panel.mount), Call(kind, subject, held, FALSE))
  <2>1. PICK kind, status : /\ Settling(status)
                            /\ panel' = [panel EXCEPT !.status = status, !.pending = held]
                            /\ Sent(Muted(panel.mount), Call(kind, subject, held, FALSE))
    BY <1>9
  <2> DEFINE new == Call(kind, subject, held, FALSE)
  <2>2. held.id \in Request /\ held.verdict \in Labels
    BY <1>3, <1>9 DEF ReviewsIInv, SessionTyped
  <2>3. <<held.id, Deciding(subject, held.verdict)>> \in Keeps
    BY <1>3, <1>9 DEF Keeps
  <2>4. /\ new = [x \in CallField |-> new[x]] /\ new.phase = "sent" /\ new.request = held.id
        /\ new.request \in Request /\ new.subject \in Subject /\ new.verdict \in Labels
        /\ Payload(new) = Deciding(subject, held.verdict)
    BY <1>3, <2>2 DEF Call, CallField, Payload, Deciding
  <2>5. Sent(Muted(panel.mount), new)
    BY <2>1
  <2> HIDE DEF new, held
  <2>6. CallsTyped' /\ AnswersTrue' /\ Sends' \subseteq Sends \union {<<new.request, Payload(new)>>}
    BY <1>2, <1>5, <2>4, <2>5, SendForms DEF ReviewsIInv
  <2>7. PanelTyped' /\ ShownTrue' /\ Awaits' \subseteq {<<held.id, Deciding(subject, held.verdict)>>}
    BY <1>1, <1>3, <2>1, <2>2, SettlingForms
  <2>8. Keeps' = Keeps /\ SessionTyped'
    BY <1>9 DEF Keeps, Deciding, ReviewsIInv, SessionTyped
  <2>9. OneContent'
    BY <1>7, <2>3, <2>4, <2>6, <2>7, <2>8, FewerUses DEF ReviewsIInv, Uses
  <2> QED
    BY <1>1, <1>6, <2>6, <2>7, <2>8, <2>9, BrowserStep
<1>10. Settling("saving") /\ Settling("unknown")
  BY DEF Settling
<1> QED
  BY <1>8, <1>9, <1>10 DEF Save

\* An unknown outcome: the call is asked about, or sent again, under its own id.
LEMMA UnsettledKeeps ==
  ASSUME ReviewsIInv, NEW c \in calls, Unsettled(c), UNCHANGED <<journalVars, reading>>
  PROVE  ReviewsIInv'
<1>1. /\ session' = session /\ told' = told /\ reading' = reading
      /\ requests' = requests /\ reviews' = reviews
  BY DEF Unsettled, journalVars
<1>2. CallsTyped' /\ AnswersTrue' /\ Sends' \subseteq Sends
  <2>1. \A d \in calls' : \/ d \in calls
                          \/ \E kind : d = [c EXCEPT !.kind = kind, !.phase = "sent", !.answer = None]
    BY DEF Unsettled
  <2>2. \A kind : LET d == [c EXCEPT !.kind = kind, !.phase = "sent", !.answer = None]
                  IN ComesOf(d, c) /\ d.phase = "sent"
    BY CallForms DEF ReviewsIInv
  <2>3. ASSUME NEW d \in calls', d \notin calls
        PROVE  ComesOf(d, c) /\ Honest(d)
    <3>1. PICK kind : d = [c EXCEPT !.kind = kind, !.phase = "sent", !.answer = None]
      BY <2>1, <2>3
    <3>2. ComesOf(d, c) /\ d.phase = "sent"
      BY <2>2, <3>1
    <3> QED
      BY <3>2 DEF Honest
  <2>4. \A d \in calls' : d \in calls \/ ((\E e \in calls : ComesOf(d, e)) /\ Honest(d))
    BY <2>3
  <2> QED
    BY <1>1, <2>4, CallsMove DEF ReviewsIInv
<1>3. PanelTyped' /\ ShownTrue' /\ Awaits' \subseteq Awaits
  <2>1. CASE panel' = panel
    BY <1>1, <2>1 DEF ReviewsIInv, PanelTyped, ShownTrue, Awaits
  <2>2. CASE panel # None /\ panel' = [panel EXCEPT !.status = "unknown"]
    <3>1. /\ panel' = [x \in PanelField |-> panel'[x]]
          /\ panel'.choices = panel.choices /\ panel'.recorded = panel.recorded
          /\ panel'.status = "unknown"
          /\ panel'.signature = panel.signature /\ panel'.pending = panel.pending
      BY <2>2 DEF ReviewsIInv, PanelTyped, PanelField
    <3>2. PanelTyped'
      BY <1>1, <2>2, <3>1 DEF ReviewsIInv, PanelTyped, Settling
    <3>3. ShownTrue'
      BY <1>1, <2>2, <3>1 DEF ReviewsIInv, ShownTrue
    <3>4. Awaits' \subseteq Awaits
      BY <2>2, <3>1 DEF Awaits
    <3> QED
      BY <3>2, <3>3, <3>4
  <2> QED
    BY <2>1, <2>2 DEF Unsettled, Mine
<1>4. Keeps' = Keeps /\ Stored' = Stored
  BY <1>1 DEF Keeps, Deciding, Stored
<1>5. OneContent'
  BY <1>2, <1>3, <1>4, FewerUses DEF ReviewsIInv, Uses
<1>6. SessionTyped' /\ ToldTrue'
  BY <1>1 DEF ReviewsIInv, SessionTyped, ToldTrue
<1> QED
  BY <1>2, <1>3, <1>5, <1>6, BrowserStep

\* What the panel shows once its save is recorded was stored with that save.
LEMMA TakenForms ==
  ASSUME ReviewsIInv, NEW c \in calls, c.phase = "back", Settled(c.answer), panel # None,
         NEW new, new = Taken(panel, c, c.answer)
  PROVE  /\ new = [x \in PanelField |-> new[x]]
         /\ new.choices \in Labels /\ new.recorded \in Labels
         /\ new.signature = panel.signature /\ new.pending = panel.pending /\ new.status = "idle"
         /\ \A f \in Field : new.recorded[f] # None =>
              \E i \in DOMAIN reviews : reviews[i].verdict[f] = new.recorded[f]
<1> DEFINE joined == [f \in Field |-> IF c.verdict[f] # None THEN c.verdict[f] ELSE panel.recorded[f]]
<1>1. /\ panel = [x \in PanelField |-> panel[x]]
      /\ panel.choices \in Labels /\ panel.recorded \in Labels
      /\ c.verdict \in Labels /\ c.request \in Request
  BY DEF ReviewsIInv, PanelTyped, CallsTyped
<1>2. \A f \in Field : panel.recorded[f] # None =>
        \E i \in DOMAIN reviews : reviews[i].verdict[f] = panel.recorded[f]
  BY DEF ReviewsIInv, ShownTrue
<1>3. CASE c.answer # Recorded
  <2>1. new = [panel EXCEPT !.status = "idle"]
    BY <1>3 DEF Taken
  <2>2. /\ new = [x \in PanelField |-> new[x]]
        /\ new.choices = panel.choices /\ new.recorded = panel.recorded
        /\ new.signature = panel.signature /\ new.pending = panel.pending /\ new.status = "idle"
    BY <1>1, <2>1 DEF PanelField
  <2> QED
    BY <1>1, <1>2, <2>2
<1>4. CASE c.answer = Recorded
  <2>1. new = [panel EXCEPT !.status = "idle", !.choices = Undecided, !.recorded = joined]
    BY <1>4, <1>1 DEF Taken, PanelField
  <2> HIDE DEF joined
  <2>2. /\ new = [x \in PanelField |-> new[x]]
        /\ new.choices = Undecided /\ new.recorded = joined
        /\ new.signature = panel.signature /\ new.pending = panel.pending /\ new.status = "idle"
    BY <1>1, <2>1 DEF PanelField
  <2>3. joined \in Labels /\ Undecided \in Labels
    BY <1>1 DEF joined, Labels, Undecided
  <2>4. requests[c.request] # None /\ requests[c.request].result = Recorded
    BY <1>4 DEF ReviewsIInv, AnswersTrue, Recorded
  <2>5. requests[c.request].payload = Payload(c)
    BY <2>4, Said
  <2>6. PICK i \in DOMAIN reviews : reviews[i].verdict = c.verdict
    <3>1. RowsOf(c.request) # {}
      BY <1>1, <2>4 DEF ReviewsIInv, JournalTrue
    <3>2. \A i \in RowsOf(c.request) : reviews[i].verdict = c.verdict
      BY <1>1, <2>5 DEF ReviewsIInv, JournalTrue, Payload
    <3> QED
      BY <3>1, <3>2 DEF RowsOf
  <2>7. \A f \in Field : joined[f] # None =>
          \E j \in DOMAIN reviews : reviews[j].verdict[f] = joined[f]
    BY <1>2, <2>6 DEF joined
  <2> QED
    BY <2>2, <2>3, <2>7
<1> QED
  BY <1>3, <1>4

\* A save whose outcome is known: the page says what the store said.
LEMMA CompleteKeeps ==
  ASSUME ReviewsIInv, NEW c \in calls, c.phase = "back", Complete(c), UNCHANGED <<journalVars, reading>>
  PROVE  ReviewsIInv'
<1>1. /\ Settled(c.answer) /\ FinishReview(c) /\ calls' = calls \ {c}
      /\ told' = [told EXCEPT ![c.request] = c.answer]
      /\ reading' = reading /\ requests' = requests /\ reviews' = reviews
  BY DEF Complete, journalVars
<1>2. c.request \in Request /\ c.subject \in Subject
  BY DEF ReviewsIInv, CallsTyped
<1>3. CallsTyped' /\ AnswersTrue' /\ Sends' \subseteq Sends
  <2>1. \A d \in calls' : d \in calls
    BY <1>1
  <2> QED
    BY <1>1, <2>1, CallsMove DEF ReviewsIInv
<1>4. ToldTrue'
  <2>1. /\ told' = [r \in Request |-> told'[r]] /\ told'[c.request] = c.answer
        /\ \A r \in Request : r # c.request => told'[r] = told[r]
    BY <1>1, <1>2 DEF ReviewsIInv, ToldTrue
  <2>2. c.answer = "failed" \/ (requests[c.request] # None /\ requests[c.request].result = c.answer)
    BY <1>1 DEF ReviewsIInv, AnswersTrue
  <2>3. requests[c.request] # None => requests[c.request].result \in Refusal \union {Recorded}
    BY <1>2 DEF ReviewsIInv, JournalShape, RequestRow
  <2>4. c.answer # Conflict
    BY <2>2, <2>3 DEF Conflict, Refusal, Recorded
  <2>5. c.answer \in Refusal \union {Recorded} =>
          requests[c.request] # None /\ requests[c.request].result = c.answer
    BY <2>2 DEF Refusal, Recorded
  <2> QED
    BY <1>1, <2>1, <2>4, <2>5 DEF ReviewsIInv, ToldTrue
<1>5. SessionTyped' /\ Keeps' \subseteq Keeps
  <2>1. CASE session' = session
    BY <2>1 DEF ReviewsIInv, SessionTyped, Keeps, Deciding
  <2>2. CASE session' = [session EXCEPT ![c.subject] = None]
    <3>1. /\ session' = [s \in Subject |-> session'[s]]
          /\ \A s \in Subject : session'[s] # None => session'[s] = session[s]
      BY <1>2, <2>2 DEF ReviewsIInv, SessionTyped
    <3> QED
      BY <3>1 DEF ReviewsIInv, SessionTyped, Keeps
  <2> QED
    BY <1>1, <2>1, <2>2 DEF FinishReview
<1>6. PanelTyped' /\ ShownTrue' /\ Awaits' \subseteq Awaits
  <2>1. CASE panel' = panel
    BY <1>1, <2>1 DEF ReviewsIInv, PanelTyped, ShownTrue, Awaits
  <2>2. CASE panel # None /\ panel' = Taken(panel, c, c.answer) /\ panel'.signature = reading
    <3>1. /\ panel' = [x \in PanelField |-> panel'[x]]
          /\ panel'.choices \in Labels /\ panel'.recorded \in Labels
          /\ panel'.signature = panel.signature /\ panel'.pending = panel.pending
          /\ \A f \in Field : panel'.recorded[f] # None =>
               \E i \in DOMAIN reviews : reviews[i].verdict[f] = panel'.recorded[f]
      BY <1>1, <2>2, TakenForms
    <3>2. PanelTyped'
      BY <1>1, <2>2, <3>1 DEF ReviewsIInv, PanelTyped
    <3>3. ShownTrue'
      BY <1>1, <3>1 DEF ShownTrue
    <3>4. Awaits' \subseteq Awaits
      BY <2>2, <3>1 DEF Awaits
    <3> QED
      BY <3>2, <3>3, <3>4
  <2>3. CASE panel # None /\ \E mount : panel' = StartFrom(reading, mount)
    <3>1. PICK mount : panel' = StartFrom(reading, mount)
      BY <2>3
    <3>2. reading.subject \in Subject
      BY <2>3 DEF ReviewsIInv, PanelTyped
    <3>3. /\ panel' = [x \in PanelField |-> panel'[x]]
          /\ panel'.choices \in Labels /\ panel'.recorded = Undecided /\ panel'.recorded \in Labels
          /\ panel'.signature = reading /\ panel'.pending = None
      BY <3>1, <3>2, StartForms
    <3>4. PanelTyped'
      BY <1>1, <3>2, <3>3 DEF PanelTyped
    <3>5. ShownTrue'
      BY <3>3 DEF ShownTrue, Undecided
    <3>6. Awaits' = {}
      BY <3>3 DEF Awaits
    <3> QED
      BY <3>4, <3>5, <3>6
  <2>4. CASE panel # None /\ panel' = Shown(Taken(panel, c, c.answer), reading)
    <3> DEFINE new == Taken(panel, c, c.answer)
    <3>1. ~Settling(new.status)
      <4>1. new.status = "idle"
        BY <1>1, <2>4, TakenForms
      <4> HIDE DEF new
      <4> QED
        BY <4>1 DEF Settling
    <3> HIDE DEF new
    <3>2. \/ panel' = new /\ new.signature = reading
          \/ panel' = StartFrom(reading, new.mount)
      BY <2>4, <3>1 DEF Shown, new
    <3> QED
      BY <2>2, <2>3, <2>4, <3>2 DEF new
  <2> QED
    BY <2>1, <2>4 DEF Complete, Mine
<1>7. OneContent'
  <2>1. Stored' = Stored
    BY <1>1 DEF Stored
  <2> QED
    BY <1>3, <1>5, <1>6, <2>1, FewerUses DEF ReviewsIInv, Uses
<1> QED
  BY <1>3, <1>4, <1>5, <1>6, <1>7, BrowserStep

LEMMA AnswerKeeps ==
  ASSUME ReviewsIInv, NEW c \in calls, Answer(c)
  PROVE  ReviewsIInv'
<1>1. UNCHANGED <<journalVars, reading>> /\ c.phase = "back"
  BY DEF Answer
<1> QED
  BY <1>1, CompleteKeeps, UnsettledKeeps DEF Answer

\* The classifier and the clock touch nothing a save is about.
LEMMA StillKeeps ==
  ReviewsIInv /\ UNCHANGED <<journalVars, calls, reading, panel, session, told>> => ReviewsIInv'
<1> SUFFICES ASSUME ReviewsIInv, UNCHANGED <<journalVars, calls, reading, panel, session, told>>
             PROVE  ReviewsIInv'
  OBVIOUS
<1>1. \A d \in calls' : d \in calls \/ ((\E c \in calls : ComesOf(d, c)) /\ Honest(d))
  OBVIOUS
<1>2. UNCHANGED <<journalVars, reading, panel, session, told>>
  OBVIOUS
<1> QED
  BY <1>1, <1>2, CallsStep

LEMMA ReviewsNextIInv == ReviewsIInv /\ inForce \in Subject /\ [ReviewsNext]_vars => (ReviewsIInv /\ inForce \in Subject)'
<1> SUFFICES ASSUME ReviewsIInv, inForce \in Subject, [ReviewsNext]_vars
             PROVE  ReviewsIInv' /\ (inForce \in Subject)'
  OBVIOUS
<1>1. CASE UNCHANGED vars
  <2>1. UNCHANGED <<journalVars, calls, reading, panel, session, told>> /\ inForce' = inForce
    BY <1>1 DEF vars, storeVars, browserVars
  <2> QED
    BY <2>1, StillKeeps
<1>2. ASSUME NEW verdict, Judge(verdict) PROVE ReviewsIInv' /\ (inForce \in Subject)'
  <2>1. UNCHANGED <<journalVars, calls, reading, panel, session, told>> /\ inForce' = inForce
    BY <1>2 DEF Judge, browserVars
  <2> QED
    BY <2>1, StillKeeps
<1>3. ASSUME NEW s \in Subject, MoveOn(s) PROVE ReviewsIInv' /\ (inForce \in Subject)'
  <2>1. UNCHANGED <<journalVars, calls, reading, panel, session, told>> /\ inForce' = s
    BY <1>3 DEF MoveOn, browserVars
  <2> QED
    BY <2>1, StillKeeps
<1>4. CASE SetClockBack
  <2>1. UNCHANGED <<journalVars, calls, reading, panel, session, told>> /\ inForce' = inForce
    BY <1>4 DEF SetClockBack, browserVars
  <2> QED
    BY <2>1, StillKeeps
<1>5. ASSUME NEW c \in calls, StoreReview(c) \/ ReviewStatus(c) \/ Answer(c) \/ Lose(c)
      PROVE ReviewsIInv' /\ (inForce \in Subject)'
  <2>1. inForce' = inForce
    BY <1>5 DEF StoreReview, ReviewStatus, Answer, Lose, storeVars
  <2> QED
    BY <1>5, <2>1, StoreKeeps, StatusKeeps, AnswerKeeps, LoseKeeps
<1>6. CASE Read \/ Reload \/ Save \/ CheckOrRetry
  <2>1. inForce' = inForce
    BY <1>6 DEF Read, Show, Reload, Save, CheckOrRetry, storeVars
  <2> QED
    BY <1>6, <2>1, ReadKeeps, ReloadKeeps, SaveKeeps, CheckKeeps
<1>7. ASSUME NEW f \in Field, NEW v \in Value \union {None}, Choose(f, v)
      PROVE ReviewsIInv' /\ (inForce \in Subject)'
  <2>1. inForce' = inForce
    BY <1>7 DEF Choose, storeVars
  <2> QED
    BY <1>7, <2>1, ChooseKeeps
<1> QED
  BY <1>1, <1>2, <1>3, <1>4, <1>5, <1>6, <1>7 DEF ReviewsNext

LEMMA IInvSaved == ReviewsIInv => SavedIsStored
<1> SUFFICES ASSUME ReviewsIInv PROVE SavedIsStored
  OBVIOUS
<1>1. ASSUME NEW r \in Request
      PROVE  /\ told[r] = Recorded => Cardinality(RowsOf(r)) = 1
             /\ told[r] \in {"unclassified", "stale_subject"} =>
                  RowsOf(r) = {} /\ requests[r] # None /\ requests[r].result = told[r]
             /\ Cardinality(RowsOf(r)) <= 1
             /\ told[r] # Conflict
  <2>1. /\ \A i, j \in RowsOf(r) : i = j
        /\ RowsOf(r) # {} <=> requests[r] # None /\ requests[r].result = Recorded
        /\ told[r] # Conflict
        /\ told[r] \in Refusal \union {Recorded} => requests[r] # None /\ requests[r].result = told[r]
    BY DEF ReviewsIInv, JournalTrue, ToldTrue
  <2>2. RowsOf(r) = {} \/ \E i : RowsOf(r) = {i}
    BY <2>1
  <2>3. RowsOf(r) = {} => Cardinality(RowsOf(r)) = 0
    BY FS_EmptySet
  <2>4. \A i : Cardinality({i}) = 1
    BY FS_Singleton, Zenon
  <2>5. RowsOf(r) # {} => Cardinality(RowsOf(r)) = 1
    BY <2>2, <2>4
  <2> QED
    BY <2>1, <2>3, <2>5 DEF Refusal, Recorded
<1> QED
  BY <1>1 DEF ReviewsIInv, ShownTrue, SavedIsStored

\* Whatever is lost, repeated or reloaded, and however the classification moves on
\* meanwhile, a save told as recorded was stored once, one told as refused never
\* was, and what the panel shows as recorded stands in the journal (reviews.ts,
\* ReviewAction.tsx, review.ts).
THEOREM SavesAreStored == ReviewsSpec => []SavedIsStored
<1>1. ReviewsInit => ReviewsIInv /\ inForce \in Subject
  BY ReviewsInitIInv DEF ReviewsInit
<1> QED
  BY <1>1, ReviewsNextIInv, IInvSaved, PTL DEF ReviewsSpec

-----------------------------------------------------------------------------
\* The only step that adds a review: a save admitted against the judgment in force.
LEMMA ReviewAdded ==
  ASSUME ReviewsNext, reviews' # reviews
  PROVE  \E c \in calls : /\ Admission(c.subject) = "admitted" /\ reviews' = AppendReview(c)
                          /\ UNCHANGED storeVars
<1>1. PICK c \in calls : StoreReview(c)
  BY DEF ReviewsNext, Judge, MoveOn, SetClockBack, ReviewStatus, Answer, Lose, Read, Show, Reload,
         Save, CheckOrRetry, Choose, journalVars
<1>2. Admission(c.subject) = "admitted" /\ reviews' = AppendReview(c)
  BY <1>1 DEF StoreReview, RecordReview, journalVars
<1>3. UNCHANGED storeVars
  BY <1>1 DEF StoreReview
<1> QED
  BY <1>2, <1>3

LEMMA Appended ==
  ASSUME NEW Rows, NEW old \in Seq(Rows), NEW e \in Rows, NEW new, new = Append(old, e), NEW n, n = Len(old)
  PROVE  /\ n \in Nat /\ DOMAIN old = 1..n /\ DOMAIN new = 1..(n + 1) /\ Len(new) = n + 1
         /\ new[n + 1] = e /\ new[Len(new)] = e
         /\ \A i \in 1..n : old[i] \in Rows /\ new[i] = old[i]
<1>1. Len(old) \in Nat /\ DOMAIN old = 1..Len(old) /\ Len(new) = Len(old) + 1 /\ new \in Seq(Rows)
  OBVIOUS
<1>2. new[Len(old) + 1] = e /\ \A i \in 1..Len(old) : old[i] \in Rows /\ new[i] = old[i]
  OBVIOUS
<1> QED
  BY <1>1, <1>2

LEMMA ClockedStep == ReviewsIInv /\ Clocked /\ [ReviewsNext]_vars => Clocked'
<1> SUFFICES ASSUME ReviewsIInv, Clocked, [ReviewsNext]_vars PROVE Clocked'
  OBVIOUS
<1>1. reviews \in Seq([subject : Subject, verdict : Labels, at : Nat, request : Request])
  BY DEF ReviewsIInv, JournalShape
<1>2. CASE reviews' = reviews
  <2>1. setBack' = setBack \/ setBack'
    BY DEF ReviewsNext, vars, storeVars, Judge, MoveOn, SetClockBack, StoreReview, ReviewStatus,
           Answer, Lose, Read, Show, Reload, Save, CheckOrRetry, Choose
  <2> QED
    BY <1>2, <2>1 DEF Clocked
<1>3. CASE reviews' # reviews
  <2>1. PICK c \in calls : reviews' = AppendReview(c) /\ setBack' = setBack
    BY <1>3, ReviewAdded DEF vars, journalVars, storeVars
  <2> DEFINE new == [subject |-> c.subject, verdict |-> c.verdict, at |-> Now, request |-> c.request]
             n == Len(reviews)
  <2>2. reviews' = Append(reviews, new) /\ n \in Nat
    BY <1>1, <2>1 DEF AppendReview
  <2>3. new \in [subject : Subject, verdict : Labels, at : Nat, request : Request]
    BY <2>2 DEF ReviewsIInv, CallsTyped, Now
  <2>5. ~setBack => new.at = n + 1
    BY DEF Now
  <2> HIDE DEF new
  <2>4. /\ DOMAIN reviews = 1..n /\ DOMAIN reviews' = 1..(n + 1) /\ Len(reviews') = n + 1
        /\ reviews'[n + 1] = new /\ \A i \in 1..n : reviews'[i] = reviews[i]
        /\ \A i \in 1..n : reviews[i].at \in Nat
    <3>1. /\ DOMAIN reviews = 1..n /\ DOMAIN reviews' = 1..(n + 1) /\ Len(reviews') = n + 1
          /\ reviews'[n + 1] = new /\ \A i \in 1..n : reviews'[i] = reviews[i]
      BY <1>1, <2>2, <2>3, Appended
    <3>2. \A i \in 1..n : reviews[i].at \in Nat
      <4>1. \A i \in 1..n : reviews[i] \in [subject : Subject, verdict : Labels, at : Nat, request : Request]
        BY <1>1, <2>2, <2>3, Appended
      <4> QED
        BY <4>1
    <3> QED
      BY <3>1, <3>2
  <2> QED
    BY <2>1, <2>2, <2>4, <2>5 DEF Clocked
<1> QED
  BY <1>2, <1>3

\* The latest of a set is the one later than all the others, where there is one.
LEMMA LatestIs ==
  ASSUME NEW ids, ids \subseteq Nat, NEW at, NEW last \in ids, at[last] \in Nat,
         \A i \in ids \ {last} : at[i] \in Nat /\ at[i] < at[last]
  PROVE  LatestAt(ids, at) = last
<1> DEFINE Ahead(i) == \A j \in ids : at[i] > at[j] \/ (at[i] = at[j] /\ i >= j)
<1>1. Ahead(last)
  OBVIOUS
<1>2. \A i \in ids : Ahead(i) => i = last
  OBVIOUS
<1>3. LatestAt(ids, at) = CHOOSE i \in ids : Ahead(i)
  BY DEF LatestAt
<1> HIDE DEF Ahead
<1> QED
  BY <1>1, <1>2, <1>3

LEMMA EffectOfReview == ReviewsIInv /\ Clocked /\ [ReviewsNext]_vars => [TakesEffect]_vars
<1> SUFFICES ASSUME ReviewsIInv, Clocked, ReviewsNext, reviews' # reviews,
                    NEW s \in Subject, s = reviews'[Len(reviews')].subject
             PROVE  LET last == reviews'[Len(reviews')]
                    IN /\ judgments[s] = "classified" /\ s = inForce
                       /\ \A f \in Field :
                            /\ last.verdict[f] = None => Effective(s)'[f] = Effective(s)[f]
                            /\ last.verdict[f] # None /\ ~setBack => Effective(s)'[f] = last.verdict[f]
  BY DEF TakesEffect
<1>1. PICK c \in calls : Admission(c.subject) = "admitted" /\ reviews' = AppendReview(c)
  BY ReviewAdded
<1>2. reviews \in Seq([subject : Subject, verdict : Labels, at : Nat, request : Request])
  BY DEF ReviewsIInv, JournalShape
<1> DEFINE last == [subject |-> c.subject, verdict |-> c.verdict, at |-> Now, request |-> c.request]
           n == Len(reviews)
<1>3. reviews' = Append(reviews, last) /\ n \in Nat
  BY <1>1, <1>2 DEF AppendReview
<1>4. last.subject = c.subject /\ (~setBack => last.at = n + 1)
  BY DEF Now
<1>8. last \in [subject : Subject, verdict : Labels, at : Nat, request : Request]
  BY <1>3 DEF ReviewsIInv, CallsTyped, Now
<1> HIDE DEF last
<1>5. /\ DOMAIN reviews = 1..n /\ DOMAIN reviews' = 1..(n + 1) /\ reviews'[Len(reviews')] = last
      /\ reviews'[n + 1] = last /\ \A i \in 1..n : reviews'[i] = reviews[i]
      /\ \A i \in 1..n : reviews[i].at \in Nat
  <2>1. /\ DOMAIN reviews = 1..n /\ DOMAIN reviews' = 1..(n + 1) /\ reviews'[Len(reviews')] = last
        /\ reviews'[n + 1] = last /\ \A i \in 1..n : reviews'[i] = reviews[i]
    BY <1>2, <1>3, <1>8, Appended
  <2>2. \A i \in 1..n : reviews[i].at \in Nat
    <3>1. \A i \in 1..n : reviews[i] \in [subject : Subject, verdict : Labels, at : Nat, request : Request]
      BY <1>2, <1>3, <1>8, Appended
    <3> QED
      BY <3>1
  <2> QED
    BY <2>1, <2>2
<1>6. judgments[s] = "classified" /\ s = inForce
  <2>1. Projection = "unverified" /\ c.subject = inForce
    BY <1>1 DEF Admission
  <2>2. judgments[inForce] # "classified" => Projection \in {"stale", "provider_failure", "none"}
    BY DEF Projection
  <2>3. s = c.subject
    BY <1>4, <1>5
  <2> QED
    BY <2>1, <2>2, <2>3
<1>7. ASSUME NEW f \in Field PROVE
        /\ last.verdict[f] = None => Effective(s)'[f] = Effective(s)[f]
        /\ last.verdict[f] # None /\ ~setBack => Effective(s)'[f] = last.verdict[f]
  <2> DEFINE naming == {i \in ReviewsOf(s) : reviews[i].verdict[f] # None}
             times == [i \in naming |-> reviews[i].at]
             said == [i \in naming |-> reviews[i].verdict[f]]
  <2>1. /\ Effective(s)[f] = IF naming = {} THEN None ELSE said[LatestAt(naming, times)]
        /\ Effective(s)'[f] = IF naming' = {} THEN None ELSE said'[LatestAt(naming', times')]
    BY DEF Effective, Newest
  <2>2. naming \subseteq 1..n
    BY <1>5 DEF ReviewsOf
  <2>3. CASE last.verdict[f] = None
    <3>1. naming' = naming
      BY <1>5, <2>3 DEF ReviewsOf
    <3>2. times' = times
      BY <1>5, <2>2, <3>1
    <3>3. said' = said
      BY <1>5, <2>2, <3>1
    <3> HIDE DEF naming, times, said
    <3> QED
      BY <2>1, <2>3, <3>1, <3>2, <3>3
  <2>4. CASE last.verdict[f] # None /\ ~setBack
    <3>1. naming' = naming \union {n + 1}
      BY <1>5, <2>4, <1>4 DEF ReviewsOf
    <3>2. times'[n + 1] = n + 1 /\ said'[n + 1] = last.verdict[f]
      BY <1>4, <1>5, <2>4, <3>1
    <3>3. \A i \in naming : times'[i] = reviews[i].at
      BY <1>5, <2>2, <3>1
    <3>4. \A i \in naming : times'[i] \in Nat /\ times'[i] <= n
      BY <1>5, <2>2, <2>4, <3>3 DEF Clocked
    <3>6. n \in Nat
      BY <1>3
    <3> HIDE DEF naming, times, said, n
    <3>5. LatestAt(naming', times') = n + 1
      <4>1. naming' \subseteq Nat /\ n + 1 \in naming' /\ times'[n + 1] \in Nat
        <5>1. n + 1 \in Nat /\ naming \subseteq Nat
          BY <2>2, <3>6
        <5> QED
          BY <3>1, <3>2, <5>1
      <4>2. \A i \in naming' \ {n + 1} : times'[i] \in Nat /\ times'[i] < times'[n + 1]
        BY <3>1, <3>2, <3>4, <3>6
      <4> QED
        BY <4>1, <4>2, LatestIs
    <3> QED
      BY <2>1, <2>4, <3>1, <3>2, <3>5
  <2> QED
    BY <2>3, <2>4
<1> QED
  BY <1>5, <1>6, <1>7

\* A review is stored for the judgment in force only, and decides exactly the fields
\* it names, whatever the order of the saves, however long ago the row was listed
\* (reviews.ts, effectiveReview).
THEOREM ReviewsTakeEffect == ReviewsSpec => ReviewTakesEffect
<1>1. ReviewsInit => ReviewsIInv /\ inForce \in Subject /\ Clocked
  BY ReviewsInitIInv DEF ReviewsInit, Clocked
<1>2. ReviewsIInv /\ inForce \in Subject /\ Clocked /\ [ReviewsNext]_vars
        => (ReviewsIInv /\ inForce \in Subject /\ Clocked)' /\ [TakesEffect]_vars
  BY ReviewsNextIInv, ClockedStep, EffectOfReview
<1> QED
  BY <1>1, <1>2, PTL DEF ReviewsSpec, ReviewTakesEffect

-----------------------------------------------------------------------------
(* Open work. The lookup that begins a save is long past when it is stored, so *)
(* the argument rests on the write transaction alone: it looks the id up again *)
(* (OneEach) and reads the last decision as it then is.                        *)

\* The journal and the handlers before anything is asked.
LEMMA WorkInitIInv == WorkInit => WorkIInv
<1> SUFFICES ASSUME WorkInit PROVE WorkIInv
  OBVIOUS
<1>1. JournalTyped
  BY OpenWorkAssumption DEF WorkInit, JournalTyped
<1>2. SavesCarry
  BY DEF WorkInit, SavesCarry
<1>3. OneEach /\ ReopensAnswer(decisions)
  BY OpenWorkAssumption DEF WorkInit, OneEach, DecisionsOf
<1> QED
  BY <1>1, <1>2, <1>3 DEF WorkIInv

\* While the journal stands still, what is proved of it does.
LEMMA JournalKept ==
  ASSUME WorkIInv, version' \in [Copy -> Nat], UNCHANGED <<decisions, asked>>
  PROVE  JournalTyped' /\ OneEach' /\ ReopensAnswer(decisions)'
<1>1. decisions' = decisions /\ asked' = asked
  OBVIOUS
<1>2. JournalTyped'
  BY <1>1 DEF WorkIInv, JournalTyped
<1>3. OneEach'
  BY <1>1 DEF WorkIInv, OneEach, DecisionsOf
<1>4. ReopensAnswer(decisions)'
  BY <1>1 DEF WorkIInv, ReopensAnswer
<1> QED
  BY <1>2, <1>3, <1>4

\* A handler that goes on carries what it was asked.
LEMMA HandlerStep ==
  ASSUME WorkIInv, NEW h \in Handler, NEW op, handlers' = [handlers EXCEPT ![h] = op],
         \/ op = Idle
         \/ /\ op = [x \in DOMAIN op |-> op[x]]
            /\ {"kind", "handler"} \subseteq DOMAIN op /\ op.handler = h
            /\ op.kind = "save" => /\ {"request", "content"} \subseteq DOMAIN op
                                   /\ op.request \in WorkRequest /\ op.content \in Asking
  PROVE  SavesCarry'
<1>1. handlers'[h] = op /\ \A g \in Handler : g # h => handlers'[g] = handlers[g]
  BY DEF WorkIInv, SavesCarry
<1>2. handlers' = [g \in Handler |-> handlers'[g]]
  BY DEF WorkIInv, SavesCarry
<1>3. ASSUME NEW g \in Handler, handlers'[g] # Idle
      PROVE  LET o == handlers'[g]
             IN /\ o = [x \in DOMAIN o |-> o[x]]
                /\ {"kind", "handler"} \subseteq DOMAIN o /\ o.handler = g
                /\ o.kind = "save" => /\ {"request", "content"} \subseteq DOMAIN o
                                      /\ o.request \in WorkRequest /\ o.content \in Asking
  <2>1. CASE g = h
    BY <1>1, <1>3, <2>1
  <2>2. CASE g # h
    BY <1>1, <1>3, <2>2 DEF WorkIInv, SavesCarry
  <2> QED
    BY <2>1, <2>2
<1> QED
  BY <1>2, <1>3 DEF SavesCarry

\* A request id that nothing is known of has no decision.
LEMMA AbsentIsNew ==
  ASSUME JournalTyped, OneEach, NEW r \in WorkRequest, NEW content,
         RequestOutcome(asked[r], content, Nothing) = Absent
  PROVE  asked[r] = Nothing /\ DecisionsOf(r) = {}
<1>1. asked[r] = Nothing \/ asked[r].result \in {Recorded, "nothing_to_reopen"}
  BY DEF JournalTyped, Remembering
<1>2. asked[r] = Nothing
  BY <1>1 DEF RequestOutcome, Absent, Conflict, Recorded
<1> QED
  BY <1>2 DEF OneEach

\* The write transaction of one decision.
LEMMA RecordKeeps ==
  ASSUME WorkIInv, NEW r \in WorkRequest, NEW content \in Asking, UNCHANGED version,
         RecordFollowUp(r, content)
  PROVE  JournalTyped' /\ OneEach' /\ ReopensAnswer(decisions)'
<1> USE DEF WorkIInv
<1>1. CASE UNCHANGED <<decisions, asked>>
  <2>1. version' \in [Copy -> Nat]
    BY DEF JournalTyped, Remembering
  <2> QED
    BY <1>1, <2>1, JournalKept
<1>2. CASE AppendDecision(r, content) /\ RequestOutcome(asked[r], content, Nothing) = Absent
  <2>1. asked[r] = Nothing /\ DecisionsOf(r) = {}
    BY <1>2, AbsentIsNew
  <2>2. CASE ~Admitted(content)
    <3>1. decisions' = decisions /\ asked' = [asked EXCEPT ![r] = Remembered(content, "nothing_to_reopen")]
      BY <1>2, <2>2 DEF AppendDecision
    <3>2. JournalTyped'
      BY <3>1 DEF JournalTyped, Remembering, Remembered
    <3>3. OneEach'
      BY <2>1, <3>1 DEF OneEach, DecisionsOf, JournalTyped, Remembering, Remembered, Recorded
    <3> QED
      BY <3>1, <3>2, <3>3 DEF ReopensAnswer
  <2>3. CASE Admitted(content)
    <3> DEFINE row == [copy |-> content.copy, version |-> content.version, kind |-> content.kind,
                       request |-> r]
               n == Len(decisions)
    <3>1. decisions' = Append(decisions, row) /\ asked' = [asked EXCEPT ![r] = Remembered(content, Recorded)]
      BY <1>2, <2>3 DEF AppendDecision
    <3>2. row \in Decision /\ decisions \in Seq(Decision) /\ n \in Nat
      BY DEF Decision, Asking, JournalTyped
    <3>3. /\ DOMAIN decisions = 1..n /\ DOMAIN decisions' = 1..(n + 1)
          /\ decisions'[n + 1] = row /\ \A i \in 1..n : decisions'[i] = decisions[i]
      BY <3>1, <3>2
    <3>4. JournalTyped'
      BY <3>1, <3>2 DEF JournalTyped, Remembering, Remembered
    <3>5. /\ asked'[r] = Remembered(content, Recorded)
          /\ \A q \in WorkRequest : q # r => asked'[q] = asked[q]
      BY <3>1 DEF JournalTyped, Remembering
    <3>6. /\ DecisionsOf(r)' = {n + 1}
          /\ \A q \in WorkRequest : q # r => DecisionsOf(q)' = DecisionsOf(q)
      BY <2>1, <3>2, <3>3 DEF DecisionsOf
    <3>7. asked'[r] # Nothing /\ asked'[r].result = Recorded /\ asked'[r].payload = content
      BY <3>5, OpenWorkAssumption DEF Remembered, Remembering
    <3>8. OneEach'
      BY <3>3, <3>5, <3>6, <3>7 DEF OneEach, DecisionsOf
    <3>9. ReopensAnswer(decisions)'
      <4>1. SUFFICES ASSUME NEW i \in 1..(n + 1), decisions'[i].kind = "reopen"
                     PROVE  \E j \in 1..(i - 1) :
                              /\ decisions'[j].copy = decisions'[i].copy
                              /\ decisions'[j].kind = "handled_in_spark"
                              /\ \A k \in (j + 1)..(i - 1) : decisions'[k].copy # decisions'[i].copy
        BY <3>3 DEF ReopensAnswer
      <4>2. CASE i \in 1..n
        <5>1. PICK j \in 1..(i - 1) :
                /\ decisions[j].copy = decisions[i].copy /\ decisions[j].kind = "handled_in_spark"
                /\ \A k \in (j + 1)..(i - 1) : decisions[k].copy # decisions[i].copy
          BY <3>3, <4>1, <4>2 DEF ReopensAnswer
        <5> QED
          BY <3>2, <3>3, <4>2, <5>1
      <4>3. CASE i = n + 1
        <5>1. PICK last \in RowsAbout(decisions, content.copy) :
                /\ decisions[last].kind = "handled_in_spark"
                /\ \A k \in RowsAbout(decisions, content.copy) : k <= last
          BY <2>3, <3>3, <4>1, <4>3 DEF Admitted
        <5>2. last \in 1..n /\ decisions[last].copy = content.copy
          BY <3>3, <5>1 DEF RowsAbout
        <5>3. \A k \in (last + 1)..n : decisions[k].copy # content.copy
          BY <3>2, <3>3, <5>1, <5>2 DEF RowsAbout
        <5> QED
          BY <3>2, <3>3, <4>3, <5>1, <5>2, <5>3
      <4> QED
        BY <3>2, <4>2, <4>3
    <3> QED
      BY <3>4, <3>8, <3>9
  <2> QED
    BY <2>2, <2>3
<1> QED
  BY <1>1, <1>2 DEF RecordFollowUp

\* What a step of a handler under way leaves of what it was asked.
Follows(new, op) ==
  /\ new = [x \in DOMAIN new |-> new[x]] /\ DOMAIN new = DOMAIN op
  /\ \A x \in DOMAIN op \ {"scan", "phase", "todo", "seen"} : new[x] = op[x]

LEMMA GoesOn ==
  ASSUME WorkIInv, NEW h \in Handler, handlers[h] # Idle, NEW new, Follows(new, handlers[h]),
         handlers' = Inspecting(new)
  PROVE  SavesCarry'
<1> DEFINE op == handlers[h]
<1>1. /\ {"kind", "handler"} \subseteq DOMAIN op /\ op.handler = h
      /\ op.kind = "save" => /\ {"request", "content"} \subseteq DOMAIN op
                             /\ op.request \in WorkRequest /\ op.content \in Asking
  BY DEF WorkIInv, SavesCarry
<1>2. /\ new.kind = op.kind /\ new.handler = h /\ {"kind", "handler"} \subseteq DOMAIN new
      /\ new = [x \in DOMAIN new |-> new[x]]
  BY <1>1 DEF Follows
<1>3. new.kind = "save" => /\ {"request", "content"} \subseteq DOMAIN new
                           /\ new.request \in WorkRequest /\ new.content \in Asking
  BY <1>1, <1>2 DEF Follows
<1>4. handlers' = [handlers EXCEPT ![h] = new]
  BY <1>2 DEF Inspecting
<1> QED
  BY <1>2, <1>3, <1>4, HandlerStep

\* One page of evidence, a failed scan, one thread read.
LEMMA EvidenceFollows ==
  ASSUME WorkIInv, NEW h \in Handler, Scan(h) \/ ScanFails(h) \/ ObserveVersion(h)
  PROVE  \E new : handlers' = Inspecting(new) /\ Follows(new, handlers[h])
<1> DEFINE op == handlers[h]
<1>1. op = [x \in DOMAIN op |-> op[x]]
  BY DEF WorkIInv, SavesCarry, Scan, ScanFails, ObserveVersion
<1>2. \A s, p : Follows([op EXCEPT !.scan = s, !.phase = p], op) /\ Follows([op EXCEPT !.scan = s], op)
  BY <1>1 DEF Follows
<1>3. CASE Scan(h)
  <2>1. \E s : \/ handlers' = Inspecting([op EXCEPT !.scan = s])
               \/ handlers' = Inspecting([op EXCEPT !.scan = s, !.phase = "observe"])
    BY <1>3 DEF Scan
  <2> HIDE DEF op
  <2> QED
    BY <1>2, <2>1 DEF op
<1>4. CASE ScanFails(h)
  <2>1. handlers' = Inspecting([op EXCEPT !.scan.failed = TRUE, !.todo = <<>>, !.phase = "observe"])
    BY <1>4 DEF ScanFails
  <2>2. Follows([op EXCEPT !.scan.failed = TRUE, !.todo = <<>>, !.phase = "observe"], op)
    BY <1>1 DEF Follows
  <2> QED
    BY <2>1, <2>2
<1>5. CASE ObserveVersion(h)
  <2>1. PICK seen : handlers' = Inspecting([op EXCEPT !.seen[Head(op.todo)] = seen, !.todo = Tail(@)])
    BY <1>5 DEF ObserveVersion
  <2>2. Follows([op EXCEPT !.seen[Head(op.todo)] = seen, !.todo = Tail(@)], op)
    BY <1>1 DEF Follows
  <2> QED
    BY <2>1, <2>2
<1> QED
  BY <1>3, <1>4, <1>5

LEMMA EvidenceKeeps ==
  ASSUME WorkIInv, NEW h \in Handler, Scan(h) \/ ScanFails(h) \/ ObserveVersion(h)
  PROVE  WorkIInv'
<1>1. handlers[h] # Idle /\ UNCHANGED <<sparkVars, decisions, asked>>
  BY DEF Scan, ScanFails, ObserveVersion
<1>2. SavesCarry'
  BY <1>1, EvidenceFollows, GoesOn
<1>3. version' \in [Copy -> Nat]
  BY <1>1 DEF sparkVars, WorkIInv, JournalTyped
<1> QED
  BY <1>1, <1>2, <1>3, JournalKept DEF WorkIInv

\* A save or a list begins.
LEMMA BeginKeeps ==
  ASSUME WorkIInv, NEW h \in Handler,
         \/ BeginCheck(h) \/ LoadMore(h)
         \/ \E choice \in Choice : \E content \in Content(choice) : BeginSave(h, choice.request, content)
  PROVE  WorkIInv'
<1>1. UNCHANGED <<sparkVars, decisions, asked>>
  BY DEF BeginCheck, LoadMore, BeginSave
<1>2. version' \in [Copy -> Nat]
  BY <1>1 DEF sparkVars, WorkIInv, JournalTyped
<1>3. SavesCarry'
  <2>1. CASE BeginCheck(h) \/ LoadMore(h)
    <3>1. PICK cursor, current : handlers' = Inspecting(ListOp(h, cursor, current))
      BY <2>1 DEF BeginCheck, CheckWork, LoadMore
    <3> DEFINE op == ListOp(h, cursor, current)
    <3>2. /\ op = [x \in DOMAIN op |-> op[x]] /\ {"kind", "handler"} \subseteq DOMAIN op
          /\ op.handler = h /\ op.kind = "list"
      BY DEF ListOp
    <3>3. handlers' = [handlers EXCEPT ![h] = op]
      BY <3>1, <3>2 DEF Inspecting
    <3> HIDE DEF op
    <3> QED
      BY <3>2, <3>3, HandlerStep
  <2>2. ASSUME NEW choice \in Choice, NEW content \in Content(choice),
               BeginSave(h, choice.request, content)
        PROVE  SavesCarry'
    <3> DEFINE op == SaveOp(h, choice.request, content)
    <3>1. choice.request \in WorkRequest /\ choice.copy \in Copy /\ choice.kind \in Kind
      BY OpenWorkAssumption
    <3>2. content \in Asking
      BY <3>1 DEF Content, Asking, WorkIInv, JournalTyped
    <3>3. /\ op = [x \in DOMAIN op |-> op[x]]
          /\ {"kind", "handler", "request", "content"} \subseteq DOMAIN op
          /\ op.handler = h /\ op.request = choice.request /\ op.content = content
      BY DEF SaveOp
    <3>4. handlers' = [handlers EXCEPT ![h] = op]
      BY <2>2, <3>3 DEF BeginSave, Inspecting
    <3> HIDE DEF op
    <3> QED
      BY <3>1, <3>2, <3>3, <3>4, HandlerStep
  <2> QED
    BY <2>1, <2>2
<1> QED
  BY <1>1, <1>2, <1>3, JournalKept DEF WorkIInv

\* A decision is stored or refused, or a page of the list arrives.
LEMMA EndKeeps ==
  ASSUME WorkIInv, NEW h \in Handler, Store(h) \/ Deliver(h)
  PROVE  WorkIInv'
<1> DEFINE op == handlers[h]
<1>1. handlers' = [handlers EXCEPT ![h] = Idle] /\ op # Idle /\ version' = version
  BY DEF Store, Deliver, sparkVars
<1>2. SavesCarry'
  BY <1>1, HandlerStep
<1>3. version' \in [Copy -> Nat]
  BY <1>1 DEF WorkIInv, JournalTyped
<1>4. CASE UNCHANGED <<decisions, asked>>
  BY <1>2, <1>3, <1>4, JournalKept DEF WorkIInv
<1>5. CASE op.kind = "save" /\ RecordFollowUp(op.request, op.content)
  <2>1. op.request \in WorkRequest /\ op.content \in Asking
    BY <1>1, <1>5 DEF WorkIInv, SavesCarry
  <2> QED
    BY <1>1, <1>2, <1>5, <2>1, RecordKeeps DEF WorkIInv
<1> QED
  BY <1>4, <1>5 DEF Store, Deliver

LEMMA WorkNextIInv == WorkIInv /\ [WorkNext]_workVars => WorkIInv'
<1> SUFFICES ASSUME WorkIInv, [WorkNext]_workVars PROVE WorkIInv'
  OBVIOUS
<1>1. CASE UNCHANGED workVars
  <2>1. version' \in [Copy -> Nat] /\ UNCHANGED <<decisions, asked, handlers>>
    BY <1>1 DEF workVars, sparkVars, WorkIInv, JournalTyped
  <2> QED
    BY <2>1, JournalKept DEF WorkIInv, SavesCarry
<1>2. ASSUME NEW c \in Copy, Grow(c) \/ \E w \in Where : Move(c, w)
      PROVE  WorkIInv'
  <2>1. version' \in [Copy -> Nat] /\ UNCHANGED <<decisions, asked, handlers>>
    BY <1>2 DEF Grow, Move, WorkIInv, JournalTyped
  <2> QED
    BY <2>1, JournalKept DEF WorkIInv, SavesCarry
<1>3. ASSUME NEW h \in Handler,
             \/ BeginCheck(h) \/ LoadMore(h)
             \/ \E choice \in Choice : \E content \in Content(choice) : BeginSave(h, choice.request, content)
      PROVE  WorkIInv'
  BY <1>3, BeginKeeps
<1>4. ASSUME NEW h \in Handler, Scan(h) \/ ScanFails(h) \/ ObserveVersion(h)
      PROVE  WorkIInv'
  BY <1>4, EvidenceKeeps
<1>5. ASSUME NEW h \in Handler, Store(h) \/ Deliver(h)
      PROVE  WorkIInv'
  BY <1>5, EndKeeps
<1> QED
  BY <1>1, <1>2, <1>3, <1>4, <1>5 DEF WorkNext

\* DecisionsAnswered for every instance: whatever handlers recheck side by side, a
\* request id stands for one decision, and a reopen answers a closure
\* (follow-ups.ts, recordFollowUp).
THEOREM EveryDecisionAnswered == WorkSpec => []DecisionsAnswered
<1>1. WorkIInv => DecisionsAnswered
  <2> SUFFICES ASSUME WorkIInv PROVE DecisionsAnswered
    OBVIOUS
  <2>1. ASSUME NEW r \in WorkRequest PROVE Cardinality(DecisionsOf(r)) <= 1
    <3>1. CASE DecisionsOf(r) = {}
      BY <3>1, FS_EmptySet
    <3>2. ASSUME NEW i \in DecisionsOf(r) PROVE Cardinality(DecisionsOf(r)) <= 1
      <4>1. \A j \in DecisionsOf(r) : j = i
        BY DEF WorkIInv, OneEach
      <4>2. DecisionsOf(r) = {i}
        BY <4>1
      <4>3. Cardinality({i}) = 1
        BY FS_Singleton, Zenon
      <4> QED
        BY <4>2, <4>3
    <3> QED
      BY <3>1, <3>2
  <2> QED
    BY <2>1 DEF WorkIInv, OneEach, DecisionsAnswered
<1> QED
  BY <1>1, WorkInitIInv, WorkNextIInv, PTL DEF WorkSpec

-----------------------------------------------------------------------------
(* QuietIInv is inductive: what a scan of a mailbox that stands still finds.    *)

Truthful(op, where, newest, now) ==
  op # Idle /\ op.kind = "list" =>
    ListShape(op, now) /\ (op.scan.from = now => ScanTrue(op, where, newest))

LEMMA ListsAreTruthful ==
  ListsTrue <=> \A h \in Handler : Truthful(handlers[h], place, version, moved)
  BY DEF ListsTrue, Truthful

LEMMA QuietInit == WorkInit => QuietIInv
  BY OpenWorkAssumption DEF WorkInit, QuietIInv, ListsTrue

\* Spark stands still and one handler goes on.
LEMMA ListStep ==
  ASSUME WorkIInv, QuietIInv, UNCHANGED sparkVars, NEW h \in Handler, NEW op,
         handlers' = [handlers EXCEPT ![h] = op], Truthful(op, place, version, moved)
  PROVE  QuietIInv'
<1>1. handlers'[h] = op /\ \A g \in Handler : g # h => handlers'[g] = handlers[g]
  BY DEF WorkIInv, SavesCarry
<1>2. place' = place /\ version' = version /\ moved' = moved
  BY DEF sparkVars
<1>3. ASSUME NEW g \in Handler PROVE Truthful(handlers'[g], place, version, moved)
  BY <1>1, ListsAreTruthful DEF QuietIInv
<1>4. \A g \in Handler : Truthful(handlers'[g], place', version', moved')
  BY <1>2, <1>3
<1>5. ListsTrue'
  BY <1>4 DEF ListsTrue, Truthful
<1> QED
  BY <1>2, <1>5 DEF QuietIInv

\* A change of the mailbox leaves every scan under way behind.
LEMMA ChangeKeeps ==
  ASSUME QuietIInv, NEW c \in Copy, Grow(c) \/ \E w \in Where : Move(c, w)
  PROVE  QuietIInv'
<1>1. moved \in Nat /\ moved' = moved + 1 /\ handlers' = handlers
  BY DEF QuietIInv, Grow, Move, Changed
<1>2. ASSUME NEW h \in Handler, handlers[h] # Idle, handlers[h].kind = "list"
      PROVE  ListShape(handlers[h], moved') /\ handlers[h].scan.from # moved'
  <2>1. ListShape(handlers[h], moved)
    BY <1>2 DEF QuietIInv, ListsTrue
  <2>2. handlers[h].scan.from \in Nat /\ handlers[h].scan.from <= moved
    BY <2>1 DEF ListShape
  <2>3. handlers[h].scan.from <= moved' /\ handlers[h].scan.from # moved'
    BY <1>1, <2>2
  <2> QED
    BY <2>1, <2>3 DEF ListShape
<1>3. ListsTrue'
  BY <1>1, <1>2 DEF ListsTrue
<1>4. place' \in [Copy -> Where]
  BY DEF QuietIInv, Grow, Move
<1> QED
  BY <1>1, <1>3, <1>4 DEF QuietIInv

\* A list begins with a scan that has found nothing yet.
LEMMA ListBegins ==
  ASSUME QuietIInv, NEW h, NEW cursor, NEW current
  PROVE  Truthful(ListOp(h, cursor, current), place, version, moved)
<1> DEFINE op == ListOp(h, cursor, current)
<1>1. /\ ListField \subseteq DOMAIN op /\ op.scan = NewScan /\ op.phase = "scan"
      /\ op.seen = [c \in Copy |-> Nothing] /\ op.wanted = Included(decisions, cursor)
      /\ op.rows = [c \in Included(decisions, cursor) |-> Latest(decisions, c)]
  BY DEF ListOp, ListField
<1>2. /\ NewScan = [x \in ScanField |-> NewScan[x]] /\ NewScan.view = "unread" /\ NewScan.page = 1
      /\ NewScan.listed = {} /\ NewScan.from = moved
  BY DEF NewScan, ScanField
<1>3. Included(decisions, cursor) \subseteq Copy
  BY DEF Included, Listable
<1> HIDE DEF op
<1>4. moved \in Nat
  BY DEF QuietIInv
<1>5. ListShape(op, moved)
  BY <1>1, <1>2, <1>3, <1>4 DEF ListShape
<1>6. ScanTrue(op, place, version)
  BY <1>1, <1>2 DEF ScanTrue, ReadUpTo
<1> QED
  BY <1>5, <1>6 DEF Truthful, op

LEMMA CopiesFinite ==
  ASSUME NEW where, NEW view
  PROVE  /\ InPlace(where, view) \subseteq Copy /\ InPlace(where, view) \subseteq Nat
         /\ IsFiniteSet(InPlace(where, view)) /\ ScanSize \in Nat \ {0}
<1>1. InPlace(where, view) \subseteq Copy /\ Copy \subseteq Nat /\ IsFiniteSet(Copy) /\ ScanSize \in Nat \ {0}
  BY OpenWorkAssumption DEF InPlace
<1> QED
  BY <1>1, FS_Subset

\* One page more: what was wanted of it is found, and after a short page all
\* that is wanted of the view.
LEMMA PageFinds ==
  ASSUME NEW where, NEW op, op.scan.page \in Nat \ {0}, ReadUpTo(op, op.scan.view, where),
         NEW listed, listed = op.scan.listed \union
                       (PageOf(InPlace(where, op.scan.view), op.scan.page, ScanSize) \cap op.wanted)
  PROVE  /\ \A k \in 1..op.scan.page :
              PageOf(InPlace(where, op.scan.view), k, ScanSize) \cap op.wanted \subseteq listed
         /\ Cardinality(PageOf(InPlace(where, op.scan.view), op.scan.page, ScanSize)) < ScanSize =>
              InPlace(where, op.scan.view) \cap op.wanted \subseteq listed
<1> DEFINE S == InPlace(where, op.scan.view)
           page == op.scan.page
<1>1. S \subseteq Nat /\ IsFiniteSet(S) /\ ScanSize \in Nat \ {0} /\ page \in Nat \ {0}
  BY CopiesFinite
<1>2. \A k \in 1..(page - 1) : PageOf(S, k, ScanSize) \cap op.wanted \subseteq listed
  BY DEF ReadUpTo
<1>3. PageOf(S, page, ScanSize) \cap op.wanted \subseteq listed
  OBVIOUS
<1> HIDE DEF S, page
<1>4. ASSUME NEW k \in 1..page PROVE PageOf(S, k, ScanSize) \cap op.wanted \subseteq listed
  <2>1. k = page \/ k \in 1..(page - 1)
    BY <1>1
  <2> QED
    BY <1>2, <1>3, <2>1
<1>5. ASSUME Cardinality(PageOf(S, page, ScanSize)) < ScanSize, NEW c \in S, c \in op.wanted
      PROVE  c \in listed
  <2>1. Cardinality(Newer(S, c)) < page * ScanSize
    BY <1>1, <1>5, ShortPageEnds
  <2>2. PICK k \in 1..page : c \in PageOf(S, k, ScanSize)
    BY <1>1, <2>1, PageReaches
  <2> QED
    BY <1>4, <1>5, <2>2
<1> QED
  BY <1>4, <1>5 DEF S, page

\* One provider page of a list's scan.
LEMMA ScanKeeps ==
  ASSUME WorkIInv, QuietIInv, NEW h \in Handler, Scan(h)
  PROVE  QuietIInv'
<1> DEFINE op == handlers[h]
           scan == op.scan
           rows == PageOf(InPlace(place, scan.view), scan.page, ScanSize)
           listed == scan.listed \union (rows \cap op.wanted)
           short == Cardinality(rows) < ScanSize
           missed(cut) == cut = {scan.view} \/ (short /\ cut = {})
           found == [scan EXCEPT !.listed = listed]
           turned(cut) == [found EXCEPT !.view = "read", !.page = 1, !.cut = @ \union cut]
           ended(cut) == [found EXCEPT !.page = 1, !.cut = @ \union cut]
           further == [found EXCEPT !.page = @ + 1]
<1>1. op # Idle /\ op.phase = "scan" /\ UNCHANGED sparkVars
  BY DEF Scan
<1>2. op = [x \in DOMAIN op |-> op[x]] /\ "kind" \in DOMAIN op /\ op.handler = h /\ "handler" \in DOMAIN op
  BY <1>1 DEF WorkIInv, SavesCarry
<1>3. PICK new : /\ handlers' = Inspecting(new)
                 /\ \/ /\ scan.view = "unread"
                       /\ \E cut : /\ missed(cut)
                                   /\ new = [op EXCEPT !.scan = turned(cut)]
                    \/ /\ scan.view # "unread"
                       /\ \E cut : /\ missed(cut)
                                   /\ new = [op EXCEPT !.scan = ended(cut), !.phase = "observe"]
                    \/ new = [op EXCEPT !.scan = further]
  BY DEF Scan, ScanPage, InPlace
<1> HIDE DEF op
<1>4. new.handler = h /\ new.kind = op.kind
  BY <1>2, <1>3
<1>5. handlers' = [handlers EXCEPT ![h] = new]
  BY <1>3, <1>4 DEF Inspecting
<1>6. ASSUME op.kind = "list" PROVE Truthful(new, place, version, moved)
  <2>1. ListShape(op, moved) /\ (scan.from = moved => ScanTrue(op, place, version))
    BY <1>1, <1>6 DEF QuietIInv, ListsTrue, op
  <2>2. /\ ListField \subseteq DOMAIN op /\ scan = [x \in ScanField |-> scan[x]]
        /\ scan.view \in {"unread", "read"} /\ scan.page \in Nat \ {0} /\ scan.listed \subseteq Copy
        /\ op.wanted \subseteq Copy
    BY <2>1 DEF ListShape
  <2>3. listed \subseteq Copy
    BY <2>2
  <2>4. PICK s, p : /\ DOMAIN new = DOMAIN op /\ new.scan = s /\ new.phase = p
                    /\ new.wanted = op.wanted /\ new.seen = op.seen /\ new.rows = op.rows
                    /\ \/ /\ scan.view = "unread" /\ p = "scan"
                          /\ \E cut : missed(cut) /\ s = turned(cut)
                       \/ /\ scan.view # "unread" /\ p = "observe"
                          /\ \E cut : missed(cut) /\ s = ended(cut)
                       \/ p = "scan" /\ s = further
    <3> HIDE DEF turned, ended, further, missed
    <3>1. CASE scan.view = "unread" /\ \E cut : missed(cut) /\ new = [op EXCEPT !.scan = turned(cut)]
      BY <1>1, <1>2, <2>2, <3>1 DEF ListField
    <3>2. CASE scan.view # "unread" /\ \E cut : missed(cut) /\ new = [op EXCEPT !.scan = ended(cut), !.phase = "observe"]
      BY <1>2, <2>2, <3>2 DEF ListField
    <3>3. CASE new = [op EXCEPT !.scan = further]
      BY <1>1, <1>2, <2>2, <3>3 DEF ListField
    <3> QED
      BY <1>3, <3>1, <3>2, <3>3
  <2>5. /\ \A cut : /\ turned(cut) = [x \in ScanField |-> turned(cut)[x]]
                    /\ turned(cut).view = "read" /\ turned(cut).page = 1 /\ turned(cut).listed = listed
                    /\ turned(cut).cut = scan.cut \union cut /\ turned(cut).from = scan.from
                    /\ turned(cut).failed = scan.failed
    BY <2>2 DEF ScanField
  <2>6. /\ \A cut : /\ ended(cut) = [x \in ScanField |-> ended(cut)[x]]
                    /\ ended(cut).view = scan.view /\ ended(cut).page = 1 /\ ended(cut).listed = listed
                    /\ ended(cut).cut = scan.cut \union cut /\ ended(cut).from = scan.from
                    /\ ended(cut).failed = scan.failed
    BY <2>2 DEF ScanField
  <2>7. /\ further = [x \in ScanField |-> further[x]]
        /\ further.view = scan.view /\ further.page = scan.page + 1 /\ further.listed = listed
        /\ further.cut = scan.cut /\ further.from = scan.from /\ further.failed = scan.failed
    BY <2>2 DEF ScanField
  <2> HIDE DEF turned, ended, further
  <2>8. /\ s = [x \in ScanField |-> s[x]] /\ s.view \in {"unread", "read"} /\ s.page \in Nat \ {0}
        /\ s.listed = listed /\ s.from = scan.from /\ p \in {"scan", "observe"}
    <3>1. /\ scan.page + 1 \in Nat \ {0} /\ 1 \in Nat \ {0} /\ "read" \in {"unread", "read"}
          /\ p \in {"scan", "observe"}
      BY <2>2, <2>4
    <3>2. CASE \E cut : s = turned(cut)
      <4>1. PICK cut : s = turned(cut)
        BY <3>2
      <4> HIDE DEF scan, listed
      <4> QED
        BY <2>5, <3>1, <4>1
    <3>3. CASE \E cut : s = ended(cut)
      <4>1. PICK cut : s = ended(cut)
        BY <3>3
      <4> HIDE DEF scan, listed
      <4> QED
        BY <2>2, <2>6, <3>1, <4>1
    <3>4. CASE s = further
      <4> HIDE DEF scan, listed
      <4> QED
        BY <2>2, <2>7, <3>1, <3>4
    <3> QED
      BY <2>4, <3>2, <3>3, <3>4
  <2>9. ListShape(new, moved)
    BY <2>1, <2>3, <2>4, <2>8 DEF ListShape
  <2>10. ASSUME scan.from = moved PROVE ScanTrue(new, place, version)
    <3>1. ScanTrue(op, place, version)
      BY <2>1, <2>10
    <3>2. \A c \in listed : place[c] # "elsewhere"
      <4>1. \A c \in rows : place[c] = scan.view
        BY DEF PageOf, InPlace
      <4> QED
        BY <2>2, <3>1, <4>1 DEF ScanTrue
    <3>3. ReadUpTo(op, scan.view, place)
      BY <1>1, <3>1 DEF ScanTrue
    <3>4. /\ \A k \in 1..scan.page : PageOf(InPlace(place, scan.view), k, ScanSize) \cap op.wanted \subseteq listed
          /\ short => InPlace(place, scan.view) \cap op.wanted \subseteq listed
      BY <2>2, <3>3, PageFinds
    <3>5. CASE p = "scan" /\ s = further
      <4>1. s.page - 1 = scan.page /\ s.view = scan.view /\ s.cut = scan.cut
        BY <2>2, <2>7, <3>5
      <4>2. ReadUpTo(new, s.view, place)
        BY <2>4, <2>8, <3>4, <4>1 DEF ReadUpTo
      <4>3. s.view = "read" => ReadThrough(new, "unread", place)
        BY <1>1, <2>4, <2>8, <3>1, <4>1 DEF ScanTrue, ReadThrough
      <4> QED
        BY <2>4, <2>8, <3>1, <3>2, <3>5, <4>2, <4>3 DEF ScanTrue
    <3>6. CASE scan.view = "unread" /\ p = "scan" /\ \E cut : missed(cut) /\ s = turned(cut)
      <4>1. PICK cut : missed(cut) /\ s = turned(cut)
        BY <3>6
      <4>2. s.page = 1 /\ s.view = "read" /\ s.cut = scan.cut \union cut
        BY <2>5, <4>1
      <4>3. ReadUpTo(new, s.view, place)
        BY <2>4, <4>2 DEF ReadUpTo
      <4>4. ReadThrough(new, "unread", place)
        BY <2>4, <2>8, <3>4, <3>6, <4>1, <4>2 DEF ReadThrough
      <4> QED
        BY <2>4, <2>8, <3>1, <3>2, <3>6, <4>3, <4>4 DEF ScanTrue
    <3>7. CASE scan.view # "unread" /\ p = "observe" /\ \E cut : missed(cut) /\ s = ended(cut)
      <4>1. PICK cut : missed(cut) /\ s = ended(cut)
        BY <3>7
      <4>2. s.cut = scan.cut \union cut /\ scan.view = "read"
        BY <2>2, <2>6, <3>7, <4>1
      <4>3. ReadThrough(new, "unread", place)
        BY <1>1, <2>4, <2>8, <3>1, <4>2 DEF ScanTrue, ReadThrough
      <4>4. ReadThrough(new, "read", place)
        BY <2>4, <2>8, <3>4, <4>1, <4>2 DEF ReadThrough
      <4> QED
        BY <2>4, <2>8, <3>1, <3>2, <3>7, <4>3, <4>4 DEF ScanTrue
    <3> QED
      BY <2>4, <3>5, <3>6, <3>7
  <2> QED
    BY <2>4, <2>8, <2>9, <2>10 DEF Truthful
<1>7. Truthful(new, place, version, moved)
  BY <1>4, <1>6 DEF Truthful
<1> QED
  BY <1>1, <1>5, <1>7, ListStep

\* A scan that fails says nothing of any copy.
LEMMA ScanFailKeeps ==
  ASSUME WorkIInv, QuietIInv, NEW h \in Handler, ScanFails(h)
  PROVE  QuietIInv'
<1> DEFINE op == handlers[h]
           new == [op EXCEPT !.scan.failed = TRUE, !.todo = <<>>, !.phase = "observe"]
<1>1. op # Idle /\ op.phase = "scan" /\ UNCHANGED sparkVars /\ handlers' = Inspecting(new)
  BY DEF ScanFails
<1>2. op = [x \in DOMAIN op |-> op[x]] /\ "kind" \in DOMAIN op /\ op.handler = h /\ "handler" \in DOMAIN op
  BY <1>1 DEF WorkIInv, SavesCarry
<1>3. new.handler = h /\ new.kind = op.kind
  BY <1>2
<1>4. handlers' = [handlers EXCEPT ![h] = new]
  BY <1>1, <1>3 DEF Inspecting
<1>5. ASSUME op.kind = "list" PROVE Truthful(new, place, version, moved)
  <2>1. ListShape(op, moved) /\ (op.scan.from = moved => ScanTrue(op, place, version))
    BY <1>1, <1>5 DEF QuietIInv, ListsTrue
  <2>2. ListField \subseteq DOMAIN op /\ op.scan = [x \in ScanField |-> op.scan[x]]
    BY <2>1 DEF ListShape
  <2>3. /\ DOMAIN new = DOMAIN op /\ new.scan = [op.scan EXCEPT !.failed = TRUE] /\ new.phase = "observe"
        /\ new.wanted = op.wanted /\ new.seen = op.seen /\ new.rows = op.rows
    BY <1>2, <2>2 DEF ListField
  <2>4. /\ new.scan = [x \in ScanField |-> new.scan[x]] /\ new.scan.view = op.scan.view
        /\ new.scan.page = op.scan.page /\ new.scan.listed = op.scan.listed
        /\ new.scan.from = op.scan.from /\ new.scan.failed = TRUE
    <3>1. ASSUME NEW was, NEW s, was = [x \in ScanField |-> was[x]], s = [was EXCEPT !.failed = TRUE]
          PROVE  /\ s = [x \in ScanField |-> s[x]] /\ s.view = was.view /\ s.page = was.page
                 /\ s.listed = was.listed /\ s.from = was.from /\ s.failed = TRUE
      BY <3>1 DEF ScanField
    <3> HIDE DEF new, op
    <3> QED
      BY <2>2, <2>3, <3>1
  <2> HIDE DEF new
  <2>5. ListShape(new, moved)
    BY <2>1, <2>3, <2>4 DEF ListShape
  <2>6. op.scan.from = moved => ScanTrue(new, place, version)
    BY <2>1, <2>3, <2>4 DEF ScanTrue
  <2> QED
    BY <2>4, <2>5, <2>6 DEF Truthful
<1>6. Truthful(new, place, version, moved)
  BY <1>3, <1>5 DEF Truthful
<1> QED
  BY <1>1, <1>4, <1>6, ListStep

\* The version of a thread is what it is now, or stays unknown.
LEMMA ObserveKeeps ==
  ASSUME WorkIInv, QuietIInv, NEW h \in Handler, ObserveVersion(h)
  PROVE  QuietIInv'
<1> DEFINE op == handlers[h]
           at == Head(op.todo)
<1>1. PICK seen \in {version[at], Nothing} :
        handlers' = Inspecting([op EXCEPT !.seen[at] = seen, !.todo = Tail(@)])
  BY DEF ObserveVersion
<1> DEFINE new == [op EXCEPT !.seen[at] = seen, !.todo = Tail(@)]
<1>2. op # Idle /\ op.phase = "observe" /\ UNCHANGED sparkVars
  BY DEF ObserveVersion
<1>3. op = [x \in DOMAIN op |-> op[x]] /\ "kind" \in DOMAIN op /\ op.handler = h /\ "handler" \in DOMAIN op
  BY <1>2 DEF WorkIInv, SavesCarry
<1>4. new.handler = h /\ new.kind = op.kind
  BY <1>3
<1>5. handlers' = [handlers EXCEPT ![h] = new]
  BY <1>1, <1>4 DEF Inspecting
<1>6. ASSUME op.kind = "list" PROVE Truthful(new, place, version, moved)
  <2>1. ListShape(op, moved) /\ (op.scan.from = moved => ScanTrue(op, place, version))
    BY <1>2, <1>6 DEF QuietIInv, ListsTrue
  <2>2. ListField \subseteq DOMAIN op /\ op.seen = [c \in Copy |-> op.seen[c]]
    BY <2>1 DEF ListShape
  <2>3. /\ DOMAIN new = DOMAIN op /\ new.scan = op.scan /\ new.phase = op.phase
        /\ new.wanted = op.wanted /\ new.seen = [op.seen EXCEPT ![at] = seen] /\ new.rows = op.rows
    BY <1>3, <2>2 DEF ListField
  <2> HIDE DEF new
  <2>4. /\ new.seen = [c \in Copy |-> new.seen[c]]
        /\ \A c \in Copy : new.seen[c] = IF c = at THEN seen ELSE op.seen[c]
    BY <2>2, <2>3
  <2>5. ListShape(new, moved)
    BY <2>1, <2>3, <2>4 DEF ListShape
  <2>6. op.scan.from = moved => ScanTrue(new, place, version)
    BY <1>2, <2>1, <2>3, <2>4 DEF ScanTrue, ReadThrough
  <2> QED
    BY <2>3, <2>5, <2>6 DEF Truthful
<1>7. Truthful(new, place, version, moved)
  BY <1>4, <1>6 DEF Truthful
<1> QED
  BY <1>2, <1>5, <1>7, ListStep

LEMMA NextQuiet == WorkIInv /\ QuietIInv /\ [WorkNext]_workVars => QuietIInv'
<1> SUFFICES ASSUME WorkIInv, QuietIInv, [WorkNext]_workVars PROVE QuietIInv'
  OBVIOUS
<1>1. CASE UNCHANGED workVars
  BY <1>1 DEF workVars, sparkVars, QuietIInv, ListsTrue
<1>2. ASSUME NEW c \in Copy, Grow(c) \/ \E w \in Where : Move(c, w) PROVE QuietIInv'
  BY <1>2, ChangeKeeps
<1>3. ASSUME NEW h \in Handler, BeginCheck(h) \/ LoadMore(h) PROVE QuietIInv'
  <2>1. PICK cursor, current : handlers' = Inspecting(ListOp(h, cursor, current)) /\ UNCHANGED sparkVars
    BY <1>3 DEF BeginCheck, CheckWork, LoadMore
  <2>2. ListOp(h, cursor, current).handler = h
    BY DEF ListOp
  <2>3. handlers' = [handlers EXCEPT ![h] = ListOp(h, cursor, current)]
    BY <2>1, <2>2 DEF Inspecting
  <2> QED
    BY <2>1, <2>3, ListBegins, ListStep
<1>4. ASSUME NEW h \in Handler, NEW choice, NEW content, BeginSave(h, choice.request, content)
      PROVE  QuietIInv'
  <2> DEFINE op == SaveOp(h, choice.request, content)
  <2>1. op.handler = h /\ op.kind = "save"
    BY DEF SaveOp
  <2> HIDE DEF op
  <2>2. handlers' = [handlers EXCEPT ![h] = op] /\ UNCHANGED sparkVars
    BY <1>4, <2>1 DEF BeginSave, Inspecting, op
  <2>3. Truthful(op, place, version, moved)
    BY <2>1 DEF Truthful
  <2> QED
    BY <2>2, <2>3, ListStep
<1>5. ASSUME NEW h \in Handler, Scan(h) \/ ScanFails(h) \/ ObserveVersion(h) PROVE QuietIInv'
  BY <1>5, ScanKeeps, ScanFailKeeps, ObserveKeeps
<1>6. ASSUME NEW h \in Handler, Store(h) \/ Deliver(h) PROVE QuietIInv'
  <2>1. handlers' = [handlers EXCEPT ![h] = Idle] /\ UNCHANGED sparkVars
    BY <1>6 DEF Store, Deliver
  <2> QED
    BY <2>1, ListStep DEF Truthful
<1> QED
  BY <1>1, <1>2, <1>3, <1>4, <1>5, <1>6 DEF WorkNext

\* QuietListIsTrue for every instance: a list read while the mailbox stood still
\* says of a copy that it is in or out of the Inbox only when it is, and that its
\* work is open or handled only for the newest version of its thread
\* (open-work.server.ts, the scan and the thread reads).
THEOREM QuietListsAreTrue == WorkSpec => []QuietListIsTrue
<1>1. QuietIInv => QuietListIsTrue
  <2> SUFFICES ASSUME QuietIInv, NEW h \in Handler, handlers[h] # Idle, handlers[h].kind = "list",
                      handlers[h].phase = "observe", handlers[h].scan.from = moved,
                      NEW c \in DOMAIN handlers[h].rows
               PROVE  /\ Items(handlers[h])[c].inbox = "in_inbox" => place[c] # "elsewhere"
                      /\ Items(handlers[h])[c].inbox = "not_in_inbox" => place[c] = "elsewhere"
                      /\ Items(handlers[h])[c].work \in {"open", "handled"} =>
                           handlers[h].rows[c].version = version[c]
    BY DEF QuietListIsTrue
  <2> DEFINE op == handlers[h]
  <2>1. ListShape(op, moved) /\ ScanTrue(op, place, version) /\ place \in [Copy -> Where]
    BY DEF QuietIInv, ListsTrue
  <2>2. c \in op.wanted /\ c \in Copy
    BY <2>1 DEF ListShape
  <2>3. /\ Items(op)[c].inbox = Standing(Evidence(op.scan, c))
        /\ Items(op)[c].work = WorkState(op.rows[c], op.seen[c])
    BY DEF Items
  <2> HIDE DEF op
  <2>4. ASSUME Standing(Evidence(op.scan, c)) = "in_inbox" PROVE place[c] # "elsewhere"
    <3>1. c \in op.scan.listed
      BY <2>4 DEF Standing, Evidence
    <3> QED
      BY <2>1, <3>1 DEF ScanTrue
  <2>5. ASSUME Standing(Evidence(op.scan, c)) = "not_in_inbox" PROVE place[c] = "elsewhere"
    <3>1. c \notin op.scan.listed /\ ~op.scan.failed /\ op.scan.cut = {}
      BY <2>5 DEF Standing, Evidence, Whole
    <3>2. c \notin InPlace(place, "unread") /\ c \notin InPlace(place, "read")
      BY <2>1, <2>2, <3>1 DEF ScanTrue, ReadThrough, op
    <3> QED
      BY <2>1, <2>2, <3>2 DEF InPlace, Where
  <2>6. ASSUME WorkState(op.rows[c], op.seen[c]) \in {"open", "handled"} PROVE op.rows[c].version = version[c]
    <3>1. op.seen[c] # Nothing /\ op.seen[c] = op.rows[c].version
      BY <2>6 DEF WorkState
    <3> QED
      BY <2>1, <2>2, <3>1 DEF ScanTrue
  <2> QED
    BY <2>3, <2>4, <2>5, <2>6 DEF op
<1> QED
  BY <1>1, WorkInitIInv, WorkNextIInv, QuietInit, NextQuiet, PTL DEF WorkSpec

-----------------------------------------------------------------------------
(* WholeIInv is inductive: a page and what its cursor still lists.             *)

LEMMA LastIs ==
  ASSUME NEW n \in Nat, NEW S, S \subseteq 1..n, S # {}
  PROVE  LastOf(S) \in S /\ \A j \in S : j <= LastOf(S)
<1> DEFINE T == {n - i : i \in S}
<1>1. T \subseteq Nat /\ T # {}
  <2>1. \A i \in S : n - i \in Nat
    OBVIOUS
  <2> QED
    BY <2>1
<1>2. PICK m \in T : \A k \in T : m <= k
  BY <1>1, Least
<1>3. PICK i \in S : m = n - i
  BY <1>2
<1>4. ASSUME NEW j \in S PROVE j <= i
  <2>1. n - j \in T /\ i \in 1..n /\ j \in 1..n
    OBVIOUS
  <2>2. n - i <= n - j
    BY <1>2, <1>3, <2>1
  <2> QED
    BY <2>1, <2>2
<1> QED
  BY <1>3, <1>4 DEF LastOf

LEMMA FirstIs ==
  ASSUME NEW S, S \subseteq Nat, S # {}
  PROVE  FirstOf(S) \in S /\ \A j \in S : FirstOf(S) <= j
  BY Least DEF FirstOf

Frozen(rows, c, cursor) == {i \in RowsAbout(rows, c) : cursor = Nothing \/ i <= cursor.snapshot}

\* The last decision about a copy, as far as a cursor sees, or none.
LEMMA LatestIdIs ==
  ASSUME NEW rows \in Seq(Decision), NEW c, NEW cursor
  PROVE  /\ LatestId(rows, c, cursor) \in 0..Len(rows)
         /\ Frozen(rows, c, cursor) = {} <=> LatestId(rows, c, cursor) = 0
         /\ Frozen(rows, c, cursor) # {} => /\ LatestId(rows, c, cursor) \in Frozen(rows, c, cursor)
                                            /\ \A i \in Frozen(rows, c, cursor) : i <= LatestId(rows, c, cursor)
<1>1. Len(rows) \in Nat /\ DOMAIN rows = 1..Len(rows)
  OBVIOUS
<1>2. Frozen(rows, c, cursor) \subseteq 1..Len(rows)
  BY <1>1 DEF Frozen, RowsAbout
<1>3. CASE Frozen(rows, c, cursor) = {}
  BY <1>1, <1>3 DEF LatestId, Frozen
<1>4. CASE Frozen(rows, c, cursor) # {}
  <2>1. LatestId(rows, c, cursor) = LastOf(Frozen(rows, c, cursor))
    BY <1>4 DEF LatestId, Frozen
  <2>2. /\ LastOf(Frozen(rows, c, cursor)) \in Frozen(rows, c, cursor)
        /\ \A i \in Frozen(rows, c, cursor) : i <= LastOf(Frozen(rows, c, cursor))
    BY <1>1, <1>2, <1>4, LastIs
  <2> QED
    BY <1>1, <1>2, <1>4, <2>1, <2>2
<1> QED
  BY <1>3, <1>4

LEMMA LatestSame ==
  ASSUME NEW rows, NEW others, NEW c, NEW cursor, NEW next,
         Frozen(rows, c, cursor) = Frozen(others, c, next)
  PROVE  LatestId(rows, c, cursor) = LatestId(others, c, next)
  BY DEF Frozen, LatestId

\* A decision stored later changes nothing of what a cursor lists.
LEMMA CursorStays ==
  ASSUME NEW rows \in Seq(Decision), NEW others,
         others = rows \/ \E row : others = Append(rows, row),
         NEW cursor, CursorFits(rows, cursor)
  PROVE  CursorFits(others, cursor) /\ Rest(others, cursor) = Rest(rows, cursor)
<1>1. CASE others = rows \/ cursor = Nothing
  BY <1>1 DEF CursorFits, Rest
<1>2. CASE cursor # Nothing /\ \E row : others = Append(rows, row)
  <2>1. PICK row : others = Append(rows, row)
    BY <1>2
  <2>2. /\ Len(rows) \in Nat /\ Len(others) = Len(rows) + 1
        /\ DOMAIN rows = 1..Len(rows) /\ DOMAIN others = 1..(Len(rows) + 1)
        /\ \A i \in 1..Len(rows) : others[i] = rows[i]
    BY <2>1
  <2>3. cursor.snapshot \in Nat /\ cursor.snapshot <= Len(rows) /\ cursor \in Cursor
    BY <1>2 DEF CursorFits, Cursor
  <2>4. ASSUME NEW c PROVE Frozen(others, c, cursor) = Frozen(rows, c, cursor)
    <3>1. /\ Frozen(others, c, cursor) = {i \in 1..(Len(rows) + 1) : others[i].copy = c /\ i <= cursor.snapshot}
          /\ Frozen(rows, c, cursor) = {i \in 1..Len(rows) : rows[i].copy = c /\ i <= cursor.snapshot}
      BY <1>2, <2>2 DEF Frozen, RowsAbout
    <3>2. \A i \in 1..(Len(rows) + 1) : i <= cursor.snapshot => i \in 1..Len(rows)
      BY <2>2, <2>3
    <3>3. \A i \in 1..Len(rows) : i \in 1..(Len(rows) + 1)
      BY <2>2
    <3> QED
      BY <2>2, <3>1, <3>2, <3>3
  <2>5. \A c : LatestId(others, c, cursor) = LatestId(rows, c, cursor)
    BY <2>4, LatestSame
  <2>6. Listable(others, cursor) = Listable(rows, cursor)
    BY <2>5 DEF Listable
  <2> QED
    BY <2>2, <2>3, <2>6 DEF CursorFits, Rest
<1> QED
  BY <1>1, <1>2

\* What is listed but not on the page is what the next cursor lists.
LEMMA PageAndRest ==
  ASSUME NEW rows \in Seq(Decision), NEW cursor, CursorFits(rows, cursor)
  PROVE  /\ CursorFits(rows, NextCursor(rows, cursor))
         /\ Listable(rows, cursor) = Included(rows, cursor) \union Rest(rows, NextCursor(rows, cursor))
<1> DEFINE L == Listable(rows, cursor)
           I == Included(rows, cursor)
           id(c) == LatestId(rows, c, cursor)
           after(c) == DecidedAfter(rows, c, cursor)
           next == NextCursor(rows, cursor)
           snapshot == IF cursor = Nothing THEN LastOf(IdsOf(rows, L, cursor)) ELSE cursor.snapshot
           before == FirstOf(IdsOf(rows, I, cursor))
<1>1. Len(rows) \in Nat /\ \A c : id(c) \in 0..Len(rows)
  BY LatestIdIs
<1>2. /\ L = {c \in Copy : id(c) > 0 /\ (cursor = Nothing \/ id(c) < cursor.before)}
      /\ I = {c \in L : Cardinality(after(c)) < CopiesPerPage}
      /\ \A c : after(c) = {d \in L : id(d) > id(c)}
  BY DEF Listable, Included, DecidedAfter
<1>3. IsFiniteSet(L) /\ CopiesPerPage \in Nat \ {0}
  <2>1. L \subseteq Copy /\ IsFiniteSet(Copy)
    BY <1>2, OpenWorkAssumption
  <2> QED
    BY <2>1, FS_Subset, OpenWorkAssumption
<1>4. \A c : IsFiniteSet(after(c)) /\ Cardinality(after(c)) \in Nat
  BY <1>2, <1>3, FS_Subset, FS_CardinalityType
<1>5. CASE L = I
  BY <1>5 DEF NextCursor, CursorFits, Rest
<1>6. CASE L # I
  <2>1. next = [snapshot |-> snapshot, before |-> before]
    BY <1>6 DEF NextCursor
  <2>2. /\ IdsOf(rows, L, cursor) = {id(c) : c \in L} /\ IdsOf(rows, I, cursor) = {id(c) : c \in I}
        /\ IdsOf(rows, L, cursor) \subseteq 1..Len(rows) /\ L # {}
    BY <1>1, <1>2, <1>6 DEF IdsOf
  <2> HIDE DEF L, I, id, after, next
  <2>3. PICK top \in L : LastOf(IdsOf(rows, L, cursor)) = id(top) /\ \A c \in L : id(c) <= id(top)
    <3>1. IdsOf(rows, L, cursor) # {}
      BY <2>2
    <3>2. /\ LastOf(IdsOf(rows, L, cursor)) \in IdsOf(rows, L, cursor)
          /\ \A j \in IdsOf(rows, L, cursor) : j <= LastOf(IdsOf(rows, L, cursor))
      BY <1>1, <2>2, <3>1, LastIs
    <3> QED
      BY <2>2, <3>2
  <2>4. top \in I
    <3>1. after(top) = {}
      BY <1>1, <1>2, <2>3
    <3>2. Cardinality(after(top)) = 0
      BY <3>1, FS_EmptySet
    <3> QED
      BY <1>2, <1>3, <2>3, <3>2
  <2>5. PICK least \in I : before = id(least) /\ \A c \in I : id(least) <= id(c)
    <3>1. IdsOf(rows, I, cursor) # {} /\ IdsOf(rows, I, cursor) \subseteq Nat
      BY <1>1, <2>2, <2>4
    <3>2. /\ before \in IdsOf(rows, I, cursor)
          /\ \A j \in IdsOf(rows, I, cursor) : before <= j
      BY <3>1, FirstIs
    <3> QED
      BY <2>2, <3>2
  <2>6. least \in L /\ \A c : id(c) \in Nat
    BY <1>1, <1>2, <2>5
  <2>7. snapshot \in Nat /\ snapshot <= Len(rows) /\ before \in Nat
    BY <1>1, <2>3, <2>5, <2>6 DEF CursorFits, Cursor
  <2>8. next \in Cursor /\ next # Nothing /\ next.snapshot = snapshot /\ next.before = before
    <3> HIDE DEF snapshot, before
    <3> QED
      BY <2>1, <2>7, OpenWorkAssumption DEF Cursor
  <2>9. ASSUME NEW c \in Copy PROVE LatestId(rows, c, next) = id(c)
    <3>1. CASE cursor # Nothing
      <4>1. Frozen(rows, c, next) = Frozen(rows, c, cursor)
        BY <2>8, <3>1 DEF Frozen
      <4> QED
        BY <4>1, LatestSame DEF id
    <3>2. CASE cursor = Nothing
      <4>1. c \notin L => Frozen(rows, c, cursor) = {}
        BY <1>1, <1>2, <3>2, LatestIdIs DEF id
      <4>2. \A i \in Frozen(rows, c, cursor) : c \in L /\ i <= id(c)
        BY <4>1, LatestIdIs DEF id
      <4>3. /\ DOMAIN rows = 1..Len(rows) /\ Frozen(rows, c, cursor) = RowsAbout(rows, c)
            /\ RowsAbout(rows, c) \subseteq Nat
        BY <3>2 DEF Frozen, RowsAbout
      <4>4. snapshot = id(top)
        BY <2>3, <3>2
      <4>5. \A i \in RowsAbout(rows, c) : i <= next.snapshot
        <5> HIDE DEF snapshot
        <5> QED
          BY <2>3, <2>6, <2>8, <4>2, <4>3, <4>4
      <4>6. Frozen(rows, c, next) = RowsAbout(rows, c)
        BY <4>5 DEF Frozen
      <4> QED
        BY <4>3, <4>6, LatestSame DEF id
    <3> QED
      BY <3>1, <3>2
  <2>10. ASSUME NEW c \in L, c \notin I PROVE id(c) < id(least)
    <3>1. Cardinality(after(c)) >= CopiesPerPage /\ Cardinality(after(least)) < CopiesPerPage
      BY <1>2, <1>3, <1>4, <2>5, <2>10
    <3>2. CASE id(least) <= id(c)
      <4>1. after(c) \subseteq after(least)
        BY <1>2, <2>6, <3>2
      <4>2. Cardinality(after(c)) <= Cardinality(after(least))
        BY <1>4, <4>1, FS_Subset
      <4> QED
        BY <1>3, <1>4, <3>1, <4>2
    <3> QED
      BY <2>6, <3>2
  <2>11. Listable(rows, next) = {c \in Copy : id(c) > 0 /\ id(c) < id(least)}
    BY <2>5, <2>8, <2>9 DEF Listable
  <2>12. CursorFits(rows, next) /\ Rest(rows, next) = {c \in Copy : id(c) > 0 /\ id(c) < id(least)}
    BY <2>7, <2>8, <2>11 DEF CursorFits, Rest
  <2>13. cursor = Nothing \/ cursor.before \in Nat
    BY DEF CursorFits, Cursor
  <2>14. ASSUME NEW c \in Copy, id(c) > 0, id(c) < id(least) PROVE c \in L
    BY <1>2, <2>6, <2>13, <2>14
  <2>15. L = I \union Rest(rows, next)
    BY <1>2, <2>6, <2>10, <2>12, <2>14
  <2> QED
    BY <2>12, <2>15 DEF L, I, next
<1> QED
  BY <1>5, <1>6

\* What a list under way shows of what it began with.
WholeList(rows, op) ==
  op # Idle /\ op.kind = "list" =>
    /\ {"cursor", "next", "rows", "first"} \subseteq DOMAIN op
    /\ CursorFits(rows, op.cursor) /\ CursorFits(rows, op.next)
    /\ IF op.cursor = Nothing THEN op.first = DOMAIN op.rows \union Rest(rows, op.next)
       ELSE Listable(rows, op.cursor) = DOMAIN op.rows \union Rest(rows, op.next)

WholeSection(rows, list) ==
  /\ list = [x \in {"status", "items", "cursor", "current", "loading", "more", "whole"} |-> list[x]]
  /\ list.status = "ready" => /\ CursorFits(rows, list.cursor)
                              /\ list.whole = DOMAIN list.items \union Rest(rows, list.cursor)

Grown(rows, others) == others = rows \/ \E row : others = Append(rows, row)

\* A list keeps being whole while decisions are stored.
LEMMA ListStays ==
  ASSUME NEW rows \in Seq(Decision), NEW others, Grown(rows, others), NEW op, WholeList(rows, op)
  PROVE  WholeList(others, op)
<1> SUFFICES ASSUME op # Idle, op.kind = "list" PROVE WholeList(others, op)
  BY DEF WholeList
<1>1. CursorFits(rows, op.cursor) /\ CursorFits(rows, op.next)
  BY DEF WholeList
<1>2. /\ CursorFits(others, op.cursor) /\ CursorFits(others, op.next)
      /\ Rest(others, op.cursor) = Rest(rows, op.cursor) /\ Rest(others, op.next) = Rest(rows, op.next)
  BY <1>1, CursorStays DEF Grown
<1>3. op.cursor # Nothing => Listable(others, op.cursor) = Listable(rows, op.cursor)
  BY <1>2 DEF Rest
<1> QED
  BY <1>2, <1>3 DEF WholeList

LEMMA SectionStays ==
  ASSUME NEW rows \in Seq(Decision), NEW others, Grown(rows, others), NEW list, WholeSection(rows, list)
  PROVE  WholeSection(others, list)
  BY CursorStays DEF WholeSection, Grown

\* One handler goes on or ends, and the section becomes what it makes of it.
LEMMA WholeStep ==
  ASSUME WorkIInv, WholeIInv, Grown(decisions, decisions'), NEW h \in Handler, NEW op,
         handlers' = [handlers EXCEPT ![h] = op],
         WholeList(decisions, op), WholeSection(decisions, section')
  PROVE  WholeIInv'
<1>1. decisions \in Seq(Decision)
  BY DEF WorkIInv, JournalTyped
<1>2. handlers'[h] = op /\ \A g \in Handler : g # h => handlers'[g] = handlers[g]
  BY DEF WorkIInv, SavesCarry
<1>3. \A g \in Handler : WholeList(decisions, handlers[g])
  BY DEF WholeIInv, ListsWhole, WholeList
<1>4. \A g \in Handler : WholeList(decisions, handlers'[g])
  BY <1>2, <1>3
<1>5. \A g \in Handler : WholeList(decisions', handlers'[g])
  BY <1>1, <1>4, ListStays
<1>6. WholeSection(decisions', section')
  BY <1>1, SectionStays
<1> QED
  BY <1>5, <1>6 DEF WholeIInv, ListsWhole, SectionWhole, WholeList, WholeSection

LEMMA WholeInit == WorkInit => WholeIInv
<1> SUFFICES ASSUME WorkInit PROVE WholeIInv
  OBVIOUS
<1>1. ListsWhole
  BY DEF WorkInit, ListsWhole
<1>2. /\ section = [x \in {"status", "items", "cursor", "current", "loading", "more", "whole"} |-> section[x]]
      /\ section.status = "none"
  BY DEF WorkInit
<1> QED
  BY <1>1, <1>2 DEF WholeIInv, SectionWhole

\* A list begins with the page its cursor asks for.
LEMMA ListBeginsWhole ==
  ASSUME WorkIInv, NEW h, NEW cursor, NEW current, CursorFits(decisions, cursor)
  PROVE  WholeList(decisions, ListOp(h, cursor, current))
<1> DEFINE op == ListOp(h, cursor, current)
<1>1. /\ {"cursor", "next", "rows", "first"} \subseteq DOMAIN op
      /\ op.cursor = cursor /\ op.next = NextCursor(decisions, cursor)
      /\ DOMAIN op.rows = Included(decisions, cursor)
      /\ op.first = IF cursor = Nothing THEN Listable(decisions, cursor) ELSE {}
  BY DEF ListOp
<1>2. decisions \in Seq(Decision)
  BY DEF WorkIInv, JournalTyped
<1>3. /\ CursorFits(decisions, NextCursor(decisions, cursor))
      /\ Listable(decisions, cursor) =
           Included(decisions, cursor) \union Rest(decisions, NextCursor(decisions, cursor))
  BY <1>2, PageAndRest
<1> HIDE DEF op
<1> QED
  BY <1>1, <1>3 DEF WholeList, op

LEMMA SectionIsWhole == WholeIInv => WholeSection(decisions, section)
  BY DEF WholeIInv, SectionWhole, WholeSection

\* A list is begun or gone on with.
LEMMA BeginWhole ==
  ASSUME WorkIInv, WholeIInv, NEW h \in Handler, BeginCheck(h) \/ LoadMore(h)
  PROVE  WholeIInv'
<1>1. WholeSection(decisions, section)
  BY SectionIsWhole
<1>2. PICK cursor, current : /\ handlers' = Inspecting(ListOp(h, cursor, current))
                             /\ CursorFits(decisions, cursor) /\ decisions' = decisions
  <2>1. CASE BeginCheck(h)
    <3>1. handlers' = Inspecting(ListOp(h, Nothing, section.current + 1)) /\ decisions' = decisions
      BY <2>1 DEF BeginCheck, CheckWork
    <3> QED
      BY <3>1 DEF CursorFits
  <2>2. CASE LoadMore(h)
    BY <1>1, <2>2 DEF LoadMore, WholeSection
  <2> QED
    BY <2>1, <2>2
<1>3. ListOp(h, cursor, current).handler = h
  BY DEF ListOp
<1>4. handlers' = [handlers EXCEPT ![h] = ListOp(h, cursor, current)]
  BY <1>2, <1>3 DEF Inspecting
<1>5. /\ section' = [x \in DOMAIN section |-> section'[x]] /\ DOMAIN section' = DOMAIN section
      /\ section'.status = section.status /\ section'.cursor = section.cursor
      /\ section'.items = section.items /\ section'.whole = section.whole
  BY <1>1 DEF BeginCheck, CheckWork, LoadMore, WholeSection
<1>6. WholeSection(decisions, section')
  BY <1>1, <1>5 DEF WholeSection
<1> QED
  BY <1>2, <1>4, <1>6, ListBeginsWhole, WholeStep DEF Grown

\* A page arrives, or is lost.
LEMMA DeliverWhole ==
  ASSUME WorkIInv, WholeIInv, NEW h \in Handler, Deliver(h)
  PROVE  WholeIInv'
<1> DEFINE op == handlers[h]
<1>1. /\ WholeSection(decisions, section) /\ WholeList(decisions, op)
      /\ op # Idle /\ op.kind = "list"
  BY SectionIsWhole DEF WholeIInv, ListsWhole, WholeList, Deliver
<1>2. handlers' = [handlers EXCEPT ![h] = Idle] /\ decisions' = decisions
  BY DEF Deliver
<1>3. DOMAIN Items(op) = DOMAIN op.rows
  BY DEF Items
<1>4. /\ DOMAIN section = {"status", "items", "cursor", "current", "loading", "more", "whole"}
      /\ section = [x \in DOMAIN section |-> section[x]]
  BY <1>1 DEF WholeSection
<1>5. WholeSection(decisions, Ended)
  BY <1>1, <1>4 DEF WholeSection, Ended
<1> HIDE DEF op
<1>6. ASSUME op.cursor = Nothing PROVE WholeSection(decisions, Replaced(op))
  <2>1. op.first = DOMAIN op.rows \union Rest(decisions, op.next) /\ CursorFits(decisions, op.next)
    BY <1>1, <1>6 DEF WholeList
  <2>2. /\ Replaced(op) = [x \in DOMAIN section |-> Replaced(op)[x]]
        /\ Replaced(op).cursor = op.next /\ Replaced(op).whole = op.first
        /\ Replaced(op).items = Items(op)
    BY <1>4 DEF Replaced, Ended
  <2> QED
    BY <1>3, <1>4, <2>1, <2>2 DEF WholeSection
<1>7. ASSUME op.cursor # Nothing PROVE WholeSection(decisions, Merged(op))
  <2>1. CASE section.status # "ready" \/ section.cursor # op.cursor
    BY <1>5, <2>1 DEF Merged
  <2>2. CASE section.status = "ready" /\ section.cursor = op.cursor
    <3>1. /\ Rest(decisions, section.cursor) = DOMAIN op.rows \union Rest(decisions, op.next)
          /\ CursorFits(decisions, op.next)
      BY <1>1, <1>7, <2>2 DEF WholeList, Rest
    <3>2. section.whole = DOMAIN section.items \union Rest(decisions, section.cursor)
      BY <1>1, <2>2 DEF WholeSection
    <3>3. /\ Merged(op) = [x \in DOMAIN section |-> Merged(op)[x]]
          /\ Merged(op).cursor = op.next /\ Merged(op).whole = section.whole
          /\ DOMAIN Merged(op).items = DOMAIN section.items \union DOMAIN op.rows
      BY <1>4, <2>2 DEF Merged, Ended
    <3> QED
      BY <1>4, <3>1, <3>2, <3>3 DEF WholeSection
  <2> QED
    BY <2>1, <2>2
<1>8. WholeSection(decisions, [Ended EXCEPT !.status = "unavailable", !.cursor = Nothing,
                                           !.items = <<>>, !.whole = {}])
  BY <1>4 DEF WholeSection, Ended
<1>9. WholeSection(decisions, section')
  BY <1>1, <1>5, <1>6, <1>7, <1>8 DEF Deliver, op
<1>10. WholeList(decisions, Idle)
  BY DEF WholeList
<1> QED
  BY <1>2, <1>9, <1>10, WholeStep DEF Grown

LEMMA NextWhole == WorkIInv /\ WholeIInv /\ [WorkNext]_workVars => WholeIInv'
<1> SUFFICES ASSUME WorkIInv, WholeIInv, [WorkNext]_workVars PROVE WholeIInv'
  OBVIOUS
<1>1. WholeSection(decisions, section) /\ \A h \in Handler : WholeList(decisions, handlers[h])
  BY SectionIsWhole DEF WholeIInv, ListsWhole, WholeList
<1>2. CASE UNCHANGED <<decisions, handlers, section>>
  BY <1>2 DEF WholeIInv, ListsWhole, SectionWhole
<1>3. ASSUME NEW h \in Handler, BeginCheck(h) \/ LoadMore(h) PROVE WholeIInv'
  BY <1>3, BeginWhole
<1>4. ASSUME NEW h \in Handler, NEW choice, NEW content, BeginSave(h, choice.request, content)
      PROVE  WholeIInv'
  <2> DEFINE op == SaveOp(h, choice.request, content)
  <2>1. op.handler = h /\ op.kind = "save"
    BY DEF SaveOp
  <2>2. handlers' = [handlers EXCEPT ![h] = op] /\ decisions' = decisions /\ section' = section
    BY <1>4, <2>1 DEF BeginSave, Inspecting
  <2>3. WholeList(decisions, op)
    BY <2>1 DEF WholeList
  <2> HIDE DEF op
  <2> QED
    BY <1>1, <2>2, <2>3, WholeStep DEF Grown
<1>5. ASSUME NEW h \in Handler, Scan(h) \/ ScanFails(h) \/ ObserveVersion(h) PROVE WholeIInv'
  <2>1. PICK new : handlers' = Inspecting(new) /\ Follows(new, handlers[h])
    BY <1>5, EvidenceFollows
  <2>2. handlers[h] # Idle /\ decisions' = decisions /\ section' = section
    BY <1>5 DEF Scan, ScanFails, ObserveVersion
  <2>3. {"kind", "handler"} \subseteq DOMAIN handlers[h] /\ handlers[h].handler = h
    BY <2>2 DEF WorkIInv, SavesCarry
  <2>4. handlers' = [handlers EXCEPT ![h] = new] /\ new.kind = handlers[h].kind
    BY <2>1, <2>3 DEF Follows, Inspecting
  <2>5. WholeList(decisions, new)
    <3>1. SUFFICES ASSUME handlers[h].kind = "list" PROVE WholeList(decisions, new)
      BY <2>4 DEF WholeList
    <3>2. {"cursor", "next", "rows", "first"} \subseteq DOMAIN handlers[h]
      BY <1>1, <2>2, <3>1 DEF WholeList
    <3>3. /\ new.cursor = handlers[h].cursor /\ new.next = handlers[h].next
          /\ new.rows = handlers[h].rows /\ new.first = handlers[h].first
          /\ DOMAIN new = DOMAIN handlers[h]
      BY <2>1, <3>2 DEF Follows
    <3> QED
      BY <1>1, <2>2, <3>1, <3>2, <3>3 DEF WholeList
  <2> QED
    BY <1>1, <2>2, <2>4, <2>5, WholeStep DEF Grown
<1>6. ASSUME NEW h \in Handler, Store(h) PROVE WholeIInv'
  <2>1. handlers' = [handlers EXCEPT ![h] = Idle] /\ section' = section
    BY <1>6 DEF Store
  <2>2. Grown(decisions, decisions')
    BY <1>6 DEF Store, RecordFollowUp, AppendDecision, Grown
  <2>3. WholeList(decisions, Idle)
    BY DEF WholeList
  <2> QED
    BY <1>1, <2>1, <2>2, <2>3, WholeStep
<1>7. ASSUME NEW h \in Handler, Deliver(h) PROVE WholeIInv'
  BY <1>7, DeliverWhole
<1>8. ASSUME NEW c \in Copy, Grow(c) \/ \E w \in Where : Move(c, w) PROVE WholeIInv'
  BY <1>2, <1>8 DEF Grow, Move
<1> QED
  BY <1>2, <1>3, <1>4, <1>5, <1>6, <1>7, <1>8 DEF WorkNext, workVars

\* LoadedIsWhole for every instance: a list loaded to its end names every copy
\* that had a decision when its first page was read, whatever is decided between
\* its pages (follow-ups.ts, readDecidedCopies).
THEOREM LoadedListsAreWhole == WorkSpec => []LoadedIsWhole
<1>1. WholeIInv => LoadedIsWhole
  BY DEF WholeIInv, SectionWhole, LoadedIsWhole, Rest
<1> QED
  BY <1>1, WorkInitIInv, WorkNextIInv, WholeInit, NextWhole, PTL DEF WorkSpec
=============================================================================
