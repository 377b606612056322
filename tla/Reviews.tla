------------------------------ MODULE Reviews ------------------------------
(* Human reviews of the stored classification of one mailbox copy: the panel   *)
(* of the browser tab (src/src/components/pages/WorkbenchPage/ReviewAction.tsx),*)
(* the save it keeps in session storage, the requests on the wire, the server  *)
(* (src/src/app/reviews.server.ts) and the journal (src/src/shadow/reviews.ts) *)
(* over judgments that move on while a person decides.                         *)
EXTENDS Integers, Sequences, FiniteSets, RequestJournal

CONSTANTS
  Field,        \* what a review decides one by one
  Value,        \* the labels a field may hold
  Subject,      \* versions a judgment names: latest message, rubric and build
  Request,      \* Save ids
  MaxMounts,    \* bound: times the panel is built
  MaxCalls,     \* bound: requests on the wire
  MaxLosses,    \* bound: answers lost or failed
  MaxMoves,     \* bound: times another subject comes into force
  None

Labels == [Field -> Value \union {None}]
Refusal == {"unclassified", "stale_subject"}
RequestRow == [payload : [subject : Subject, verdict : Labels], result : Refusal \union {Recorded}]

ASSUME ReviewsAssumption ==
  /\ None \notin Value /\ None \notin Request /\ None \notin Subject
  /\ None \notin RequestRow /\ None \notin {Recorded, Conflict, "unclassified", "stale_subject"}
  /\ {MaxMounts, MaxCalls, MaxLosses, MaxMoves} \subseteq Nat

VARIABLES
  judgments,    \* external: what the runs stored, by subject
  inForce,      \* external: the newest message the store has seen, under the server's build
  setBack,      \* external: whether the clock was set back
  reviews,      \* the reviews, in the order they were committed
  requests,     \* the request journal
  calls,        \* requests sent and answers under way
  reading,      \* what the last reading listed about the row
  panel,        \* the review panel of the open row
  session,      \* session storage: the unsettled save of each subject
  mounts,       \* panels built
  losses,       \* answers lost or failed so far
  moves,        \* times another subject came into force
  told          \* history: what the browser learned about each Save id

storeVars == <<judgments, inForce, setBack, moves>>
journalVars == <<reviews, requests>>
browserVars == <<reading, panel, session, mounts, told>>
vars == <<storeVars, journalVars, calls, losses, browserVars>>

Undecided == [f \in Field |-> None]
Verdict == [Field -> Value \union {None}] \ {Undecided}

-----------------------------------------------------------------------------
(* What the stored judgments say about the copy.                               *)

Projection ==
  CASE judgments[inForce] = "classified"                  -> "unverified"
    [] \E s \in Subject : judgments[s] = "classified"
       /\ judgments[inForce] # "classified"               -> "stale"
    [] judgments[inForce] = "failed"
       /\ \A s \in Subject : judgments[s] # "classified"  -> "provider_failure"
    [] OTHER                                              -> "none"

Admission(subject) ==
  CASE Projection \in {"none", "provider_failure"}             -> "unclassified"
    [] Projection = "unverified" /\ subject = inForce          -> "admitted"
    [] OTHER                                                   -> "stale_subject"

(* The newest review by the reviewing clock, the later row where it stands still. *)
LatestAt(ids, at) ==
  CHOOSE i \in ids : \A j \in ids : at[i] > at[j] \/ (at[i] = at[j] /\ i >= j)
Newest(ids) == LatestAt(ids, [i \in ids |-> reviews[i].at])

ReviewsOf(subject) == {i \in DOMAIN reviews : reviews[i].subject = subject}

(* The newest review decides every field, the ones it left alone included. *)
EffectiveBroken(subject) ==
  IF ReviewsOf(subject) = {} THEN Undecided
  ELSE reviews[Newest(ReviewsOf(subject))].verdict

(* Each field is decided by the newest review of the subject that named it. *)
Effective(subject) ==
  [f \in Field |->
     LET naming == {i \in ReviewsOf(subject) : reviews[i].verdict[f] # None}
         said   == [i \in naming |-> reviews[i].verdict[f]]
     IN IF naming = {} THEN None ELSE said[Newest(naming)]]

-----------------------------------------------------------------------------
(* The classifier's runs, the clock and a server restarted with another build. *)

Judge(verdict) ==
  /\ judgments[inForce] # "classified"
  /\ judgments' = [judgments EXCEPT ![inForce] = verdict]
  /\ UNCHANGED <<inForce, setBack, moves, journalVars, calls, losses, browserVars>>

MoveOn(s) ==
  /\ s # inForce /\ moves < MaxMoves
  /\ inForce' = s
  /\ moves' = moves + 1
  /\ UNCHANGED <<judgments, setBack, journalVars, calls, losses, browserVars>>

SetClockBack ==
  /\ ~setBack /\ reviews # <<>>
  /\ setBack' = TRUE
  /\ UNCHANGED <<judgments, inForce, moves, journalVars, calls, losses, browserVars>>

-----------------------------------------------------------------------------
(* The server. One call is one step: the database is read and written          *)
(* synchronously.                                                              *)

Payload(c) == [subject |-> c.subject, verdict |-> c.verdict]
RequestSaid(c) == RequestOutcome(requests[c.request], Payload(c), None)

(* The clock of a review: it advances, unless it was set back since. *)
Now == IF setBack THEN 0 ELSE Len(reviews) + 1

Answered(c, answer) == [c EXCEPT !.phase = "back", !.answer = answer]
Back(c, answer) ==    \* nobody waits for the answer of a muted call
  calls' = (calls \ {c}) \union (IF c.mute THEN {} ELSE {Answered(c, answer)})

Loss == losses < MaxLosses /\ losses' = losses + 1

AppendReview(c) ==
  Append(reviews, [subject |-> c.subject, verdict |-> c.verdict, at |-> Now,
                   request |-> c.request])

Remember(c, result) ==
  requests' = [requests EXCEPT ![c.request] = Remembered(Payload(c), result)]

(* A repeated id is not looked up, and its row is written again. *)
RecordReviewBroken(c) ==
  LET admission == Admission(c.subject)
  IN IF admission = "admitted"
     THEN reviews' = AppendReview(c) /\ Remember(c, Recorded)
     ELSE UNCHANGED reviews /\ Remember(c, admission)

(* One write transaction: a known id repeats its answer, an unknown one is     *)
(* admitted against the judgment in force, and the answer is remembered.       *)
RecordReview(c) ==
  LET admission == Admission(c.subject)
  IN IF RequestSaid(c) # Absent THEN UNCHANGED journalVars
     ELSE IF admission = "admitted"
     THEN reviews' = AppendReview(c) /\ Remember(c, Recorded)
     ELSE UNCHANGED reviews /\ Remember(c, admission)

(* The result of a committed save; a failed readback leaves it recorded. *)
Result(c) == LET row == requests'[c.request]
             IN RequestOutcome(row, Payload(c), None)

StoreReview(c) ==
  /\ c.kind = "save" /\ c.phase = "sent"
  /\ \/ /\ RecordReview(c)
        /\ \/ Back(c, Result(c)) /\ UNCHANGED losses
           \/ Back(c, "unknown") /\ Loss
     \/ /\ \E answer \in {"failed", "unknown"} : Back(c, answer) /\ Loss
        /\ UNCHANGED journalVars
  /\ UNCHANGED <<storeVars, browserVars>>

ReviewStatus(c) ==
  /\ c.kind = "check" /\ c.phase = "sent"
  /\ \/ Back(c, RequestSaid(c)) /\ UNCHANGED losses
     \/ Back(c, "unavailable") /\ Loss
  /\ UNCHANGED <<storeVars, journalVars, browserVars>>

-----------------------------------------------------------------------------
(* Session storage: one unsettled save per subject.                            *)

FreshRequest == {r \in Request : /\ requests[r] = None
                                 /\ \A c \in calls : c.request # r
                                 /\ \A s \in Subject : session[s] = None \/ session[s].id # r
                                 /\ told[r] = None}

FinishReview(c) ==
  session' = IF session[c.subject] # None /\ session[c.subject].id = c.request
             THEN [session EXCEPT ![c.subject] = None] ELSE session

-----------------------------------------------------------------------------
(* Nobody waits for these calls any longer. A save on its way may still reach  *)
(* the server; whatever else they were changes nothing.                        *)
Silenced(S) == {[c EXCEPT !.mute = TRUE] : c \in {d \in S : d.kind = "save" /\ d.phase = "sent"}}

(* The panel. A save that settled leaves it idle; what became of the save is   *)
(* in `told`.                                                                  *)

Settling(status) == status \in {"saving", "unknown"}

StartFrom(listed, mount) ==
  [mount |-> mount, signature |-> listed, choices |-> Undecided, recorded |-> Undecided,
   status |-> "idle", pending |-> None]

(* A panel that is not settling starts again when the reading says otherwise. *)
Shown(held, listed) ==
  IF held.signature = listed \/ Settling(held.status) THEN held
  ELSE StartFrom(listed, held.mount)

Listed ==
  IF Projection = "unverified"
  THEN [subject |-> inForce, saved |-> Effective(inForce)]
  ELSE [subject |-> None, saved |-> Undecided]

(* A reading arrives. Without a reviewable classification there is no panel. *)
Show(listed) ==
  /\ reading' = listed
  /\ IF listed.subject = None THEN panel' = None /\ UNCHANGED mounts
     ELSE IF panel = None
     THEN /\ mounts < MaxMounts
          /\ mounts' = mounts + 1
          /\ panel' = StartFrom(listed, mounts + 1)
     ELSE panel' = Shown(panel, listed) /\ UNCHANGED mounts
  /\ UNCHANGED <<storeVars, journalVars, losses, calls, session, told>>

Read == Show(Listed)

(* The tab is loaded again: the panel is gone, the storage and what was sent stay. *)
Reload ==
  /\ panel # None
  /\ panel' = None
  /\ reading' = [subject |-> None, saved |-> Undecided]
  /\ calls' = Silenced(calls)
  /\ UNCHANGED <<storeVars, losses, journalVars, session, mounts, told>>

DecidedValue(f) == IF panel.recorded[f] # None THEN panel.recorded[f] ELSE reading.saved[f]

(* An earlier attempt of this panel no longer counts. *)
Muted(mount) == LET own == {c \in calls : c.mount = mount}
                IN (calls \ own) \union Silenced(own)

Choose(f, v) ==
  /\ panel # None /\ ~Settling(panel.status)
  /\ panel.choices[f] # v
  /\ panel' = [panel EXCEPT !.choices[f] = v]
  /\ calls' = Muted(panel.mount)
  /\ UNCHANGED <<storeVars, journalVars, losses, reading, session, mounts, told>>

Pending ==
  [f \in Field |-> IF panel.choices[f] # DecidedValue(f) THEN panel.choices[f] ELSE None]

Call(kind, subject, kept, retry) ==
  [kind |-> kind, request |-> kept.id, subject |-> subject, verdict |-> kept.verdict,
   mount |-> panel.mount, retry |-> retry, mute |-> FALSE, phase |-> "sent", answer |-> None]

Sent(others, c) == /\ Cardinality(others) < MaxCalls
                   /\ calls' = others \union {c}

(* The save is kept before it is sent (when storage cannot keep it, nothing    *)
(* is sent and nothing changes); an unsettled one of the subject is taken up   *)
(* instead, and only checked when it decided something else.                   *)
Save ==
  /\ panel # None /\ ~Settling(panel.status)
  /\ Pending # Undecided
  /\ LET subject == reading.subject
         kept    == session[subject]
     IN \/ /\ kept = None
           /\ \E r \in FreshRequest :
                LET fresh == [id |-> r, verdict |-> Pending]
                IN /\ r = CHOOSE x \in FreshRequest : TRUE
                   /\ session' = [session EXCEPT ![subject] = fresh]
                   /\ panel' = [panel EXCEPT !.status = "saving", !.pending = fresh]
                   /\ Sent(Muted(panel.mount), Call("save", subject, fresh, FALSE))
        \/ /\ kept # None /\ kept.verdict = Pending
           /\ panel' = [panel EXCEPT !.status = "saving", !.pending = kept]
           /\ Sent(Muted(panel.mount), Call("save", subject, kept, FALSE))
           /\ UNCHANGED session
        \/ /\ kept # None /\ kept.verdict # Pending
           /\ panel' = [panel EXCEPT !.status = "unknown", !.pending = kept]
           /\ Sent(Muted(panel.mount), Call("check", subject, kept, FALSE))
           /\ UNCHANGED session
  /\ UNCHANGED <<storeVars, journalVars, losses, reading, mounts, told>>

(* "Check or retry save" after an unknown outcome. *)
CheckOrRetry ==
  /\ panel # None /\ panel.status = "unknown" /\ panel.pending # None
  /\ Sent(calls, Call("check", panel.signature.subject, panel.pending, TRUE))
  /\ UNCHANGED <<storeVars, journalVars, losses, reading, panel, session, mounts, told>>

-----------------------------------------------------------------------------
(* Answers.                                                                    *)

Settled(answer) == answer \notin {"unknown", "unavailable", Absent}

(* What was decided is kept until a reading carries it. *)
Taken(held, c, answer) ==
  IF answer = Recorded
  THEN [held EXCEPT !.status = "idle", !.choices = Undecided,
                    !.recorded = [f \in Field |-> IF c.verdict[f] # None THEN c.verdict[f] ELSE @[f]]]
  ELSE [held EXCEPT !.status = "idle"]

Mine(c) == panel # None /\ panel.mount = c.mount

(* A save whose outcome is known is finished with, wherever its panel is now. *)
Complete(c) ==
  /\ Settled(c.answer)
  /\ FinishReview(c)
  /\ told' = [told EXCEPT ![c.request] = c.answer]
  /\ panel' = IF Mine(c) THEN Shown(Taken(panel, c, c.answer), reading) ELSE panel
  /\ calls' = calls \ {c}

(* An unknown outcome stays unknown: a first save is checked, and a retry asked *)
(* for by the person is sent again when the store never answered it.           *)
Unsettled(c) ==
  /\ ~Settled(c.answer)
  /\ panel' = IF Mine(c) THEN [panel EXCEPT !.status = "unknown"] ELSE panel
  /\ calls' = (calls \ {c}) \union
       CASE c.kind = "save" /\ ~c.retry ->
              {[c EXCEPT !.kind = "check", !.phase = "sent", !.answer = None]}
         [] c.kind = "check" /\ c.retry /\ c.answer = Absent ->
              {[c EXCEPT !.kind = "save", !.phase = "sent", !.answer = None]}
         [] OTHER -> {}
  /\ UNCHANGED <<session, told>>

Answer(c) ==
  /\ c.phase = "back"
  /\ Complete(c) \/ Unsettled(c)
  /\ UNCHANGED <<storeVars, losses, journalVars, reading, mounts>>

(* The answer is lost. What was not yet served may still reach the server. *)
Lose(c) ==
  /\ ~c.mute /\ c.answer \notin {"unknown", "unavailable"}
  /\ \E late \in {{}, Silenced({c})} :
       calls' = (calls \ {c}) \union late
                \union {Answered(c, IF c.kind = "save" THEN "unknown" ELSE "unavailable")}
  /\ Loss
  /\ UNCHANGED <<storeVars, journalVars, browserVars>>

-----------------------------------------------------------------------------
ReviewsInit ==
  /\ judgments = [s \in Subject |-> None]
  /\ inForce \in Subject
  /\ setBack = FALSE
  /\ reviews = <<>>
  /\ requests = [r \in Request |-> None]
  /\ calls = {}
  /\ reading = [subject |-> None, saved |-> Undecided]
  /\ panel = None
  /\ session = [s \in Subject |-> None]
  /\ mounts = 0
  /\ losses = 0
  /\ moves = 0
  /\ told = [r \in Request |-> None]

ReviewsNext ==
  \/ \E verdict \in {"classified", "failed"} : Judge(verdict)
  \/ \E s \in Subject : MoveOn(s)
  \/ SetClockBack
  \/ \E c \in calls : StoreReview(c) \/ ReviewStatus(c) \/ Answer(c) \/ Lose(c)
  \/ Read \/ Reload \/ Save \/ CheckOrRetry
  \/ \E f \in Field, v \in Value \union {None} : Choose(f, v)

ReviewsSpec == ReviewsInit /\ [][ReviewsNext]_vars

-----------------------------------------------------------------------------
RowsOf(r) == {i \in DOMAIN reviews : reviews[i].request = r}

(* What the browser says of a save is what the store holds, whatever was lost, *)
(* repeated or reloaded on the way: a save told as recorded was stored once,   *)
(* one told as refused was never stored and never will be, no id stands on two *)
(* reviews or is told as a conflict, and every value the panel shows as        *)
(* recorded was stored. A save told as failed is not covered: an earlier send  *)
(* of it that was taken for lost may still arrive.                             *)
SavedIsStored ==
  /\ \A r \in Request :
       /\ told[r] = Recorded => Cardinality(RowsOf(r)) = 1
       /\ told[r] \in {"unclassified", "stale_subject"} =>
            RowsOf(r) = {} /\ requests[r] # None /\ requests[r].result = told[r]
       /\ Cardinality(RowsOf(r)) <= 1
       /\ told[r] # Conflict
  /\ panel # None =>
       \A f \in Field : panel.recorded[f] # None =>
         \E i \in DOMAIN reviews : reviews[i].verdict[f] = panel.recorded[f]

(* A review is stored only for the judgment in force at that moment, however   *)
(* long ago the row was listed, and it decides exactly the fields it names:    *)
(* the others keep what they showed. With a clock set back the newest review   *)
(* by the clock is not the last one stored, and the named fields may not       *)
(* follow.                                                                     *)
TakesEffect ==
  reviews' # reviews =>
    \A s \in Subject : LET last == reviews'[Len(reviews')] IN s = last.subject =>
      /\ judgments[s] = "classified" /\ s = inForce
      /\ \A f \in Field :
           /\ last.verdict[f] = None => Effective(s)'[f] = Effective(s)[f]
           /\ last.verdict[f] # None /\ ~setBack => Effective(s)'[f] = last.verdict[f]
ReviewTakesEffect == [][TakesEffect]_vars

-----------------------------------------------------------------------------
(* The inductive invariant behind SavedIsStored.                               *)

CallField == {"kind", "request", "subject", "verdict", "mount", "retry", "mute", "phase", "answer"}
PanelField == {"mount", "signature", "choices", "recorded", "status", "pending"}

CallsTyped ==
  \A c \in calls :
    /\ c = [x \in CallField |-> c[x]]
    /\ c.request \in Request /\ c.subject \in Subject /\ c.verdict \in Labels

JournalShape ==
  /\ requests \in [Request -> RequestRow \union {None}]
  /\ reviews \in Seq([subject : Subject, verdict : Labels, at : Nat, request : Request])

SessionTyped ==
  /\ session = [s \in Subject |-> session[s]]
  /\ \A s \in Subject : session[s] # None => session[s].id \in Request /\ session[s].verdict \in Labels

(* A panel that is not settling shows what the last reading listed. *)
PanelTyped ==
  panel # None =>
    /\ panel = [x \in PanelField |-> panel[x]] /\ reading.subject \in Subject
    /\ panel.choices \in Labels /\ panel.recorded \in Labels /\ panel.signature.subject \in Subject
    /\ panel.pending # None => panel.pending.id \in Request /\ panel.pending.verdict \in Labels
    /\ ~Settling(panel.status) => panel.signature = reading

(* Where an id is in use, and what for. *)
Deciding(subject, verdict) == [subject |-> subject, verdict |-> verdict]
Sends == {<<c.request, Payload(c)>> : c \in calls}
Keeps == {<<session[s].id, Deciding(s, session[s].verdict)>> : s \in {t \in Subject : session[t] # None}}
Stored == {<<r, requests[r].payload>> : r \in {q \in Request : requests[q] # None}}
Awaits == IF panel # None /\ panel.pending # None
          THEN {<<panel.pending.id, Deciding(panel.signature.subject, panel.pending.verdict)>>} ELSE {}

(* An id stands for one content, wherever it is used. *)
OneContent ==
  \A u, v \in Sends \union Keeps \union Stored \union Awaits : u[1] = v[1] => u[2] = v[2]

(* An answer under way that settles a save is the stored one. *)
AnswersTrue ==
  \A c \in calls : c.phase = "back" /\ Settled(c.answer) /\ c.answer # "failed" =>
    requests[c.request] # None /\ requests[c.request].result = c.answer

JournalTrue ==
  \A r \in Request :
    /\ \A i, j \in RowsOf(r) : i = j
    /\ RowsOf(r) # {} <=> requests[r] # None /\ requests[r].result = Recorded
    /\ \A i \in RowsOf(r) : reviews[i].verdict = requests[r].payload.verdict

ToldTrue ==
  /\ told = [r \in Request |-> told[r]]
  /\ \A r \in Request :
       /\ told[r] # Conflict
       /\ told[r] \in Refusal \union {Recorded} => requests[r] # None /\ requests[r].result = told[r]

ShownTrue ==
  panel # None => \A f \in Field : panel.recorded[f] # None =>
    \E i \in DOMAIN reviews : reviews[i].verdict[f] = panel.recorded[f]

(* Until the clock is set back, the reviewing times rise with the rows. *)
Clocked == ~setBack => \A i \in DOMAIN reviews : reviews[i].at <= Len(reviews)

ReviewsIInv ==
  /\ CallsTyped /\ JournalShape /\ SessionTyped /\ PanelTyped
  /\ OneContent /\ AnswersTrue /\ JournalTrue /\ ToldTrue /\ ShownTrue
=============================================================================
