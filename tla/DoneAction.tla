----------------------------- MODULE DoneAction -----------------------------
(***************************************************************************)
(* The guarded Spark Done path: the only write this program can make to a   *)
(* mailbox.  Several server processes share one SQLite action journal       *)
(* (actions/approval-store.ts, actions/receipt-store.ts); each runs at most *)
(* one Done operation at a time (createDoneActionService's serial queue)    *)
(* and may die between any two steps.  Spark acts on a message id, takes no *)
(* condition, and may carry a command out after the call that sent it was   *)
(* given up on; people and other clients move messages meanwhile.           *)
(***************************************************************************)
EXTENDS Integers, FiniteSets

CONSTANTS
  Proc,         \* server processes that open the journal
  Message,      \* Spark message ids
  Proposal,     \* exact proposals, as proposalId tells them apart
  Key,          \* idempotency keys a client may send
  TargetOf,     \* the message id a proposal addresses; alias copies share it
  ProposedAt,   \* when the proposal says it was made
  SeenVersion,  \* the thread version the proposal names
  Time,         \* readings of the wall clock
  Lifetime,     \* approvalLifetimeMs, in clock units
  MaxVersion    \* bound on thread versions: at most this many arrivals

ASSUME DoneActionAssumption ==
  /\ TargetOf \in [Proposal -> Message]
  /\ Time \subseteq Nat
  /\ ProposedAt \in [Proposal -> Time]
  /\ Lifetime \in Nat
  /\ MaxVersion \in Nat
  /\ SeenVersion \in [Proposal -> 0 .. MaxVersion]

Never == -1       \* no approval row for a proposal

VARIABLES
  approvals,   \* journal: approved_at of each proposal's row, or Never
  receipts,    \* journal: the receipt row of each key
  pc,          \* where each process is in its current operation
  job,         \* the request that operation serves
  answer,      \* what the process last answered
  clock,       \* the wall clock, which an operator or NTP may set back
  folder,      \* the folder each message id is in
  version,     \* how many messages its thread has received
  inflight,    \* keys whose command Spark has and has not carried out
  issued,      \* history: commands sent to Spark under each key
  archived     \* history: keys whose message was in Archive after the send

journal == <<approvals, receipts>>
process == <<pc, job, answer>>
mailbox == <<folder, version, inflight>>
history == <<issued, archived>>
vars == <<approvals, receipts, pc, job, answer, clock, folder,
          version, inflight, issued, archived>>

\* A receipt row; at is the reading of the clock its approval was last checked by.
Row == [status : {"pending", "confirmed", "uncertain"}, proposal : Proposal, at : Time]
NoRow == [status |-> "none"]
ApproveJob == [op : {"approve"}, proposal : Proposal]
ExecuteJob == [op : {"execute"}, proposal : Proposal, key : Key, at : Time]
NoJob == [op |-> "none"]
PC == {"idle", "inbox", "thread", "record", "claim", "send", "sent",
       "archive", "absence", "confirm", "uncertain"}
Answer == {"none", "approved", "blocked", "confirmed", "uncertain"}

-----------------------------------------------------------------------------
(* The journal's tables.                                                   *)

\* Definitions named ...Broken hold one mistake the code could have made.  No
\* action uses them; each stands before the definition it could replace.

\* The index covers pending receipts only.
UnresolvedBroken(k) == receipts[k].status = "pending"

\* The statuses the partial unique index mailbox_action_unresolved_target covers.
Unresolved(k) == receipts[k].status \in {"pending", "uncertain"}

\* The message id a receipt row locks, by target_hash.
Holds(k, m) == receipts[k].status # "none" /\ TargetOf[receipts[k].proposal] = m

\* No index on the target; a key's row replaced rather than kept.
ClaimableBroken(k, p) ==
  /\ receipts[k].status = "none"
  /\ \A j \in Key : receipts[j].status # "none" => receipts[j].proposal # p
ClaimableReplacing(k, p) ==
  /\ \A j \in Key : receipts[j].status # "none" => receipts[j].proposal # p
  /\ \A j \in Key : ~(Holds(j, TargetOf[p]) /\ Unresolved(j))

\* claim's INSERT OR IGNORE inserts: the key and the proposal are new, and no
\* unresolved receipt names the same message id.
Claimable(k, p) ==
  /\ receipts[k].status = "none"
  /\ \A j \in Key : receipts[j].status # "none" => receipts[j].proposal # p
  /\ \A j \in Key : ~(Holds(j, TargetOf[p]) /\ Unresolved(j))

\* confirm and markUncertain update this row, or throw 'receipt_transition_failed'.
OwnPending(k, p) == receipts[k].status = "pending" /\ receipts[k].proposal = p

\* An approval without an expiry.
ApprovalValidBroken(p, at) == at >= ProposedAt[p] /\ clock >= at /\ approvals[p] = at

\* approvalValid, with the store's verify: the approval the request carries is
\* the recorded one, not older than its proposal, and within its lifetime.
ApprovalValid(p, at) ==
  /\ at >= ProposedAt[p]
  /\ clock >= at
  /\ clock - at <= Lifetime
  /\ approvals[p] = at

-----------------------------------------------------------------------------
Init ==
  /\ approvals = [p \in Proposal |-> Never]
  /\ receipts = [k \in Key |-> NoRow]
  /\ pc = [s \in Proc |-> "idle"]
  /\ job = [s \in Proc |-> NoJob]
  /\ answer = [s \in Proc |-> "none"]
  /\ clock \in Time
  /\ folder = [m \in Message |-> "Inbox"]
  /\ version = [m \in Message |-> 0]
  /\ inflight = {}
  /\ issued = [k \in Key |-> 0]
  /\ archived = {}

Goto(s, l) ==
  /\ pc' = [pc EXCEPT ![s] = l]
  /\ UNCHANGED <<job, answer>>

Reply(s, a) ==
  /\ pc' = [pc EXCEPT ![s] = "idle"]
  /\ answer' = [answer EXCEPT ![s] = a]
  /\ UNCHANGED job

-----------------------------------------------------------------------------
(* Requests.  A client may ask anything at any time, with any approval time. *)
(* SPARK_DONE_ACTIONS_ENABLED is read anew at every check, so each check of   *)
(* the switch is a choice: a request it refuses at the door changes nothing.  *)

Begin(s, j) ==
  /\ pc[s] = "idle"
  /\ job' = [job EXCEPT ![s] = j]
  /\ answer' = [answer EXCEPT ![s] = "none"]
  /\ pc' = [pc EXCEPT ![s] = "inbox"]

\* operations.approve, up to the provider preflight it awaits.
Approve(s, p) ==
  /\ Begin(s, [op |-> "approve", proposal |-> p])
  /\ UNCHANGED <<journal, clock, mailbox, history>>

\* operations.execute and prepareExecution, up to the same preflight.  A
\* request that fails scopeExecution or the first approvalValid changes nothing.
Execute(s, p, k, t) ==
  /\ Begin(s, [op |-> "execute", proposal |-> p, key |-> k, at |-> t])
  /\ ApprovalValid(p, t)
  /\ UNCHANGED <<journal, clock, mailbox, history>>

-----------------------------------------------------------------------------
(* The preflight: two separate reads, each of which may fail or refuse.     *)

\* Page 1 of the inbox lists the message exactly once.
PreflightInbox(s) ==
  /\ pc[s] = "inbox"
  /\ \/ folder[TargetOf[job[s].proposal]] = "Inbox" /\ Goto(s, "thread")
     \/ Reply(s, "blocked")
  /\ UNCHANGED <<journal, clock, mailbox, history>>

\* The thread still ends at the message the proposal names.
PreflightThread(s) ==
  /\ pc[s] = "thread"
  /\ \/ /\ version[TargetOf[job[s].proposal]] = SeenVersion[job[s].proposal]
        /\ Goto(s, IF job[s].op = "approve" THEN "record" ELSE "claim")
     \/ Reply(s, "blocked")
  /\ UNCHANGED <<journal, clock, mailbox, history>>

\* INSERT OR REPLACE.
RecordBroken(s) ==
  /\ pc[s] = "record"
  /\ approvals' = [approvals EXCEPT ![job[s].proposal] = clock]
  /\ Reply(s, "approved")
  /\ UNCHANGED <<receipts, clock, mailbox, history>>

\* approvals.record: INSERT OR IGNORE, so the first approval of a proposal
\* stands; approveProposal would refuse none of the times the clock reads.
Record(s) ==
  /\ pc[s] = "record"
  /\ \/ /\ approvals' = [approvals EXCEPT ![job[s].proposal] =
                           IF @ = Never THEN clock ELSE @]
        /\ Reply(s, "approved")
     \/ /\ UNCHANGED approvals
        /\ Reply(s, "blocked")
  /\ UNCHANGED <<receipts, clock, mailbox, history>>

-----------------------------------------------------------------------------
(* One attempt.                                                             *)

\* The second approvalValid and receipts.claim, whose insert commits before
\* anything is sent; a refused or failed claim blocks.  Only settled awaits lie
\* between the two, and what the first one read no other process changes.
Claim(s) ==
  LET p == job[s].proposal
      k == job[s].key
  IN /\ pc[s] = "claim"
     /\ \/ /\ ApprovalValid(p, job[s].at)
           /\ Claimable(k, p)
           /\ receipts' = [receipts EXCEPT ![k] =
                             [status |-> "pending", proposal |-> p, at |-> clock]]
           /\ Goto(s, "send")
        \/ UNCHANGED receipts /\ Reply(s, "blocked")
     /\ UNCHANGED <<approvals, clock, mailbox, history>>

\* The second switch check, then the one markAsDone command.
Send(s) ==
  LET k == job[s].key
      m == TargetOf[job[s].proposal]
  IN /\ pc[s] = "send"
     /\ \/ /\ inflight' = inflight \cup {k}
           /\ issued' = [issued EXCEPT ![k] = @ + 1]
           /\ archived' = IF folder[m] = "Archive" THEN archived \cup {k} ELSE archived
           /\ Goto(s, "sent")
        \/ /\ Goto(s, "uncertain")
           /\ UNCHANGED <<inflight, history>>
     /\ UNCHANGED <<journal, clock, folder, version>>

\* No timeout: the call ends when Spark is done with the command.
SendReturnsBroken(s) ==
  /\ pc[s] = "sent"
  /\ job[s].key \notin inflight
  /\ Goto(s, "archive")
  /\ UNCHANGED <<journal, clock, mailbox, history>>

\* The call returns, throws, or is killed after its 15 s: all three read back.
SendReturns(s) ==
  /\ pc[s] = "sent"
  /\ Goto(s, "archive")
  /\ UNCHANGED <<journal, clock, mailbox, history>>

\* Absence from the inbox taken for proof.
ReadArchiveBroken(s) ==
  /\ pc[s] = "archive"
  /\ Goto(s, "absence")
  /\ UNCHANGED <<journal, clock, mailbox, history>>

\* readback's first listing: Archive must show the message.
ReadArchive(s) ==
  /\ pc[s] = "archive"
  /\ \/ folder[TargetOf[job[s].proposal]] = "Archive" /\ Goto(s, "absence")
     \/ Goto(s, "uncertain")
  /\ UNCHANGED <<journal, clock, mailbox, history>>

\* readback's second listing: Inbox must not.
ReadInbox(s) ==
  /\ pc[s] = "absence"
  /\ \/ folder[TargetOf[job[s].proposal]] # "Inbox" /\ Goto(s, "confirm")
     \/ Goto(s, "uncertain")
  /\ UNCHANGED <<journal, clock, mailbox, history>>

\* Answers what it meant to write.
ConfirmBroken(s) ==
  LET k == job[s].key
  IN /\ pc[s] = "confirm"
     /\ \/ receipts' = [receipts EXCEPT ![k].status = "confirmed"]
        \/ UNCHANGED receipts
     /\ Reply(s, "confirmed")
     /\ UNCHANGED <<approvals, clock, mailbox, history>>

\* receipts.confirm; a store error is caught and the attempt marked uncertain.
Confirm(s) ==
  LET k == job[s].key
  IN /\ pc[s] = "confirm"
     /\ \/ /\ OwnPending(k, job[s].proposal)
           /\ receipts' = [receipts EXCEPT ![k].status = "confirmed"]
           /\ Reply(s, "confirmed")
        \/ UNCHANGED receipts /\ Goto(s, "uncertain")
     /\ UNCHANGED <<approvals, clock, mailbox, history>>

\* A status the table does not know.
MarkUncertainBroken(s) ==
  /\ pc[s] = "uncertain"
  /\ receipts' = [receipts EXCEPT ![job[s].key].status = "failed"]
  /\ Reply(s, "uncertain")
  /\ UNCHANGED <<approvals, clock, mailbox, history>>

\* markUncertain; if the store fails, the pending row stays as the guard.
MarkUncertain(s) ==
  LET k == job[s].key
  IN /\ pc[s] = "uncertain"
     /\ \/ /\ OwnPending(k, job[s].proposal)
           /\ receipts' = [receipts EXCEPT ![k].status = "uncertain"]
        \/ UNCHANGED receipts
     /\ Reply(s, "uncertain")
     /\ UNCHANGED <<approvals, clock, mailbox, history>>

\* The process dies with an operation in progress and a new one takes its place.
Crash(s) ==
  /\ pc[s] # "idle"
  /\ pc' = [pc EXCEPT ![s] = "idle"]
  /\ job' = [job EXCEPT ![s] = NoJob]
  /\ answer' = [answer EXCEPT ![s] = "none"]
  /\ UNCHANGED <<journal, clock, mailbox, history>>

-----------------------------------------------------------------------------
(* Everything outside the server.                                           *)

SetClock(t) ==
  /\ clock' = t
  /\ UNCHANGED <<journal, process, mailbox, history>>

\* Keys whose message this is and whose command has been sent.
SentFor(m) == {k \in Key : issued[k] > 0 /\ Holds(k, m)}

\* Spark carries a command out, perhaps long after its call ended, or never does.
Land(k) ==
  LET m == TargetOf[receipts[k].proposal]
  IN /\ k \in inflight
     /\ inflight' = inflight \ {k}
     /\ \/ folder' = [folder EXCEPT ![m] = "Archive"] /\ archived' = archived \cup SentFor(m)
        \/ UNCHANGED <<folder, archived>>
     /\ UNCHANGED <<journal, process, clock, version, issued>>

\* A person or another client moves the message.
Move(m, f) ==
  /\ folder[m] # f
  /\ folder' = [folder EXCEPT ![m] = f]
  /\ archived' = IF f = "Archive" THEN archived \cup SentFor(m) ELSE archived
  /\ UNCHANGED <<journal, process, clock, version, inflight, issued>>

\* A new message arrives in the thread.
Arrive(m) ==
  /\ version[m] < MaxVersion
  /\ version' = [version EXCEPT ![m] = @ + 1]
  /\ UNCHANGED <<journal, process, clock, folder, inflight, history>>

-----------------------------------------------------------------------------
\* The steps of an operation already begun.
Step(s) ==
  \/ PreflightInbox(s) \/ PreflightThread(s) \/ Record(s)
  \/ Claim(s) \/ Send(s) \/ SendReturns(s)
  \/ ReadArchive(s) \/ ReadInbox(s) \/ Confirm(s) \/ MarkUncertain(s)

Next ==
  \/ \E s \in Proc :
       \/ \E p \in Proposal : Approve(s, p)
       \/ \E p \in Proposal, k \in Key, t \in Time : Execute(s, p, k, t)
       \/ Step(s) \/ Crash(s)
  \/ \E t \in Time : SetClock(t)
  \/ \E k \in Key : Land(k)
  \/ \E m \in Message : Arrive(m) \/ \E f \in {"Inbox", "Archive", "Elsewhere"} : Move(m, f)

Spec == Init /\ [][Next]_vars

\* A process that neither crashes nor hangs takes its next step: every provider
\* call ends within its 15 s timeout and every store call is synchronous.
Fairness == \A s \in Proc : WF_vars(Step(s))

-----------------------------------------------------------------------------
(* Properties.                                                              *)

\* The types of the journal, the processes and the mailbox.
TypeOK ==
  /\ approvals \in [Proposal -> Time \cup {Never}]
  /\ receipts \in [Key -> Row \cup {NoRow}]
  /\ pc \in [Proc -> PC]
  /\ job \in [Proc -> ApproveJob \cup ExecuteJob \cup {NoJob}]
  /\ answer \in [Proc -> Answer]
  /\ clock \in Time
  /\ folder \in [Message -> {"Inbox", "Archive", "Elsewhere"}]
  /\ version \in [Message -> 0 .. MaxVersion]
  /\ inflight \in SUBSET Key
  /\ issued \in [Key -> Nat]
  /\ archived \in SUBSET Key

\* At most one attempt on a message id is unresolved, whichever processes,
\* proposals, keys and alias copies the attempts came from (receipt-store.ts).
OneUnresolved ==
  \A j, k \in Key, m \in Message :
    j # k /\ Holds(j, m) /\ Holds(k, m) => ~(Unresolved(j) /\ Unresolved(k))

\* A command goes out only as the first of its key, and only when the outcome
\* of every earlier command on the same message id has been confirmed: a lost
\* answer, a timeout or a crash is never followed by another automatic attempt.
NoBlindRetry ==
  [][\A j, k \in Key :
       issued'[k] # issued[k] =>
         /\ issued[k] = 0
         /\ j # k /\ issued[j] > 0
              /\ TargetOf[receipts[j].proposal] = TargetOf[receipts[k].proposal]
            => receipts[j].status = "confirmed"]_vars

\* Every command has a receipt that was in the journal first, claimed while the
\* server's own approval of that exact proposal was at most Lifetime old; and a
\* proposal has one receipt, so one command, whatever keys it was sent under.
ApprovedAttempt ==
  \A k \in Key :
    /\ issued[k] > 0 => receipts[k].status # "none"
    /\ receipts[k].status # "none" =>
         LET p == receipts[k].proposal
         IN /\ approvals[p] # Never
            /\ ProposedAt[p] <= approvals[p]
            /\ receipts[k].at - approvals[p] \in 0 .. Lifetime
            /\ \A j \in Key : receipts[j].status # "none" /\ receipts[j].proposal = p => j = k

\* A confirmed receipt means the message really was in Archive at some moment
\* after its command went out, however the folder listings interleaved with
\* other clients and late commands.
ConfirmedWasArchived ==
  \A k \in Key : receipts[k].status = "confirmed" => issued[k] > 0 /\ k \in archived

\* What the client is told matches what the journal will say after a restart:
\* "confirmed" has a confirmed row, and after "uncertain" the message stays locked.
HonestAnswer ==
  \A s \in Proc :
    /\ answer[s] = "confirmed" => receipts[job[s].key].status = "confirmed"
    /\ answer[s] = "uncertain" => Unresolved(job[s].key)

\* The journal is append-only: an approval keeps its first time, and a receipt
\* keeps its proposal and leaves "pending" at most once, for good.
JournalFinal ==
  [][/\ \A p \in Proposal : approvals[p] # Never => approvals'[p] = approvals[p]
     /\ \A k \in Key : receipts[k].status # "none" =>
          /\ receipts'[k].status # "none"
          /\ receipts'[k].proposal = receipts[k].proposal
          /\ receipts[k].status # "pending" => receipts'[k] = receipts[k]]_vars

\* An operation begun is answered, or ends with its process.
Answered == \A s \in Proc : pc[s] # "idle" ~> pc[s] = "idle"

-----------------------------------------------------------------------------
(* The inductive invariant behind the safety properties.                     *)

\* Where a process owns the pending receipt it claimed.
Attempting == {"send", "sent", "archive", "absence", "confirm", "uncertain"}

\* A busy process serves a request of the kind its place implies, unanswered.
Serving ==
  \A s \in Proc :
    /\ pc[s] # "idle" => job[s] # NoJob /\ answer[s] = "none"
    /\ pc[s] \in Attempting \cup {"claim"} => job[s] \in ExecuteJob

\* An attempt owns its pending row, and no two attempts share a key.
Owned ==
  \A s \in Proc : pc[s] \in Attempting =>
    /\ OwnPending(job[s].key, job[s].proposal)
    /\ \A r \in Proc : r # s /\ pc[r] \in Attempting => job[r].key # job[s].key

\* How far an attempt got determines what was sent and seen.
Progress ==
  \A s \in Proc :
    /\ pc[s] = "send" => issued[job[s].key] = 0
    /\ pc[s] \in {"sent", "archive", "absence", "confirm"} => issued[job[s].key] = 1
    /\ pc[s] \in {"absence", "confirm"} => job[s].key \in archived

\* Commands are sent at most once per key and only under a row, and the history
\* of Archive sightings misses none.
Sent ==
  /\ \A k \in Key : issued[k] \in {0, 1} /\ (issued[k] = 1 => receipts[k].status # "none")
  /\ \A k \in inflight : issued[k] = 1
  /\ \A k \in Key, m \in Message :
       issued[k] = 1 /\ Holds(k, m) /\ folder[m] = "Archive" => k \in archived

\* An answered attempt is over: no process still owns its receipt.
Told ==
  \A s \in Proc : answer[s] \in {"confirmed", "uncertain"} =>
    /\ job[s] \in ExecuteJob
    /\ \A r \in Proc : pc[r] \in Attempting => job[r].key # job[s].key

IInv ==
  /\ TypeOK /\ Serving /\ Owned /\ Progress /\ Sent /\ Told
  /\ OneUnresolved /\ ApprovedAttempt /\ ConfirmedWasArchived /\ HonestAnswer

-----------------------------------------------------------------------------
(* The journal implements one lock per message id, held by a key, given up   *)
(* only after that key's single command.                                    *)

Lock == INSTANCE DoneLock WITH
  holder <- [m \in Message |-> {k \in Key : Holds(k, m) /\ Unresolved(k)}],
  used <- {k \in Key : receipts[k].status # "none"},
  sent <- issued

LockSpec == Lock!Spec

=============================================================================
