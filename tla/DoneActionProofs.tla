-------------------------- MODULE DoneActionProofs --------------------------
(***************************************************************************)
(* Proofs about DoneAction for any number of processes, messages,           *)
(* proposals, keys and clock readings.                                      *)
(***************************************************************************)
EXTENDS DoneAction, TLAPS

USE DoneActionAssumption DEF journal, process, mailbox, history

\* The app at rest over empty journals satisfies the invariant.
LEMMA InitIInv == Init => IInv
  BY DEF Init, IInv, TypeOK, Serving, Owned, Progress, Sent, Told, OneUnresolved,
     ApprovedAttempt, ConfirmedWasArchived, HonestAnswer, NoRow, NoJob, PC, Answer,
     Attempting, Holds, Unresolved, Never

\* A step keeps the types and serves only requests of the right kind.
LEMMA NextTypes == IInv /\ [Next]_vars => TypeOK' /\ Serving'
  <1> SUFFICES ASSUME TypeOK, Serving, [Next]_vars
               PROVE  TypeOK' /\ Serving'
    BY DEF IInv
  <1> USE DEF TypeOK, Serving, Attempting, PC, Answer
  <1>1. ASSUME NEW s \in Proc, NEW p \in Proposal, Approve(s, p)
        PROVE  TypeOK' /\ Serving'
    BY <1>1 DEF Approve, Begin, ApproveJob, NoJob
  <1>2. ASSUME NEW s \in Proc, NEW p \in Proposal, NEW k \in Key, NEW t \in Time,
               Execute(s, p, k, t)
        PROVE  TypeOK' /\ Serving'
    BY <1>2 DEF Execute, Begin, ExecuteJob, NoJob
  <1>3. ASSUME NEW s \in Proc, Step(s)
        PROVE  TypeOK' /\ Serving'
    <2>1. CASE PreflightInbox(s)
      BY <2>1 DEF PreflightInbox, Goto, Reply
    <2>2. CASE PreflightThread(s)
      BY <2>2 DEF PreflightThread, Goto, Reply, ApproveJob, ExecuteJob, NoJob
    <2>3. CASE Record(s)
      BY <2>3 DEF Record, Goto, Reply
    <2>4. CASE Claim(s)
      BY <2>4 DEF Claim, Goto, Reply, Row, ExecuteJob
    <2>5. CASE Send(s)
      BY <2>5 DEF Send, Goto, Reply, ExecuteJob
    <2>6. CASE SendReturns(s)
      BY <2>6 DEF SendReturns, Goto, Reply
    <2>7. CASE ReadArchive(s)
      BY <2>7 DEF ReadArchive, Goto, Reply
    <2>8. CASE ReadInbox(s)
      BY <2>8 DEF ReadInbox, Goto, Reply
    <2>9. CASE Confirm(s)
      BY <2>9 DEF Confirm, Goto, Reply, OwnPending, Row, NoRow
    <2>10. CASE MarkUncertain(s)
      BY <2>10 DEF MarkUncertain, Goto, Reply, OwnPending, Row, NoRow
    <2>11. QED
      BY <1>3, <2>1, <2>2, <2>3, <2>4, <2>5, <2>6, <2>7, <2>8, <2>9, <2>10 DEF Step
  <1>4. ASSUME NEW s \in Proc, Crash(s)
        PROVE  TypeOK' /\ Serving'
    BY <1>4 DEF Crash
  <1>5. ASSUME NEW t \in Time, SetClock(t)
        PROVE  TypeOK' /\ Serving'
    BY <1>5 DEF SetClock
  <1>6. ASSUME NEW k \in Key, Land(k)
        PROVE  TypeOK' /\ Serving'
    BY <1>6 DEF Land, SentFor
  <1>7. ASSUME NEW m \in Message, Arrive(m)
        PROVE  TypeOK' /\ Serving'
    BY <1>7 DEF Arrive
  <1>8. ASSUME NEW m \in Message, NEW f \in {"Inbox", "Archive", "Elsewhere"}, Move(m, f)
        PROVE  TypeOK' /\ Serving'
    BY <1>8 DEF Move, SentFor
  <1>9. CASE UNCHANGED vars
    BY <1>9 DEF vars
  <1>10. QED
    BY <1>1, <1>2, <1>3, <1>4, <1>5, <1>6, <1>7, <1>8, <1>9 DEF Next

\* An attempt keeps its pending row to itself: only the owner updates it, and a
\* claim is refused for a key that has a row.
LEMMA NextOwned == IInv /\ [Next]_vars => Owned'
  <1> SUFFICES ASSUME IInv, [Next]_vars, TypeOK', Serving'
               PROVE  Owned'
    BY NextTypes
  <1> USE DEF IInv, TypeOK, Serving, Attempting, Owned, OwnPending
  <1>1. ASSUME NEW s \in Proc, NEW p \in Proposal, Approve(s, p)
        PROVE  Owned'
    BY <1>1 DEF Approve, Begin, ApproveJob
  <1>2. ASSUME NEW s \in Proc, NEW p \in Proposal, NEW k \in Key, NEW t \in Time,
               Execute(s, p, k, t)
        PROVE  Owned'
    BY <1>2 DEF Execute, Begin
  <1>3. ASSUME NEW s \in Proc, Step(s)
        PROVE  Owned'
    <2>1. CASE PreflightInbox(s)
      BY <2>1 DEF PreflightInbox, Goto, Reply
    <2>2. CASE PreflightThread(s)
      BY <2>2 DEF PreflightThread, Goto, Reply
    <2>3. CASE Record(s)
      BY <2>3 DEF Record, Goto, Reply
    <2>4. CASE Claim(s)
      BY <2>4 DEF Claim, Goto, Reply, Claimable, ExecuteJob, Row
    <2>5. CASE Send(s)
      BY <2>5 DEF Send, Goto, Reply, ExecuteJob
    <2>6. CASE SendReturns(s)
      BY <2>6 DEF SendReturns, Goto, Reply
    <2>7. CASE ReadArchive(s)
      BY <2>7 DEF ReadArchive, Goto, Reply
    <2>8. CASE ReadInbox(s)
      BY <2>8 DEF ReadInbox, Goto, Reply
    <2>9. CASE Confirm(s)
      BY <2>9 DEF Confirm, Goto, Reply, ExecuteJob, Row, NoRow
    <2>10. CASE MarkUncertain(s)
      BY <2>10 DEF MarkUncertain, Goto, Reply, ExecuteJob, Row, NoRow
    <2>11. QED
      BY <1>3, <2>1, <2>2, <2>3, <2>4, <2>5, <2>6, <2>7, <2>8, <2>9, <2>10 DEF Step
  <1>4. ASSUME NEW s \in Proc, Crash(s)
        PROVE  Owned'
    BY <1>4 DEF Crash
  <1>5. ASSUME NEW t \in Time, SetClock(t)
        PROVE  Owned'
    BY <1>5 DEF SetClock
  <1>6. ASSUME NEW k \in Key, Land(k)
        PROVE  Owned'
    BY <1>6 DEF Land, SentFor
  <1>7. ASSUME NEW m \in Message, Arrive(m)
        PROVE  Owned'
    BY <1>7 DEF Arrive
  <1>8. ASSUME NEW m \in Message, NEW f \in {"Inbox", "Archive", "Elsewhere"}, Move(m, f)
        PROVE  Owned'
    BY <1>8 DEF Move, SentFor
  <1>9. CASE UNCHANGED vars
    BY <1>9 DEF vars
  <1>10. QED
    BY <1>1, <1>2, <1>3, <1>4, <1>5, <1>6, <1>7, <1>8, <1>9 DEF Next

\* What an attempt sent and saw stays true while others move on.
LEMMA NextProgress == IInv /\ [Next]_vars => Progress'
  <1> SUFFICES ASSUME IInv, [Next]_vars, TypeOK', Serving'
               PROVE  Progress'
    BY NextTypes
  <1> USE DEF IInv, TypeOK, Serving, Attempting, Owned, OwnPending, Progress, Sent
  <1>1. ASSUME NEW s \in Proc, NEW p \in Proposal, Approve(s, p)
        PROVE  Progress'
    BY <1>1 DEF Approve, Begin
  <1>2. ASSUME NEW s \in Proc, NEW p \in Proposal, NEW k \in Key, NEW t \in Time,
               Execute(s, p, k, t)
        PROVE  Progress'
    BY <1>2 DEF Execute, Begin
  <1>3. ASSUME NEW s \in Proc, Step(s)
        PROVE  Progress'
    <2>1. CASE PreflightInbox(s)
      BY <2>1 DEF PreflightInbox, Goto, Reply
    <2>2. CASE PreflightThread(s)
      BY <2>2 DEF PreflightThread, Goto, Reply
    <2>3. CASE Record(s)
      BY <2>3 DEF Record, Goto, Reply
    <2>4. CASE Claim(s)
      BY <2>4 DEF Claim, Goto, Reply, Claimable, ExecuteJob, Row, NoRow
    <2>5. CASE Send(s)
      BY <2>5 DEF Send, Goto, Reply, ExecuteJob
    <2>6. CASE SendReturns(s)
      BY <2>6 DEF SendReturns, Goto, Reply
    <2>7. CASE ReadArchive(s)
      BY <2>7 DEF ReadArchive, Goto, Reply, Holds, ExecuteJob, Row, NoRow
    <2>8. CASE ReadInbox(s)
      BY <2>8 DEF ReadInbox, Goto, Reply
    <2>9. CASE Confirm(s)
      BY <2>9 DEF Confirm, Goto, Reply
    <2>10. CASE MarkUncertain(s)
      BY <2>10 DEF MarkUncertain, Goto, Reply
    <2>11. QED
      BY <1>3, <2>1, <2>2, <2>3, <2>4, <2>5, <2>6, <2>7, <2>8, <2>9, <2>10 DEF Step
  <1>4. ASSUME NEW s \in Proc, Crash(s)
        PROVE  Progress'
    BY <1>4 DEF Crash
  <1>5. ASSUME NEW t \in Time, SetClock(t)
        PROVE  Progress'
    BY <1>5 DEF SetClock
  <1>6. ASSUME NEW k \in Key, Land(k)
        PROVE  Progress'
    BY <1>6 DEF Land, SentFor
  <1>7. ASSUME NEW m \in Message, Arrive(m)
        PROVE  Progress'
    BY <1>7 DEF Arrive
  <1>8. ASSUME NEW m \in Message, NEW f \in {"Inbox", "Archive", "Elsewhere"}, Move(m, f)
        PROVE  Progress'
    BY <1>8 DEF Move, SentFor
  <1>9. CASE UNCHANGED vars
    BY <1>9 DEF vars
  <1>10. QED
    BY <1>1, <1>2, <1>3, <1>4, <1>5, <1>6, <1>7, <1>8, <1>9 DEF Next

\* The end of an attempt moves the status of its own row and nothing else.
LEMMA RowsKept ==
  ASSUME TypeOK, NEW s \in Proc, Confirm(s) \/ MarkUncertain(s)
  PROVE  /\ UNCHANGED <<approvals, issued, inflight, folder, archived>>
         /\ \A k \in Key : (receipts'[k].status = "none") <=> (receipts[k].status = "none")
         /\ \A k \in Key : receipts[k].status # "none" =>
              /\ receipts'[k].proposal = receipts[k].proposal
              /\ receipts'[k].at = receipts[k].at
  <1>1. UNCHANGED <<approvals, issued, inflight, folder, archived>>
    BY DEF Confirm, MarkUncertain
  <1>2. CASE UNCHANGED receipts
    BY <1>1, <1>2
  <1>3. ASSUME NEW status \in {"confirmed", "uncertain"},
               OwnPending(job[s].key, job[s].proposal),
               receipts' = [receipts EXCEPT ![job[s].key].status = status]
        PROVE  \A k \in Key :
                 /\ (receipts'[k].status = "none") <=> (receipts[k].status = "none")
                 /\ receipts[k].status # "none" =>
                      /\ receipts'[k].proposal = receipts[k].proposal
                      /\ receipts'[k].at = receipts[k].at
    <2> TAKE k \in Key
    <2>1. CASE k # job[s].key
      BY <1>3, <2>1 DEF TypeOK
    <2>2. CASE k = job[s].key
      <3>1. receipts[k].status = "pending" /\ receipts[k] \in Row
        BY <1>3, <2>2 DEF TypeOK, OwnPending, NoRow
      <3>2. receipts'[k] = [receipts[k] EXCEPT !.status = status]
        BY <1>3, <2>2 DEF TypeOK
      <3>3. QED
        BY <3>1, <3>2 DEF Row
    <2>3. QED
      BY <2>1, <2>2
  <1>4. QED
    BY <1>1, <1>2, <1>3 DEF Confirm, MarkUncertain

\* Commands go out once per key, under a row.
LEMMA NextSent == IInv /\ [Next]_vars => Sent'
  <1> SUFFICES ASSUME IInv, [Next]_vars, TypeOK', Serving'
               PROVE  Sent'
    BY NextTypes
  <1> USE DEF IInv, TypeOK, Serving, Attempting, Owned, OwnPending, Progress, Sent, Holds
  <1>1. ASSUME NEW s \in Proc, NEW p \in Proposal, Approve(s, p)
        PROVE  Sent'
    BY <1>1 DEF Approve, Begin
  <1>2. ASSUME NEW s \in Proc, NEW p \in Proposal, NEW k \in Key, NEW t \in Time,
               Execute(s, p, k, t)
        PROVE  Sent'
    BY <1>2 DEF Execute, Begin
  <1>3. ASSUME NEW s \in Proc, Step(s)
        PROVE  Sent'
    <2>1. CASE PreflightInbox(s)
      BY <2>1 DEF PreflightInbox, Goto, Reply
    <2>2. CASE PreflightThread(s)
      BY <2>2 DEF PreflightThread, Goto, Reply
    <2>3. CASE Record(s)
      BY <2>3 DEF Record, Goto, Reply
    <2>4. CASE Claim(s)
      BY <2>4 DEF Claim, Goto, Reply, Claimable, ExecuteJob, Row, NoRow
    <2>5. CASE Send(s)
      BY <2>5 DEF Send, Goto, Reply, ExecuteJob
    <2>6. CASE SendReturns(s)
      BY <2>6 DEF SendReturns, Goto, Reply
    <2>7. CASE ReadArchive(s)
      BY <2>7 DEF ReadArchive, Goto, Reply
    <2>8. CASE ReadInbox(s)
      BY <2>8 DEF ReadInbox, Goto, Reply
    <2>9. CASE Confirm(s)
      BY <2>9, RowsKept, SMTT(40)
    <2>10. CASE MarkUncertain(s)
      BY <2>10, RowsKept, SMTT(40)
    <2>11. QED
      BY <1>3, <2>1, <2>2, <2>3, <2>4, <2>5, <2>6, <2>7, <2>8, <2>9, <2>10 DEF Step
  <1>4. ASSUME NEW s \in Proc, Crash(s)
        PROVE  Sent'
    BY <1>4 DEF Crash
  <1>5. ASSUME NEW t \in Time, SetClock(t)
        PROVE  Sent'
    BY <1>5 DEF SetClock
  <1>6. ASSUME NEW k \in Key, Land(k)
        PROVE  Sent'
    BY <1>6 DEF Land, SentFor
  <1>7. ASSUME NEW m \in Message, Arrive(m)
        PROVE  Sent'
    BY <1>7 DEF Arrive
  <1>8. ASSUME NEW m \in Message, NEW f \in {"Inbox", "Archive", "Elsewhere"}, Move(m, f)
        PROVE  Sent'
    BY <1>8 DEF Move, SentFor
  <1>9. CASE UNCHANGED vars
    BY <1>9 DEF vars
  <1>10. QED
    BY <1>1, <1>2, <1>3, <1>4, <1>5, <1>6, <1>7, <1>8, <1>9 DEF Next

\* An answered attempt stays over.
LEMMA NextTold == IInv /\ [Next]_vars => Told'
  <1> SUFFICES ASSUME IInv, [Next]_vars, TypeOK', Serving'
               PROVE  Told'
    BY NextTypes
  <1> USE DEF IInv, TypeOK, Serving, Attempting, Owned, OwnPending, Told, HonestAnswer, Unresolved
  <1>1. ASSUME NEW s \in Proc, NEW p \in Proposal, Approve(s, p)
        PROVE  Told'
    BY <1>1 DEF Approve, Begin
  <1>2. ASSUME NEW s \in Proc, NEW p \in Proposal, NEW k \in Key, NEW t \in Time,
               Execute(s, p, k, t)
        PROVE  Told'
    BY <1>2 DEF Execute, Begin
  <1>3. ASSUME NEW s \in Proc, Step(s)
        PROVE  Told'
    <2>1. CASE PreflightInbox(s)
      BY <2>1 DEF PreflightInbox, Goto, Reply
    <2>2. CASE PreflightThread(s)
      BY <2>2 DEF PreflightThread, Goto, Reply
    <2>3. CASE Record(s)
      BY <2>3 DEF Record, Goto, Reply
    <2>4. CASE Claim(s)
      BY <2>4 DEF Claim, Goto, Reply, Claimable, ExecuteJob, Row, NoRow
    <2>5. CASE Send(s)
      BY <2>5 DEF Send, Goto, Reply
    <2>6. CASE SendReturns(s)
      BY <2>6 DEF SendReturns, Goto, Reply
    <2>7. CASE ReadArchive(s)
      BY <2>7 DEF ReadArchive, Goto, Reply
    <2>8. CASE ReadInbox(s)
      BY <2>8 DEF ReadInbox, Goto, Reply
    <2>9. CASE Confirm(s)
      BY <2>9 DEF Confirm, Goto, Reply
    <2>10. CASE MarkUncertain(s)
      BY <2>10 DEF MarkUncertain, Goto, Reply
    <2>11. QED
      BY <1>3, <2>1, <2>2, <2>3, <2>4, <2>5, <2>6, <2>7, <2>8, <2>9, <2>10 DEF Step
  <1>4. ASSUME NEW s \in Proc, Crash(s)
        PROVE  Told'
    BY <1>4 DEF Crash
  <1>5. ASSUME NEW t \in Time, SetClock(t)
        PROVE  Told'
    BY <1>5 DEF SetClock
  <1>6. ASSUME NEW k \in Key, Land(k)
        PROVE  Told'
    BY <1>6 DEF Land, SentFor
  <1>7. ASSUME NEW m \in Message, Arrive(m)
        PROVE  Told'
    BY <1>7 DEF Arrive
  <1>8. ASSUME NEW m \in Message, NEW f \in {"Inbox", "Archive", "Elsewhere"}, Move(m, f)
        PROVE  Told'
    BY <1>8 DEF Move, SentFor
  <1>9. CASE UNCHANGED vars
    BY <1>9 DEF vars
  <1>10. QED
    BY <1>1, <1>2, <1>3, <1>4, <1>5, <1>6, <1>7, <1>8, <1>9 DEF Next

\* The unresolved-target index keeps attempts on one message id apart.
LEMMA NextOneUnresolved == IInv /\ [Next]_vars => OneUnresolved'
  <1> SUFFICES ASSUME IInv, [Next]_vars, TypeOK', Serving'
               PROVE  OneUnresolved'
    BY NextTypes
  <1> USE DEF IInv, TypeOK, Serving, Attempting, OneUnresolved, OwnPending, Holds, Unresolved
  <1>1. ASSUME NEW s \in Proc, NEW p \in Proposal, Approve(s, p)
        PROVE  OneUnresolved'
    BY <1>1 DEF Approve, Begin
  <1>2. ASSUME NEW s \in Proc, NEW p \in Proposal, NEW k \in Key, NEW t \in Time,
               Execute(s, p, k, t)
        PROVE  OneUnresolved'
    BY <1>2 DEF Execute, Begin
  <1>3. ASSUME NEW s \in Proc, Step(s)
        PROVE  OneUnresolved'
    <2>1. CASE PreflightInbox(s)
      BY <2>1 DEF PreflightInbox, Goto, Reply
    <2>2. CASE PreflightThread(s)
      BY <2>2 DEF PreflightThread, Goto, Reply
    <2>3. CASE Record(s)
      BY <2>3 DEF Record, Goto, Reply
    <2>4. CASE Claim(s)
      BY <2>4 DEF Claim, Goto, Reply, Claimable, ExecuteJob, Row, NoRow
    <2>5. CASE Send(s)
      BY <2>5 DEF Send, Goto, Reply
    <2>6. CASE SendReturns(s)
      BY <2>6 DEF SendReturns, Goto, Reply
    <2>7. CASE ReadArchive(s)
      BY <2>7 DEF ReadArchive, Goto, Reply
    <2>8. CASE ReadInbox(s)
      BY <2>8 DEF ReadInbox, Goto, Reply
    <2>9. CASE Confirm(s)
      BY <2>9 DEF Confirm, Goto, Reply, ExecuteJob, Row, NoRow
    <2>10. CASE MarkUncertain(s)
      BY <2>10 DEF MarkUncertain, Goto, Reply, ExecuteJob, Row, NoRow
    <2>11. QED
      BY <1>3, <2>1, <2>2, <2>3, <2>4, <2>5, <2>6, <2>7, <2>8, <2>9, <2>10 DEF Step
  <1>4. ASSUME NEW s \in Proc, Crash(s)
        PROVE  OneUnresolved'
    BY <1>4 DEF Crash
  <1>5. ASSUME NEW t \in Time, SetClock(t)
        PROVE  OneUnresolved'
    BY <1>5 DEF SetClock
  <1>6. ASSUME NEW k \in Key, Land(k)
        PROVE  OneUnresolved'
    BY <1>6 DEF Land, SentFor
  <1>7. ASSUME NEW m \in Message, Arrive(m)
        PROVE  OneUnresolved'
    BY <1>7 DEF Arrive
  <1>8. ASSUME NEW m \in Message, NEW f \in {"Inbox", "Archive", "Elsewhere"}, Move(m, f)
        PROVE  OneUnresolved'
    BY <1>8 DEF Move, SentFor
  <1>9. CASE UNCHANGED vars
    BY <1>9 DEF vars
  <1>10. QED
    BY <1>1, <1>2, <1>3, <1>4, <1>5, <1>6, <1>7, <1>8, <1>9 DEF Next

\* A row is inserted under a live approval, which is never rewritten.
LEMMA NextApproved == IInv /\ [Next]_vars => ApprovedAttempt'
  <1> SUFFICES ASSUME IInv, [Next]_vars, TypeOK', Serving'
               PROVE  ApprovedAttempt'
    BY NextTypes
  <1> USE DEF IInv, TypeOK, Serving, Attempting, ApprovedAttempt, Owned, OwnPending, Sent, Progress
  <1>1. ASSUME NEW s \in Proc, NEW p \in Proposal, Approve(s, p)
        PROVE  ApprovedAttempt'
    BY <1>1 DEF Approve, Begin
  <1>2. ASSUME NEW s \in Proc, NEW p \in Proposal, NEW k \in Key, NEW t \in Time,
               Execute(s, p, k, t)
        PROVE  ApprovedAttempt'
    BY <1>2 DEF Execute, Begin
  <1>3. ASSUME NEW s \in Proc, Step(s)
        PROVE  ApprovedAttempt'
    <2>1. CASE PreflightInbox(s)
      BY <2>1 DEF PreflightInbox, Goto, Reply
    <2>2. CASE PreflightThread(s)
      BY <2>2 DEF PreflightThread, Goto, Reply
    <2>3. CASE Record(s)
      <3>1. \A p \in Proposal : approvals[p] # Never => approvals'[p] = approvals[p]
        BY <2>3 DEF Record
      <3>2. receipts' = receipts /\ issued' = issued
        BY <2>3 DEF Record
      <3>3. \A k \in Key : receipts[k].status # "none" => receipts[k].proposal \in Proposal
        BY DEF Row, NoRow
      <3>4. QED
        BY <3>1, <3>2, <3>3
    <2>4. CASE Claim(s)
      <3> DEFINE p == job[s].proposal
                 k == job[s].key
      <3>1. CASE UNCHANGED receipts
        BY <2>4, <3>1 DEF Claim
      <3>2. CASE /\ ApprovalValid(p, job[s].at)
                 /\ Claimable(k, p)
                 /\ receipts' = [receipts EXCEPT ![k] =
                                   [status |-> "pending", proposal |-> p, at |-> clock]]
        <4>1. /\ p \in Proposal /\ k \in Key /\ job[s].at \in Time
              /\ pc[s] = "claim" /\ approvals' = approvals /\ issued' = issued
          BY <2>4 DEF Claim, ExecuteJob
        <4>2. receipts'[k] = [status |-> "pending", proposal |-> p, at |-> clock]
          BY <3>2, <4>1
        <4>3. ASSUME NEW j \in Key, j # k
              PROVE  receipts'[j] = receipts[j]
          BY <3>2, <4>1, <4>3
        <4>4. /\ approvals[p] # Never
              /\ ProposedAt[p] <= approvals[p]
              /\ clock - approvals[p] \in 0 .. Lifetime
          <5>1. /\ clock \in Nat /\ job[s].at \in Nat /\ approvals[p] = job[s].at
                /\ job[s].at >= ProposedAt[p] /\ clock >= job[s].at
                /\ clock - job[s].at <= Lifetime
            BY <3>2, <4>1 DEF ApprovalValid
          <5>2. ProposedAt[p] \in Nat
            BY <4>1
          <5>3. QED
            BY <5>1, <5>2 DEF Never
        <4>5. \A j \in Key : receipts[j].status # "none" => receipts[j].proposal # p
          BY <3>2 DEF Claimable
        <4>6. ASSUME NEW j \in Key, receipts'[j].status # "none"
              PROVE  LET q == receipts'[j].proposal
                     IN /\ approvals'[q] # Never
                        /\ ProposedAt[q] <= approvals'[q]
                        /\ receipts'[j].at - approvals'[q] \in 0 .. Lifetime
                        /\ \A i \in Key : receipts'[i].status # "none"
                                            /\ receipts'[i].proposal = q => i = j
          <5>1. CASE j = k
            BY <4>1, <4>2, <4>3, <4>4, <4>5, <5>1
          <5>2. CASE j # k
            <6>1. receipts'[j] = receipts[j] /\ receipts[j].proposal # p
              BY <4>3, <4>5, <4>6, <5>2
            <6>2. QED
              BY <4>1, <4>2, <4>3, <4>6, <6>1
          <5>3. QED
            BY <5>1, <5>2
        <4>7. \A j \in Key : issued'[j] > 0 => receipts'[j].status # "none"
          BY <4>1, <4>2, <4>3
        <4>8. QED
          BY <4>6, <4>7
      <3>3. QED
        BY <2>4, <3>1, <3>2 DEF Claim
    <2>5. CASE Send(s)
      BY <2>5 DEF Send, Goto, Reply, ExecuteJob
    <2>6. CASE SendReturns(s)
      BY <2>6 DEF SendReturns, Goto, Reply
    <2>7. CASE ReadArchive(s)
      BY <2>7 DEF ReadArchive, Goto, Reply
    <2>8. CASE ReadInbox(s)
      BY <2>8 DEF ReadInbox, Goto, Reply
    <2>9. CASE Confirm(s)
      BY <2>9, RowsKept
    <2>10. CASE MarkUncertain(s)
      BY <2>10, RowsKept
    <2>11. QED
      BY <1>3, <2>1, <2>2, <2>3, <2>4, <2>5, <2>6, <2>7, <2>8, <2>9, <2>10 DEF Step
  <1>4. ASSUME NEW s \in Proc, Crash(s)
        PROVE  ApprovedAttempt'
    BY <1>4 DEF Crash
  <1>5. ASSUME NEW t \in Time, SetClock(t)
        PROVE  ApprovedAttempt'
    BY <1>5 DEF SetClock
  <1>6. ASSUME NEW k \in Key, Land(k)
        PROVE  ApprovedAttempt'
    BY <1>6 DEF Land, SentFor
  <1>7. ASSUME NEW m \in Message, Arrive(m)
        PROVE  ApprovedAttempt'
    BY <1>7 DEF Arrive
  <1>8. ASSUME NEW m \in Message, NEW f \in {"Inbox", "Archive", "Elsewhere"}, Move(m, f)
        PROVE  ApprovedAttempt'
    BY <1>8 DEF Move, SentFor
  <1>9. CASE UNCHANGED vars
    BY <1>9 DEF vars
  <1>10. QED
    BY <1>1, <1>2, <1>3, <1>4, <1>5, <1>6, <1>7, <1>8, <1>9 DEF Next

\* Confirming needs a sighting in Archive after the send.
LEMMA NextConfirmed == IInv /\ [Next]_vars => ConfirmedWasArchived'
  <1> SUFFICES ASSUME IInv, [Next]_vars, TypeOK', Serving'
               PROVE  ConfirmedWasArchived'
    BY NextTypes
  <1> USE DEF IInv, TypeOK, Serving, Attempting, ConfirmedWasArchived, Owned, OwnPending, Progress, Sent
  <1>1. ASSUME NEW s \in Proc, NEW p \in Proposal, Approve(s, p)
        PROVE  ConfirmedWasArchived'
    BY <1>1 DEF Approve, Begin
  <1>2. ASSUME NEW s \in Proc, NEW p \in Proposal, NEW k \in Key, NEW t \in Time,
               Execute(s, p, k, t)
        PROVE  ConfirmedWasArchived'
    BY <1>2 DEF Execute, Begin
  <1>3. ASSUME NEW s \in Proc, Step(s)
        PROVE  ConfirmedWasArchived'
    <2>1. CASE PreflightInbox(s)
      BY <2>1 DEF PreflightInbox, Goto, Reply
    <2>2. CASE PreflightThread(s)
      BY <2>2 DEF PreflightThread, Goto, Reply
    <2>3. CASE Record(s)
      BY <2>3 DEF Record, Goto, Reply
    <2>4. CASE Claim(s)
      BY <2>4 DEF Claim, Goto, Reply, Claimable, ExecuteJob, Row, NoRow
    <2>5. CASE Send(s)
      BY <2>5 DEF Send, Goto, Reply, ExecuteJob
    <2>6. CASE SendReturns(s)
      BY <2>6 DEF SendReturns, Goto, Reply
    <2>7. CASE ReadArchive(s)
      BY <2>7 DEF ReadArchive, Goto, Reply
    <2>8. CASE ReadInbox(s)
      BY <2>8 DEF ReadInbox, Goto, Reply
    <2>9. CASE Confirm(s)
      BY <2>9 DEF Confirm, Goto, Reply, ExecuteJob, Row, NoRow
    <2>10. CASE MarkUncertain(s)
      BY <2>10 DEF MarkUncertain, Goto, Reply, ExecuteJob, Row, NoRow
    <2>11. QED
      BY <1>3, <2>1, <2>2, <2>3, <2>4, <2>5, <2>6, <2>7, <2>8, <2>9, <2>10 DEF Step
  <1>4. ASSUME NEW s \in Proc, Crash(s)
        PROVE  ConfirmedWasArchived'
    BY <1>4 DEF Crash
  <1>5. ASSUME NEW t \in Time, SetClock(t)
        PROVE  ConfirmedWasArchived'
    BY <1>5 DEF SetClock
  <1>6. ASSUME NEW k \in Key, Land(k)
        PROVE  ConfirmedWasArchived'
    BY <1>6 DEF Land, SentFor
  <1>7. ASSUME NEW m \in Message, Arrive(m)
        PROVE  ConfirmedWasArchived'
    BY <1>7 DEF Arrive
  <1>8. ASSUME NEW m \in Message, NEW f \in {"Inbox", "Archive", "Elsewhere"}, Move(m, f)
        PROVE  ConfirmedWasArchived'
    BY <1>8 DEF Move, SentFor
  <1>9. CASE UNCHANGED vars
    BY <1>9 DEF vars
  <1>10. QED
    BY <1>1, <1>2, <1>3, <1>4, <1>5, <1>6, <1>7, <1>8, <1>9 DEF Next

\* What was answered stays what the journal says.
LEMMA NextHonest == IInv /\ [Next]_vars => HonestAnswer'
  <1> SUFFICES ASSUME IInv, [Next]_vars, TypeOK', Serving'
               PROVE  HonestAnswer'
    BY NextTypes
  <1> USE DEF IInv, TypeOK, Serving, Attempting, HonestAnswer, Told, Owned, OwnPending, Unresolved
  <1>1. ASSUME NEW s \in Proc, NEW p \in Proposal, Approve(s, p)
        PROVE  HonestAnswer'
    BY <1>1 DEF Approve, Begin
  <1>2. ASSUME NEW s \in Proc, NEW p \in Proposal, NEW k \in Key, NEW t \in Time,
               Execute(s, p, k, t)
        PROVE  HonestAnswer'
    BY <1>2 DEF Execute, Begin, ExecuteJob
  <1>3. ASSUME NEW s \in Proc, Step(s)
        PROVE  HonestAnswer'
    <2>1. CASE PreflightInbox(s)
      BY <2>1 DEF PreflightInbox, Goto, Reply
    <2>2. CASE PreflightThread(s)
      BY <2>2 DEF PreflightThread, Goto, Reply
    <2>3. CASE Record(s)
      BY <2>3 DEF Record, Goto, Reply
    <2>4. CASE Claim(s)
      BY <2>4 DEF Claim, Goto, Reply, Claimable, ExecuteJob, Row, NoRow
    <2>5. CASE Send(s)
      BY <2>5 DEF Send, Goto, Reply
    <2>6. CASE SendReturns(s)
      BY <2>6 DEF SendReturns, Goto, Reply
    <2>7. CASE ReadArchive(s)
      BY <2>7 DEF ReadArchive, Goto, Reply
    <2>8. CASE ReadInbox(s)
      BY <2>8 DEF ReadInbox, Goto, Reply
    <2>9. CASE Confirm(s)
      BY <2>9 DEF Confirm, Goto, Reply, ExecuteJob, Row, NoRow
    <2>10. CASE MarkUncertain(s)
      BY <2>10 DEF MarkUncertain, Goto, Reply, ExecuteJob, Row, NoRow
    <2>11. QED
      BY <1>3, <2>1, <2>2, <2>3, <2>4, <2>5, <2>6, <2>7, <2>8, <2>9, <2>10 DEF Step
  <1>4. ASSUME NEW s \in Proc, Crash(s)
        PROVE  HonestAnswer'
    BY <1>4 DEF Crash
  <1>5. ASSUME NEW t \in Time, SetClock(t)
        PROVE  HonestAnswer'
    BY <1>5 DEF SetClock
  <1>6. ASSUME NEW k \in Key, Land(k)
        PROVE  HonestAnswer'
    BY <1>6 DEF Land, SentFor
  <1>7. ASSUME NEW m \in Message, Arrive(m)
        PROVE  HonestAnswer'
    BY <1>7 DEF Arrive
  <1>8. ASSUME NEW m \in Message, NEW f \in {"Inbox", "Archive", "Elsewhere"}, Move(m, f)
        PROVE  HonestAnswer'
    BY <1>8 DEF Move, SentFor
  <1>9. CASE UNCHANGED vars
    BY <1>9 DEF vars
  <1>10. QED
    BY <1>1, <1>2, <1>3, <1>4, <1>5, <1>6, <1>7, <1>8, <1>9 DEF Next


-----------------------------------------------------------------------------
(* The safety properties.                                                   *)

\* The inductive invariant holds in every reachable state.
THEOREM IInvHolds == Spec => []IInv
  <1>1. IInv /\ [Next]_vars => IInv'
    BY NextTypes, NextOwned, NextProgress, NextSent, NextTold, NextOneUnresolved,
       NextApproved, NextConfirmed, NextHonest DEF IInv
  <1>2. QED
    BY InitIInv, <1>1, PTL DEF Spec

\* Type correctness of the journal, the processes and the mailbox.
THEOREM TypeCorrect == Spec => []TypeOK
  <1>1. IInv => TypeOK
    BY DEF IInv
  <1>2. QED
    BY IInvHolds, <1>1, PTL

\* A message id never has two unresolved attempts.
THEOREM OneUnresolvedHolds == Spec => []OneUnresolved
  <1>1. IInv => OneUnresolved
    BY DEF IInv
  <1>2. QED
    BY IInvHolds, <1>1, PTL

\* Nothing is sent to Spark without a receipt under the server's live approval.
THEOREM ApprovedAttemptHolds == Spec => []ApprovedAttempt
  <1>1. IInv => ApprovedAttempt
    BY DEF IInv
  <1>2. QED
    BY IInvHolds, <1>1, PTL

\* A confirmed receipt was earned by the mailbox.
THEOREM ConfirmedWasArchivedHolds == Spec => []ConfirmedWasArchived
  <1>1. IInv => ConfirmedWasArchived
    BY DEF IInv
  <1>2. QED
    BY IInvHolds, <1>1, PTL

\* The client is never told more than the journal keeps.
THEOREM HonestAnswerHolds == Spec => []HonestAnswer
  <1>1. IInv => HonestAnswer
    BY DEF IInv
  <1>2. QED
    BY IInvHolds, <1>1, PTL

-----------------------------------------------------------------------------
(* The action properties.                                                   *)

\* Only Send changes what was issued, and only for the key it serves.
LEMMA IssuedBySend ==
  ASSUME IInv, [Next]_vars, NEW k \in Key, issued'[k] # issued[k]
  PROVE  \E s \in Proc : Send(s) /\ job[s].key = k /\ pc[s] = "send"
  <1>1. ASSUME NEW s \in Proc, Send(s)
        PROVE  \E r \in Proc : Send(r) /\ job[r].key = k /\ pc[r] = "send"
    BY <1>1 DEF Send, IInv, TypeOK
  <1>2. CASE \A s \in Proc : ~Send(s)
    BY <1>2 DEF Next, Step, Approve, Execute, Begin, PreflightInbox, PreflightThread,
       Record, Claim, SendReturns, ReadArchive, ReadInbox, Confirm, MarkUncertain,
       Crash, SetClock, Land, Arrive, Move, vars
  <1>3. QED
    BY <1>1, <1>2

\* No command follows one whose outcome is unknown, for any number of server
\* processes, crashes, keys and proposals.
THEOREM NoBlindRetryHolds == Spec => NoBlindRetry
  <1> DEFINE A == \A j, k \in Key :
                    issued'[k] # issued[k] =>
                      /\ issued[k] = 0
                      /\ j # k /\ issued[j] > 0
                           /\ TargetOf[receipts[j].proposal] = TargetOf[receipts[k].proposal]
                         => receipts[j].status = "confirmed"
  <1>1. ASSUME IInv, [Next]_vars
        PROVE  A
    <2>1. SUFFICES ASSUME NEW j \in Key, NEW k \in Key, issued'[k] # issued[k]
                   PROVE  /\ issued[k] = 0
                          /\ j # k /\ issued[j] > 0
                               /\ TargetOf[receipts[j].proposal] = TargetOf[receipts[k].proposal]
                             => receipts[j].status = "confirmed"
      OBVIOUS
    <2>2. PICK s \in Proc : Send(s) /\ job[s].key = k /\ pc[s] = "send"
      BY <1>1, <2>1, IssuedBySend
    <2>3. issued[k] = 0 /\ receipts[k].status = "pending"
      BY <1>1, <2>2 DEF IInv, Progress, Owned, OwnPending, Attempting
    <2>4. ASSUME j # k, issued[j] > 0,
                 TargetOf[receipts[j].proposal] = TargetOf[receipts[k].proposal]
          PROVE  receipts[j].status = "confirmed"
      <3>1. receipts[j].status # "none"
        BY <1>1, <2>4 DEF IInv, ApprovedAttempt
      <3>2. receipts[j] \in Row /\ receipts[k] \in Row
        BY <1>1, <2>3, <3>1 DEF IInv, TypeOK, NoRow
      <3>3. TargetOf[receipts[k].proposal] \in Message
        BY <3>2 DEF Row
      <3>4. ~Unresolved(j)
        BY <1>1, <2>3, <2>4, <3>1, <3>3 DEF IInv, OneUnresolved, Holds, Unresolved
      <3>5. QED
        BY <3>2, <3>4 DEF Row, Unresolved
    <2>5. QED
      BY <2>3, <2>4
  <1>2. QED
    BY IInvHolds, <1>1, PTL DEF Spec, NoBlindRetry

\* Only three actions write a receipt: a claim fills an absent row, and the
\* owner of a pending row resolves it.
LEMMA ReceiptWrites ==
  ASSUME IInv, [Next]_vars
  PROVE  \/ UNCHANGED receipts
         \/ \E k \in Key, p \in Proposal, t \in Time :
              /\ receipts[k].status = "none" /\ Claimable(k, p)
              /\ receipts' = [receipts EXCEPT ![k] =
                                [status |-> "pending", proposal |-> p, at |-> t]]
         \/ \E k \in Key, f \in {"confirmed", "uncertain"} :
              /\ receipts[k].status = "pending"
              /\ f = "confirmed" => issued[k] = 1
              /\ receipts' = [receipts EXCEPT ![k].status = f]
  <1> DEFINE Result ==
        \/ UNCHANGED receipts
        \/ \E k \in Key, p \in Proposal, t \in Time :
             /\ receipts[k].status = "none" /\ Claimable(k, p)
             /\ receipts' = [receipts EXCEPT ![k] =
                               [status |-> "pending", proposal |-> p, at |-> t]]
        \/ \E k \in Key, f \in {"confirmed", "uncertain"} :
             /\ receipts[k].status = "pending"
             /\ f = "confirmed" => issued[k] = 1
             /\ receipts' = [receipts EXCEPT ![k].status = f]
  <1>1. ASSUME NEW s \in Proc, Claim(s)
        PROVE  Result
    <2>1. job[s] \in ExecuteJob /\ clock \in Time
      BY <1>1 DEF Claim, IInv, TypeOK, Serving
    <2>2. job[s].key \in Key /\ job[s].proposal \in Proposal
      BY <2>1 DEF ExecuteJob
    <2>3. CASE UNCHANGED receipts
      BY <2>3
    <2>4. CASE ~UNCHANGED receipts
      BY <1>1, <2>1, <2>2, <2>4 DEF Claim, Claimable
    <2>5. QED
      BY <2>3, <2>4
  <1>2. ASSUME NEW s \in Proc, Confirm(s) \/ MarkUncertain(s)
        PROVE  Result
    <2>1. job[s] \in ExecuteJob
      BY <1>2 DEF Confirm, MarkUncertain, IInv, Serving, Attempting
    <2>2. job[s].key \in Key
      BY <2>1 DEF ExecuteJob
    <2>3. Confirm(s) => issued[job[s].key] = 1
      BY DEF Confirm, IInv, Progress
    <2>4. QED
      BY <1>2, <2>2, <2>3 DEF Confirm, MarkUncertain, OwnPending
  <1>3. CASE \A s \in Proc : ~Claim(s) /\ ~Confirm(s) /\ ~MarkUncertain(s)
    BY <1>3 DEF Next, Step, Approve, Execute, Begin, PreflightInbox, PreflightThread,
       Record, Send, SendReturns, ReadArchive, ReadInbox,
       Crash, SetClock, Land, Arrive, Move, vars
  <1>4. QED
    BY <1>1, <1>2, <1>3

\* Approvals and resolved receipts are never rewritten.
THEOREM JournalFinalHolds == Spec => JournalFinal
  <1>1. ASSUME IInv, [Next]_vars
        PROVE  /\ \A p \in Proposal : approvals[p] # Never => approvals'[p] = approvals[p]
               /\ \A k \in Key : receipts[k].status # "none" =>
                    /\ receipts'[k].status # "none"
                    /\ receipts'[k].proposal = receipts[k].proposal
                    /\ receipts[k].status # "pending" => receipts'[k] = receipts[k]
    <2>1. \A p \in Proposal : approvals[p] # Never => approvals'[p] = approvals[p]
      BY <1>1 DEF IInv, TypeOK, Next, Step, Approve, Execute, Begin, PreflightInbox,
         PreflightThread, Record, Claim, Send, SendReturns, ReadArchive, ReadInbox,
         Confirm, MarkUncertain, Crash, SetClock, Land, Arrive, Move, vars
    <2>2. ASSUME NEW k \in Key, receipts[k].status # "none"
          PROVE  /\ receipts'[k].status # "none"
                 /\ receipts'[k].proposal = receipts[k].proposal
                 /\ receipts[k].status # "pending" => receipts'[k] = receipts[k]
      <3>1. receipts \in [Key -> Row \cup {NoRow}] /\ receipts[k] \in Row
        BY <1>1, <2>2 DEF IInv, TypeOK, NoRow
      <3>2. CASE UNCHANGED receipts
        BY <2>2, <3>2
      <3>3. ASSUME NEW j \in Key, NEW p \in Proposal, NEW t \in Time,
                   receipts[j].status = "none",
                   receipts' = [receipts EXCEPT ![j] =
                                  [status |-> "pending", proposal |-> p, at |-> t]]
            PROVE  receipts'[k] = receipts[k]
        BY <2>2, <3>1, <3>3
      <3>4. ASSUME NEW j \in Key, NEW f \in {"confirmed", "uncertain"},
                   receipts[j].status = "pending",
                   receipts' = [receipts EXCEPT ![j].status = f]
            PROVE  /\ receipts'[k].status # "none"
                   /\ receipts'[k].proposal = receipts[k].proposal
                   /\ receipts[k].status # "pending" => receipts'[k] = receipts[k]
        BY <2>2, <3>1, <3>4 DEF Row
      <3>5. QED
        BY <1>1, <2>2, <3>2, <3>3, <3>4, ReceiptWrites
    <2>3. QED
      BY <2>1, <2>2
  <1>2. QED
    BY IInvHolds, <1>1, PTL DEF Spec, JournalFinal

-----------------------------------------------------------------------------
(* Refinement: the journal is one lock per message id.                      *)

\* A claim is an Acquire, a command a Send, a confirmation a Release; every
\* other step of the server, the mailbox and the clock stutters.
THEOREM ImplementsLock == Spec => LockSpec
  <1> DEFINE holder == [m \in Message |-> {k \in Key : Holds(k, m) /\ Unresolved(k)}]
             used == {k \in Key : receipts[k].status # "none"}
  <1>1. Init => Lock!Init
    BY DEF Init, Lock!Init, Holds, Unresolved, NoRow
  <1>2. ASSUME IInv, IInv', [Next]_vars
        PROVE  [Lock!Next]_(Lock!vars)
    <2>1. receipts \in [Key -> Row \cup {NoRow}] /\ issued \in [Key -> Nat]
      BY <1>2 DEF IInv, TypeOK
    <2>2. \A m \in Message, k \in Key :
            k \in holder[m] <=> receipts[k] \in Row /\ TargetOf[receipts[k].proposal] = m
                                /\ receipts[k].status \in {"pending", "uncertain"}
      BY <2>1 DEF Holds, Unresolved, Row, NoRow
    <2>3. ASSUME NEW m \in Message, NEW k \in Key, k \in holder[m]
          PROVE  holder[m] = {k}
      BY <1>2, <2>3 DEF IInv, OneUnresolved
    <2>4. ASSUME NEW k \in Key, issued'[k] # issued[k]
          PROVE  Lock!Next
      <3>1. PICK s \in Proc : Send(s) /\ job[s].key = k /\ pc[s] = "send"
        BY <1>2, <2>4, IssuedBySend
      <3>2. receipts' = receipts /\ issued' = [issued EXCEPT ![k] = @ + 1]
        BY <1>2, <2>4, <3>1 DEF Send
      <3>3. receipts[k].status = "pending" /\ issued[k] = 0
        BY <1>2, <3>1 DEF IInv, Owned, OwnPending, Progress, Attempting
      <3>4. PICK m \in Message : k \in holder[m]
        BY <2>1, <2>2, <3>3 DEF Row, NoRow
      <3>5. Lock!Send(m, k)
        BY <2>1, <2>3, <3>2, <3>3, <3>4 DEF Lock!Send, Holds, Unresolved
      <3>6. QED
        BY <3>5 DEF Lock!Next
    <2>5. CASE issued' = issued
      <3>1. CASE UNCHANGED receipts
        BY <2>5, <3>1 DEF Lock!vars, Holds, Unresolved
      <3>2. ASSUME NEW k \in Key, NEW p \in Proposal, NEW t \in Time,
                   receipts[k].status = "none", Claimable(k, p),
                   receipts' = [receipts EXCEPT ![k] =
                                  [status |-> "pending", proposal |-> p, at |-> t]]
            PROVE  Lock!Next
        <4> DEFINE m == TargetOf[p]
        <4>1. m \in Message
          OBVIOUS
        <4>2. holder[m] = {} /\ k \notin used
          BY <3>2, <4>1 DEF Claimable
        <4>3. receipts'[k] = [status |-> "pending", proposal |-> p, at |-> t]
          BY <2>1, <3>2
        <4>4. \A j \in Key : j # k => receipts'[j] = receipts[j]
          BY <2>1, <3>2
        <4>5. holder' = [holder EXCEPT ![m] = {k}]
          <5>1. ASSUME NEW n \in Message
                PROVE  holder'[n] = IF n = m THEN {k} ELSE holder[n]
            <6>1. \A j \in Key : j # k => (j \in holder'[n] <=> j \in holder[n])
              BY <4>4 DEF Holds, Unresolved
            <6>2. k \in holder'[n] <=> n = m
              BY <4>3 DEF Holds, Unresolved
            <6>3. k \notin holder[n]
              BY <3>2 DEF Unresolved
            <6>4. holder'[n] \subseteq Key /\ holder[n] \subseteq Key
              OBVIOUS
            <6>5. holder'[n] = IF n = m THEN holder[n] \cup {k} ELSE holder[n]
              <7> HIDE DEF holder
              <7>1. QED
                BY <6>1, <6>2, <6>3, <6>4
            <6>6. QED
              BY <4>2, <6>5
          <5>2. QED
            BY <4>1, <5>1
        <4>6. used' = used \cup {k}
          BY <4>3, <4>4
        <4>7. Lock!Acquire(m, k)
          BY <2>5, <4>2, <4>5, <4>6 DEF Lock!Acquire
        <4>8. QED
          BY <4>1, <4>7 DEF Lock!Next
      <3>3. ASSUME NEW k \in Key, NEW f \in {"confirmed", "uncertain"},
                   receipts[k].status = "pending",
                   f = "confirmed" => issued[k] = 1,
                   receipts' = [receipts EXCEPT ![k].status = f]
            PROVE  [Lock!Next]_(Lock!vars)
        <4>1. receipts[k] \in Row /\ receipts'[k] = [receipts[k] EXCEPT !.status = f]
          BY <2>1, <3>3 DEF NoRow
        <4>2. /\ receipts'[k].status = f
              /\ receipts'[k].proposal = receipts[k].proposal
              /\ receipts[k].proposal \in Proposal
          BY <4>1 DEF Row
        <4>3. \A j \in Key : j # k => receipts'[j] = receipts[j]
          BY <2>1, <3>3
        <4>4. used' = used
          BY <3>3, <4>2, <4>3
        <4> DEFINE m == TargetOf[receipts[k].proposal]
        <4>5. m \in Message /\ k \in holder[m] /\ holder[m] = {k}
          BY <2>3, <3>3, <4>2 DEF Holds, Unresolved
        <4>6. CASE f = "uncertain"
          <5>1. holder' = holder
            BY <3>3, <4>2, <4>3, <4>6 DEF Holds, Unresolved
          <5>2. QED
            BY <2>5, <4>4, <5>1 DEF Lock!vars
        <4>7. CASE f = "confirmed"
          <5>1. ASSUME NEW n \in Message
                PROVE  holder'[n] = IF n = m THEN {} ELSE holder[n]
            BY <4>2, <4>3, <4>5, <4>7, <3>3 DEF Holds, Unresolved
          <5>2. holder' = [holder EXCEPT ![m] = {}]
            BY <4>5, <5>1
          <5>3. Lock!Release(m, k)
            BY <2>5, <3>3, <4>4, <4>5, <4>7, <5>2 DEF Lock!Release
          <5>4. QED
            BY <4>5, <5>3 DEF Lock!Next
        <4>8. QED
          BY <4>6, <4>7
      <3>4. QED
        BY <1>2, <3>1, <3>2, <3>3, ReceiptWrites
    <2>6. QED
      BY <1>2, <2>1, <2>4, <2>5 DEF IInv, TypeOK
  <1>3. QED
    BY IInvHolds, <1>1, <1>2, PTL DEF Spec, LockSpec, Lock!Spec
=============================================================================
