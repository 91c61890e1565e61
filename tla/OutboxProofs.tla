---------------------------- MODULE OutboxProofs ----------------------------
(***************************************************************************)
(* Proofs about Outbox, for any messages, jobs, replay requests and limits. *)
(* The invariant ties every counter, in the table and in what a job has     *)
(* read, to the deliveries that were made, and every mark "sent" that       *)
(* somebody is about to write to a message the provider took.               *)
(***************************************************************************)
EXTENDS Outbox, TLAPS

LEMMA ConstantTypes ==
  /\ MaxAttempts \in Nat \ {0} /\ MaxRetries \in Nat \ {0}
  /\ MaxReplays \in Nat /\ MaxFaults \in Nat
  /\ Direct \subseteq Messages /\ NoMessage \notin Messages
BY OutboxAssumption

LEMMA NoRowType == NoRow \in OutboxRow /\ NoRow \in FailureRow /\ NoRow.attempts = 0
BY DEF NoRow, OutboxRow, FailureRow

LEMMA NoJobType ==
  /\ NoJob \in JobRecord
  /\ \A m \in Messages : NoJob.outcome[m] = "none" /\ NoJob.seen[m].attempts = 0
BY NoRowType DEF NoJob, JobRecord

LEMMA NoAdminType == NoAdmin \in AdminRecord
BY NoRowType DEF NoAdmin, AdminRecord

LEMMA InitInv == Init => Inv
<1> SUFFICES ASSUME Init PROVE Inv
  OBVIOUS
<1>1. TypeOK
  BY NoRowType, NoJobType, NoAdminType, ConstantTypes DEF Init, TypeOK
<1>2. OutcomeInv /\ AttemptsInv /\ SentWasAccepted /\ DeadWasTried
  BY NoRowType, NoJobType, ConstantTypes
  DEF Init, OutcomeInv, AttemptsInv, SentWasAccepted, DeadWasTried, NoRow
<1> QED
  BY <1>1, <1>2 DEF Inv

-----------------------------------------------------------------------------
(* Steps outside the jobs.                                                  *)

\* One outbox row is written by somebody who counts no delivery.
LEMMA RowStep ==
  ASSUME Inv, TypeOK', NEW m \in Messages, NEW r \in OutboxRow,
         row' = [row EXCEPT ![m] = r],
         r.attempts = 0 \/ r.attempts = row[m].attempts,
         r.status = "sent" => accepted[m] > 0 \/ row[m].status = "sent",
         r.status # "dead" \/ row[m].status = "dead",
         \A x \in Messages : sender'[x] = "accepted" => sender[x] = "accepted",
         UNCHANGED <<failure, job, accepted, tried>>
  PROVE  Inv'
<1>1. \A x \in Messages : row'[x] = IF x = m THEN r ELSE row[x]
  BY DEF Inv, TypeOK
<1>2. OutcomeInv'
  BY DEF Inv, OutcomeInv
<1>3. AttemptsInv'
  BY <1>1, ConstantTypes DEF Inv, TypeOK, AttemptsInv, OnFailures
<1>4. SentWasAccepted' /\ DeadWasTried'
  BY <1>1 DEF Inv, SentWasAccepted, DeadWasTried
<1> QED
  BY <1>2, <1>3, <1>4 DEF Inv

LEMMA EnqueueInv ==
  ASSUME Inv, NEW m \in Messages, Enqueue(m)
  PROVE  Inv'
<1> DEFINE r == [status |-> "pending", attempts |-> 0, next |-> "now"]
<1>1. r \in OutboxRow
  BY DEF OutboxRow
<1>2. row' = [row EXCEPT ![m] = r]
  BY DEF Enqueue
<1>3. TypeOK'
  BY <1>1, <1>2 DEF Enqueue, Inv, TypeOK
<1>4. \A x \in Messages : sender'[x] = "accepted" => sender[x] = "accepted"
  BY DEF Enqueue, Inv, TypeOK
<1>5. UNCHANGED <<failure, job, accepted, tried>>
  BY DEF Enqueue
<1> QED
  BY <1>1, <1>2, <1>3, <1>4, <1>5, RowStep

LEMMA SenderMarksSentInv ==
  ASSUME Inv, NEW m \in Messages, SenderMarksSent(m)
  PROVE  Inv'
<1> DEFINE r == [row[m] EXCEPT !.status = "sent", !.next = "none"]
<1>1. r \in OutboxRow /\ r.status = "sent" /\ r.attempts = row[m].attempts
  BY DEF Inv, TypeOK, OutboxRow
<1>2. row' = [row EXCEPT ![m] = r]
  BY DEF SenderMarksSent
<1> HIDE DEF r
<1>3. TypeOK'
  BY <1>1, <1>2 DEF SenderMarksSent, Inv, TypeOK
<1>4. /\ \A x \in Messages : sender'[x] = "accepted" => sender[x] = "accepted"
      /\ accepted[m] > 0
  BY DEF SenderMarksSent, Inv, TypeOK, OutcomeInv
<1>5. UNCHANGED <<failure, job, accepted, tried>>
  BY DEF SenderMarksSent
<1> QED
  BY <1>1, <1>2, <1>3, <1>4, <1>5, RowStep

\* The columns that WrittenOver mixes come from the row and from the writer.
LEMMA WrittenOverType ==
  ASSUME NEW old \in OutboxRow, NEW seen \in OutboxRow, NEW new \in OutboxRow
  PROVE  /\ WrittenOver(old, seen, new) \in OutboxRow
         /\ WrittenOver(old, seen, new).status \in {old.status, new.status}
         /\ WrittenOver(old, seen, new).attempts \in {old.attempts, new.attempts}
BY DEF WrittenOver, OutboxRow

LEMMA ReplayWriteInv ==
  ASSUME Inv, NEW a \in Admins, ReplayWrite(a)
  PROVE  Inv'
<1> DEFINE m == admin[a].msg
           r == WrittenOver(row[m], admin[a].seen, Reset)
<1>1. admin[a] \in AdminRecord /\ Reset \in OutboxRow
  BY DEF Inv, TypeOK, Reset, OutboxRow
<1>2. CASE m \in Messages
  <2>1. row[m] \in OutboxRow /\ admin[a].seen \in OutboxRow
    BY <1>1, <1>2 DEF Inv, TypeOK, AdminRecord
  <2>2. /\ r \in OutboxRow
        /\ r.status \in {row[m].status, "pending"}
        /\ r.attempts \in {row[m].attempts, 0}
    BY <1>1, <2>1, WrittenOverType DEF Reset
  <2>3. row' = [row EXCEPT ![m] = r]
    BY DEF ReplayWrite
  <2> HIDE DEF r
  <2>4. TypeOK'
    BY <2>2, <2>3, <1>2, NoAdminType DEF ReplayWrite, Inv, TypeOK
  <2>5. UNCHANGED <<failure, sender, job, accepted, tried>>
    BY DEF ReplayWrite
  <2> QED
    BY <1>2, <2>2, <2>3, <2>4, <2>5, RowStep
<1>3. CASE m \notin Messages
  <2>1. row' = row
    BY <1>3 DEF ReplayWrite, Inv, TypeOK
  <2>2. TypeOK'
    BY <2>1, NoAdminType DEF ReplayWrite, Inv, TypeOK
  <2>3. UNCHANGED <<row, failure, sender, job, accepted, tried>>
    BY <2>1 DEF ReplayWrite
  <2> QED
    BY <2>2, <2>3
    DEF Inv, OutcomeInv, AttemptsInv, OnFailures, SentWasAccepted, DeadWasTried
<1> QED
  BY <1>2, <1>3

LEMMA RowComesDueInv ==
  ASSUME Inv, NEW m \in Messages, RowComesDue(m)
  PROVE  Inv'
<1> DEFINE r == [row[m] EXCEPT !.next = "now"]
<1>1. r \in OutboxRow /\ r.status = row[m].status /\ r.attempts = row[m].attempts
  BY DEF Inv, TypeOK, OutboxRow
<1>2. row' = [row EXCEPT ![m] = r]
  BY DEF RowComesDue
<1> HIDE DEF r
<1>3. TypeOK'
  BY <1>1, <1>2 DEF RowComesDue, Inv, TypeOK
<1>4. UNCHANGED <<failure, sender, job, accepted, tried>>
  BY DEF RowComesDue
<1> QED
  BY <1>1, <1>2, <1>3, <1>4, RowStep

\* Steps of a request, of a replay's read and of the email_failures backoff.
LEMMA SenderDeliversInv ==
  ASSUME Inv, NEW m \in Messages, SenderDelivers(m)
  PROVE  Inv'
<1>1. TypeOK'
  BY DEF SenderDelivers, Inv, TypeOK
<1>2. /\ \A x \in Messages : accepted'[x] >= accepted[x]
      /\ sender'[m] = "accepted" => accepted'[m] > 0
      /\ \A x \in Messages \ {m} : sender'[x] = sender[x]
      /\ UNCHANGED <<row, failure, job, tried>>
  BY DEF SenderDelivers, Inv, TypeOK
<1>3. OutcomeInv' /\ SentWasAccepted'
  BY <1>1, <1>2 DEF Inv, TypeOK, OutcomeInv, SentWasAccepted
<1>4. AttemptsInv' /\ DeadWasTried'
  BY <1>2 DEF Inv, AttemptsInv, OnFailures, DeadWasTried
<1> QED
  BY <1>1, <1>3, <1>4 DEF Inv

\* An email_failures row becomes, or stays, something else than sent.
LEMMA FailureStep ==
  ASSUME Inv, NEW m \in Messages, NEW r \in FailureRow,
         failure' = [failure EXCEPT ![m] = r],
         r.status = "sent" => failure[m].status = "sent",
         sender' = [sender EXCEPT ![m] = "idle"] \/ sender' = sender,
         UNCHANGED <<row, job, admin, accepted, tried, replays, faults>>
  PROVE  Inv'
<1>1. TypeOK'
  BY DEF Inv, TypeOK
<1>2. /\ \A x \in Messages : failure'[x] = IF x = m THEN r ELSE failure[x]
      /\ \A x \in Messages : sender'[x] = "accepted" => sender[x] = "accepted"
  BY DEF Inv, TypeOK
<1> QED
  BY <1>1, <1>2
  DEF Inv, OutcomeInv, AttemptsInv, OnFailures, SentWasAccepted, DeadWasTried

LEMMA SenderRecordsFailureInv ==
  ASSUME Inv, NEW m \in Messages, SenderRecordsFailure(m)
  PROVE  Inv'
<1>1. PICK r \in {[status |-> "dead", attempts |-> 1, next |-> "none"],
                  [status |-> "pending", attempts |-> 1, next |-> "later"]} :
        failure' = [failure EXCEPT ![m] = r]
  BY DEF SenderRecordsFailure
<1>2. r \in FailureRow /\ r.status # "sent"
  BY DEF FailureRow
<1> QED
  BY <1>1, <1>2, FailureStep DEF SenderRecordsFailure

LEMMA FailureComesDueInv ==
  ASSUME Inv, NEW m \in Messages, FailureComesDue(m)
  PROVE  Inv'
<1> DEFINE r == [failure[m] EXCEPT !.next = "now"]
<1>1. r \in FailureRow /\ r.status = failure[m].status
  BY DEF Inv, TypeOK, FailureRow
<1>2. failure' = [failure EXCEPT ![m] = r]
  BY DEF FailureComesDue
<1> HIDE DEF r
<1> QED
  BY <1>1, <1>2, FailureStep DEF FailureComesDue

LEMMA SenderDiesInv ==
  ASSUME Inv, NEW m \in Messages, SenderDies(m)
  PROVE  Inv'
<1>1. TypeOK'
  BY ConstantTypes DEF SenderDies, Inv, TypeOK
<1>2. \A x \in Messages : sender'[x] = "accepted" => sender[x] = "accepted"
  BY DEF SenderDies, Inv, TypeOK
<1> QED
  BY <1>1, <1>2
  DEF SenderDies, Inv, OutcomeInv, AttemptsInv, OnFailures, SentWasAccepted, DeadWasTried

LEMMA ReplayReadInv ==
  ASSUME Inv, NEW a \in Admins, NEW m \in Messages, ReplayRead(a, m)
  PROVE  Inv'
<1> DEFINE q == [msg |-> m, seen |-> row[m]]
<1>1. q \in AdminRecord
  BY DEF Inv, TypeOK, AdminRecord
<1>2. admin' = [admin EXCEPT ![a] = q]
  BY DEF ReplayRead
<1> HIDE DEF q
<1>3. TypeOK'
  BY <1>1, <1>2, ConstantTypes DEF ReplayRead, Inv, TypeOK
<1> QED
  BY <1>3
  DEF ReplayRead, Inv, OutcomeInv, AttemptsInv, OnFailures, SentWasAccepted, DeadWasTried

-----------------------------------------------------------------------------
(* The jobs.                                                                *)

\* One job run changes, and no table.
LEMMA JobStep ==
  ASSUME Inv, NEW j \in Jobs, NEW r \in JobRecord,
         job' = [job EXCEPT ![j] = r],
         \A x \in Messages :
           /\ r.outcome[x] = "sent" => accepted[x] > 0
           /\ OnFailures(j) \/ tried[x] = MaxAttempts \/
                /\ r.seen[x].attempts <= tried[x]
                /\ r.outcome[x] # "none" => r.seen[x].attempts + 1 <= tried[x],
         faults' = faults \/ (faults < MaxFaults /\ faults' = faults + 1),
         UNCHANGED <<row, failure, sender, admin, accepted, tried, replays>>
  PROVE  Inv'
<1>1. TypeOK'
  BY ConstantTypes DEF Inv, TypeOK
<1>2. \A k \in Jobs : job'[k] = IF k = j THEN r ELSE job[k]
  BY DEF Inv, TypeOK
<1>3. OutcomeInv'
  BY <1>2 DEF Inv, OutcomeInv
<1>4. AttemptsInv'
  BY <1>2 DEF Inv, AttemptsInv, OnFailures
<1> QED
  BY <1>1, <1>3, <1>4 DEF Inv, SentWasAccepted, DeadWasTried

\* The SELECT: what a job reads is counted already.
LEMMA BeginInv ==
  ASSUME Inv, NEW j \in Jobs, Begin(j)
  PROVE  Inv'
<1> DEFINE kind == KindOf[j]
           table == IF kind = "failures" THEN failure ELSE row
           batch == Batch(kind)
           read == [m \in Messages |-> IF m \in batch THEN table[m] ELSE NoRow]
           r == [job[j] EXCEPT !.todo = batch, !.seen = read]
<1>1. job[j] = NoJob /\ job' = [job EXCEPT ![j] = r]
  BY DEF Begin
<1>2. batch \subseteq Messages
  <2>1. kind \in Kinds
    BY OutboxAssumption
  <2>2. Due(kind) \subseteq Messages
    BY <2>1 DEF Due, Kinds
  <2> QED
    BY <2>2 DEF Batch
<1>3. \A m \in Messages : table[m] \in OutboxRow
  BY DEF Inv, TypeOK, OutboxRow, FailureRow
<1>4. read \in [Messages -> OutboxRow]
  BY <1>3, NoRowType
<1>5. /\ r \in JobRecord /\ r.seen = read /\ r.outcome = NoJob.outcome
  <2> HIDE DEF batch, read
  <2> QED
    BY <1>1, <1>2, <1>4, NoJobType DEF JobRecord
<1>6. ASSUME NEW x \in Messages
      PROVE  /\ r.outcome[x] = "none"
             /\ OnFailures(j) \/ tried[x] = MaxAttempts \/ read[x].attempts <= tried[x]
  <2>1. tried[x] \in Nat
    BY ConstantTypes DEF Inv, TypeOK
  <2>2. read[x] \in {NoRow, table[x]}
    OBVIOUS
  <2>3. OnFailures(j) \/ table = row
    BY DEF OnFailures
  <2> QED
    BY <1>5, <2>1, <2>2, <2>3, NoJobType, NoRowType DEF Inv, AttemptsInv
<1>7. UNCHANGED <<row, failure, sender, admin, accepted, tried, replays, faults>>
  BY DEF Begin
<1> HIDE DEF r, read
<1> QED
  BY <1>1, <1>5, <1>6, <1>7, JobStep

\* A delivery: it is counted, and an accepted message is remembered.
LEMMA DeliverInv ==
  ASSUME Inv, NEW j \in Jobs, Deliver(j)
  PROVE  Inv'
<1> DEFINE m == Oldest(job[j].todo)
<1>1. PICK out \in {"sent", "failed"} :
        /\ job' = [job EXCEPT ![j] = [job[j] EXCEPT !.outcome = [job[j].outcome EXCEPT ![m] = out]]]
        /\ out = "sent" => accepted' = [accepted EXCEPT ![m] = @ + 1]
        /\ out = "failed" => accepted' = accepted
  BY DEF Deliver
<1>2. /\ tried' = [tried EXCEPT ![m] = IF OnFailures(j) \/ @ = MaxAttempts THEN @ ELSE @ + 1]
      /\ UNCHANGED <<row, failure, sender, admin, replays, faults>>
      /\ job[j].outcome[m] = "none"
  BY DEF Deliver
<1> HIDE DEF m
<1>3. job[j] \in JobRecord
  BY DEF Inv, TypeOK
<1>4. /\ \A k \in Jobs \ {j} : job'[k] = job[k]
      /\ job'[j] = [job[j] EXCEPT !.outcome = [job[j].outcome EXCEPT ![m] = out]]
  BY <1>1 DEF Inv, TypeOK
<1>5. /\ job'[j] \in JobRecord /\ job'[j].seen = job[j].seen
      /\ \A x \in Messages : job'[j].outcome[x] = IF x = m THEN out ELSE job[j].outcome[x]
  BY <1>3, <1>4 DEF JobRecord
<1>6. /\ accepted' \in [Messages -> Nat]
      /\ \A x \in Messages :
           /\ accepted'[x] >= accepted[x]
           /\ x = m /\ out = "sent" => accepted'[x] > 0
  BY <1>1 DEF Inv, TypeOK
<1>7. /\ tried' \in [Messages -> 0..MaxAttempts]
      /\ \A x \in Messages :
           /\ tried[x] = MaxAttempts => tried'[x] = MaxAttempts
           /\ tried'[x] >= tried[x]
           /\ x = m /\ ~OnFailures(j) /\ tried[x] # MaxAttempts => tried'[x] = tried[x] + 1
  <2> DEFINE t == IF OnFailures(j) \/ tried[m] = MaxAttempts THEN tried[m] ELSE tried[m] + 1
  <2>1. tried' = [tried EXCEPT ![m] = t]
    BY <1>2
  <2>2. \A x \in Messages : tried[x] \in 0..MaxAttempts
    BY DEF Inv, TypeOK
  <2>3. m \in Messages => /\ t \in 0..MaxAttempts /\ t >= tried[m]
                          /\ tried[m] = MaxAttempts => t = MaxAttempts
                          /\ ~OnFailures(j) /\ tried[m] # MaxAttempts => t = tried[m] + 1
    BY <2>2, ConstantTypes
  <2> HIDE DEF t
  <2>4. \A x \in Messages : tried'[x] = IF x = m THEN t ELSE tried[x]
    BY <2>1 DEF Inv, TypeOK
  <2>5. tried' \in [Messages -> 0..MaxAttempts]
    BY <2>1, <2>3 DEF Inv, TypeOK
  <2> QED
    BY <2>2, <2>3, <2>4, <2>5, ConstantTypes
<1>8. TypeOK'
  <2>1. job' \in [Jobs -> JobRecord]
    BY <1>1, <1>4, <1>5 DEF Inv, TypeOK
  <2> QED
    BY <1>2, <1>6, <1>7, <2>1 DEF Inv, TypeOK
<1>9. OutcomeInv'
  <2> SUFFICES ASSUME NEW x \in Messages
               PROVE  /\ sender'[x] = "accepted" => accepted'[x] > 0
                      /\ \A k \in Jobs : job'[k].outcome[x] = "sent" => accepted'[x] > 0
    BY DEF OutcomeInv
  <2>1. accepted[x] \in Nat /\ accepted'[x] \in Nat /\ accepted'[x] >= accepted[x]
    BY <1>6 DEF Inv, TypeOK
  <2>2. sender'[x] = "accepted" => accepted'[x] > 0
    BY <1>2, <2>1 DEF Inv, OutcomeInv
  <2>3. ASSUME NEW k \in Jobs, job'[k].outcome[x] = "sent"
        PROVE  accepted'[x] > 0
    <3>1. CASE k = j /\ x = m
      BY <3>1, <2>3, <1>5, <1>6
    <3>2. CASE ~(k = j /\ x = m)
      <4>1. job'[k].outcome[x] = job[k].outcome[x]
        BY <3>2, <1>4, <1>5
      <4>2. accepted[x] > 0
        BY <4>1, <2>3 DEF Inv, OutcomeInv
      <4> QED
        BY <4>2, <2>1
    <3> QED
      BY <3>1, <3>2
  <2> QED
    BY <2>2, <2>3
<1>10. AttemptsInv'
  <2> SUFFICES ASSUME NEW x \in Messages, tried'[x] # MaxAttempts
               PROVE  /\ row'[x].attempts <= tried'[x]
                      /\ \A k \in Jobs : ~OnFailures(k) =>
                           /\ job'[k].seen[x].attempts <= tried'[x]
                           /\ job'[k].outcome[x] # "none" =>
                                job'[k].seen[x].attempts + 1 <= tried'[x]
    BY DEF AttemptsInv, OnFailures
  <2>1. /\ tried[x] \in Nat /\ tried'[x] \in Nat /\ tried'[x] >= tried[x]
        /\ tried[x] # MaxAttempts
    BY <1>7, ConstantTypes DEF Inv, TypeOK
  <2>2. row[x].attempts \in Nat /\ row[x].attempts <= tried[x]
    BY <2>1 DEF Inv, TypeOK, OutboxRow, AttemptsInv
  <2>3. ASSUME NEW k \in Jobs, ~OnFailures(k)
        PROVE  /\ job'[k].seen[x].attempts <= tried'[x]
               /\ job'[k].outcome[x] # "none" => job'[k].seen[x].attempts + 1 <= tried'[x]
    <3>1. /\ job[k].seen[x].attempts \in Nat /\ job'[k].seen = job[k].seen
          /\ job[k].seen[x].attempts <= tried[x]
          /\ job[k].outcome[x] # "none" => job[k].seen[x].attempts + 1 <= tried[x]
      <4>1. job'[k].seen = job[k].seen
        BY <1>4, <1>5
      <4>2. job[k].seen[x].attempts \in Nat
        BY DEF Inv, TypeOK, JobRecord, OutboxRow
      <4> QED
        BY <4>1, <4>2, <2>1, <2>3 DEF Inv, AttemptsInv
    <3>2. CASE k = j /\ x = m
      BY <3>1, <3>2, <2>1, <2>3, <1>7
    <3>3. CASE ~(k = j /\ x = m)
      <4>1. job'[k].outcome[x] = job[k].outcome[x]
        BY <3>3, <1>4, <1>5
      <4> QED
        BY <4>1, <3>1, <2>1
    <3> QED
      BY <3>2, <3>3
  <2> QED
    BY <2>1, <2>2, <2>3, <1>2
<1>11. SentWasAccepted'
  <2>1. \A x \in Messages : accepted[x] \in Nat /\ accepted'[x] \in Nat
    BY <1>6 DEF Inv, TypeOK
  <2>2. \A x \in Messages : accepted[x] > 0 => accepted'[x] > 0
    BY <2>1, <1>6
  <2> QED
    BY <1>2, <2>2 DEF Inv, SentWasAccepted
<1>12. DeadWasTried'
  BY <1>2, <1>7 DEF Inv, DeadWasTried
<1> QED
  BY <1>8, <1>9, <1>10, <1>11, <1>12 DEF Inv

\* The UPDATE takes the row from the batch.
LEMMA FlushInv ==
  ASSUME Inv, NEW j \in Jobs, Flush(j)
  PROVE  Inv'
<1> DEFINE left == job[j].todo \ {Oldest(job[j].todo)}
           n == IF KindOf[j] # "replay" \/ job[j].outcome[Oldest(job[j].todo)] = "sent"
                THEN 0 ELSE job[j].streak + 1
           r == [job[j] EXCEPT !.todo = left, !.streak = n]
<1>1. job' = [job EXCEPT ![j] = r]
  BY DEF Flush
<1>2. job[j] \in JobRecord
  BY DEF Inv, TypeOK
<1>3. left \subseteq Messages /\ n \in Nat
  BY <1>2 DEF JobRecord
<1> HIDE DEF left, n
<1>4. r \in JobRecord /\ r.seen = job[j].seen /\ r.outcome = job[j].outcome
  BY <1>2, <1>3 DEF JobRecord
<1> HIDE DEF r
<1>5. UNCHANGED <<row, failure, sender, admin, accepted, tried, replays, faults>>
  BY DEF Flush
<1>6. \A x \in Messages :
        /\ r.outcome[x] = "sent" => accepted[x] > 0
        /\ OnFailures(j) \/ tried[x] = MaxAttempts \/
             /\ r.seen[x].attempts <= tried[x]
             /\ r.outcome[x] # "none" => r.seen[x].attempts + 1 <= tried[x]
  BY <1>4 DEF Inv, OutcomeInv, AttemptsInv
<1> QED
  BY <1>1, <1>4, <1>5, <1>6, JobStep

\* Nothing of the batch is written.
LEMMA JobDiesInv ==
  ASSUME Inv, NEW j \in Jobs, JobDies(j)
  PROVE  Inv'
<1>1. \A x \in Messages : tried[x] \in Nat /\ tried[x] >= 0
  BY ConstantTypes DEF Inv, TypeOK
<1> QED
  BY <1>1, NoJobType, JobStep DEF JobDies

\* What a job is about to assign to a row, whatever the row has become.
LEMMA WhatIsWritten ==
  ASSUME Inv, NEW j \in Jobs, ~OnFailures(j), NEW m \in Messages,
         job[j].outcome[m] # "none",
         NEW r, r = WrittenOver(row[m], job[j].seen[m],
                      Delivered(job[j].seen[m].attempts + 1, job[j].outcome[m]))
  PROVE  /\ r \in OutboxRow
         /\ tried[m] = MaxAttempts \/ r.attempts <= tried[m]
         /\ r.status = "sent" => accepted[m] > 0
         /\ r.status = "dead" => tried[m] = MaxAttempts
<1> DEFINE seen == job[j].seen[m]
           out == job[j].outcome[m]
           new == Delivered(seen.attempts + 1, out)
<1>1. /\ row[m] \in OutboxRow /\ seen \in OutboxRow /\ out \in {"sent", "failed"}
      /\ tried[m] \in 0..MaxAttempts
  BY DEF Inv, TypeOK, JobRecord
<1>2. /\ new \in OutboxRow /\ new.attempts = seen.attempts + 1
      /\ new.status = "sent" => out = "sent"
      /\ new.status = "dead" => seen.attempts + 1 >= MaxAttempts
  BY <1>1 DEF Delivered, OutboxRow
<1>3. /\ out = "sent" => accepted[m] > 0
      /\ tried[m] = MaxAttempts \/
           (row[m].attempts <= tried[m] /\ seen.attempts + 1 <= tried[m])
      /\ row[m].status = "sent" => accepted[m] > 0
      /\ row[m].status = "dead" => tried[m] = MaxAttempts
  BY <1>1 DEF Inv, OutcomeInv, AttemptsInv, SentWasAccepted, DeadWasTried
<1>4. new.status = "dead" => tried[m] = MaxAttempts
  BY <1>1, <1>2, <1>3, ConstantTypes DEF OutboxRow
<1> HIDE DEF new, seen, out
<1>5. r \in OutboxRow /\ r.status \in {row[m].status, new.status}
      /\ r.attempts \in {row[m].attempts, new.attempts}
  BY <1>1, <1>2, WrittenOverType DEF new, seen, out
<1> QED
  BY <1>2, <1>3, <1>4, <1>5

\* The same for email_failures.
LEMMA WhatIsRetried ==
  ASSUME NEW n \in Nat, NEW out \in {"sent", "failed"}
  PROVE  /\ Retried(n + 1, out) \in FailureRow
         /\ Retried(n + 1, out).status = "sent" => out = "sent"
BY DEF Retried, FailureRow

\* The commit of the batch.
LEMMA CommitInv ==
  ASSUME Inv, NEW j \in Jobs, Commit(j)
  PROVE  Inv'
<1>1. /\ job' = [job EXCEPT ![j] = NoJob]
      /\ UNCHANGED <<sender, admin, accepted, tried, replays, faults>>
  BY DEF Commit
<1>2. \A m \in Flushed(j) : m \in Messages /\ job[j].outcome[m] # "none"
  BY DEF Flushed
<1>3. ASSUME NEW m \in Messages
      PROVE  /\ row'[m] \in OutboxRow
             /\ tried[m] = MaxAttempts \/ row'[m].attempts <= tried[m]
             /\ row'[m].status = "sent" => accepted[m] > 0
             /\ row'[m].status = "dead" => tried[m] = MaxAttempts
  <2>1. CASE ~OnFailures(j) /\ m \in Flushed(j)
    <3>1. row'[m] = WrittenOver(row[m], job[j].seen[m],
                      Delivered(job[j].seen[m].attempts + 1, job[j].outcome[m]))
      BY <2>1 DEF Commit
    <3> QED
      BY <2>1, <3>1, <1>2, WhatIsWritten
  <2>2. CASE ~(~OnFailures(j) /\ m \in Flushed(j))
    <3>1. row'[m] = row[m]
      BY <2>2 DEF Commit
    <3> QED
      BY <3>1 DEF Inv, TypeOK, AttemptsInv, SentWasAccepted, DeadWasTried
  <2> QED
    BY <2>1, <2>2
<1>4. ASSUME NEW m \in Messages
      PROVE  /\ failure'[m] \in FailureRow
             /\ failure'[m].status = "sent" => accepted[m] > 0
  <2>1. CASE OnFailures(j) /\ m \in Flushed(j)
    <3>1. failure'[m] = Retried(job[j].seen[m].attempts + 1, job[j].outcome[m])
      BY <2>1 DEF Commit
    <3>2. job[j].seen[m].attempts \in Nat /\ job[j].outcome[m] \in {"sent", "failed"}
      BY <2>1, <1>2 DEF Inv, TypeOK, JobRecord, OutboxRow
    <3> QED
      BY <3>1, <3>2, WhatIsRetried DEF Inv, OutcomeInv
  <2>2. CASE ~(OnFailures(j) /\ m \in Flushed(j))
    <3>1. failure'[m] = failure[m]
      BY <2>2 DEF Commit
    <3> QED
      BY <3>1 DEF Inv, TypeOK, SentWasAccepted
  <2> QED
    BY <2>1, <2>2
<1>5. /\ \E f \in [Messages -> OutboxRow] : row' = f
      /\ \E f \in [Messages -> FailureRow] : failure' = f
  <2>1. /\ row' = [m \in Messages |-> row'[m]]
        /\ failure' = [m \in Messages |-> failure'[m]]
    BY DEF Commit
  <2> QED
    BY <2>1, <1>3, <1>4
<1>6. TypeOK'
  BY <1>1, <1>5, NoJobType DEF Inv, TypeOK
<1>7. \A k \in Jobs : job'[k] = IF k = j THEN NoJob ELSE job[k]
  BY <1>1 DEF Inv, TypeOK
<1>8. OutcomeInv'
  BY <1>1, <1>7, NoJobType DEF Inv, OutcomeInv
<1>9. AttemptsInv'
  <2>1. \A m \in Messages : tried[m] \in Nat /\ tried[m] >= 0
    BY ConstantTypes DEF Inv, TypeOK
  <2> QED
    BY <1>1, <1>3, <1>7, <2>1, NoJobType DEF Inv, AttemptsInv, OnFailures
<1>10. SentWasAccepted' /\ DeadWasTried'
  BY <1>1, <1>3, <1>4 DEF SentWasAccepted, DeadWasTried
<1> QED
  BY <1>6, <1>8, <1>9, <1>10 DEF Inv

-----------------------------------------------------------------------------
(* The theorems.                                                            *)

LEMMA StepInv ==
  ASSUME Inv, [Next]_vars
  PROVE  Inv'
<1>1. ASSUME NEW m \in Messages,
             \/ Enqueue(m) \/ SenderDelivers(m) \/ SenderMarksSent(m)
             \/ SenderRecordsFailure(m) \/ SenderDies(m)
             \/ RowComesDue(m) \/ FailureComesDue(m)
      PROVE  Inv'
  BY <1>1, EnqueueInv, SenderDeliversInv, SenderMarksSentInv, SenderRecordsFailureInv,
     SenderDiesInv, RowComesDueInv, FailureComesDueInv
<1>2. ASSUME NEW j \in Jobs, Begin(j) \/ Deliver(j) \/ Flush(j) \/ Commit(j) \/ JobDies(j)
      PROVE  Inv'
  BY <1>2, BeginInv, DeliverInv, FlushInv, CommitInv, JobDiesInv
<1>3. ASSUME NEW a \in Admins, ReplayWrite(a) \/ \E m \in Messages : ReplayRead(a, m)
      PROVE  Inv'
  BY <1>3, ReplayWriteInv, ReplayReadInv
<1>4. CASE UNCHANGED vars
  BY <1>4
  DEF vars, Inv, TypeOK, OutcomeInv, AttemptsInv, OnFailures, SentWasAccepted, DeadWasTried
<1> QED
  BY <1>1, <1>2, <1>3, <1>4 DEF Next

\* The invariant holds in every behaviour.
THEOREM Invariance == Spec => []Inv
<1>1. Inv /\ [Next]_vars => Inv'
  BY StepInv
<1> QED
  BY InitInv, <1>1, PTL DEF Spec

\* The tables, requests and jobs have their types in every behaviour.
THEOREM TypeCorrect == Spec => []TypeOK
<1>1. Inv => TypeOK
  BY DEF Inv
<1> QED
  BY Invariance, <1>1, PTL

\* "sent" in outbox_events or email_failures means that the provider took the
\* message, whichever request and jobs wrote over each other.
THEOREM SentMeansAccepted == Spec => []SentWasAccepted
<1>1. Inv => SentWasAccepted
  BY DEF Inv
<1> QED
  BY Invariance, <1>1, PTL

\* A message is given up only after outbox_max_attempts deliveries, although jobs
\* count from what they read, lose batches and race with replays.
THEOREM DeadMeansTried == Spec => []DeadWasTried
<1>1. Inv => DeadWasTried
  BY DEF Inv
<1> QED
  BY Invariance, <1>1, PTL

-----------------------------------------------------------------------------
(* Nothing is stranded while the automatic replay is off.                   *)

NoAutoReplay == \A j \in Jobs : KindOf[j] # "replay"

RowsWait == \A m \in Messages : row[m].status \in {"pending", "retry"} => row[m].next # "none"

FailuresWait == \A m \in Messages : failure[m].status = "pending" => failure[m].next # "none"

ReadDue ==
  \A j \in Jobs : ~OnFailures(j) =>
    \A m \in Messages : job[j].seen[m].status \in {"absent", "pending", "retry"}

WaitInv == RowsWait /\ FailuresWait /\ ReadDue

LEMMA InitWait == Init => WaitInv
BY DEF Init, WaitInv, RowsWait, FailuresWait, ReadDue, NoRow, NoJob

\* A write of one table row that leaves it waiting properly, by no job.
LEMMA RowWait ==
  ASSUME Inv, WaitInv, NEW m \in Messages, NEW r,
         row' = [row EXCEPT ![m] = r],
         r.status \in {"pending", "retry"} => r.next # "none",
         UNCHANGED <<failure, job>>
  PROVE  WaitInv'
BY DEF Inv, TypeOK, WaitInv, RowsWait, FailuresWait, ReadDue, OnFailures

\* An update over a row, when either the new row has a time or the writer ends a
\* row that it has not read as ended.
LEMMA OverwrittenWait ==
  ASSUME NEW old \in OutboxRow, NEW seen \in OutboxRow, NEW new \in OutboxRow,
         old.status \in {"pending", "retry"} => old.next # "none",
         \/ new.next # "none"
         \/ seen.status \in {"absent", "pending", "retry"} /\ new.status \in {"sent", "dead"}
  PROVE  LET r == WrittenOver(old, seen, new)
         IN  r.status \in {"pending", "retry"} => r.next # "none"
BY DEF WrittenOver, OutboxRow

LEMMA MessageStepWait ==
  ASSUME Inv, WaitInv, NEW m \in Messages,
         \/ Enqueue(m) \/ SenderDelivers(m) \/ SenderMarksSent(m)
         \/ SenderRecordsFailure(m) \/ SenderDies(m)
         \/ RowComesDue(m) \/ FailureComesDue(m)
  PROVE  WaitInv'
<1>1. row[m] \in OutboxRow /\ failure[m] \in FailureRow
  BY DEF Inv, TypeOK
<1>2. CASE Enqueue(m)
  BY <1>2, RowWait DEF Enqueue
<1>3. CASE SenderMarksSent(m)
  <2>1. row' = [row EXCEPT ![m] = [row[m] EXCEPT !.status = "sent", !.next = "none"]]
    BY <1>3 DEF SenderMarksSent
  <2>2. [row[m] EXCEPT !.status = "sent", !.next = "none"].status = "sent"
    BY <1>1 DEF OutboxRow
  <2> QED
    BY <1>3, <2>1, <2>2, RowWait DEF SenderMarksSent
<1>4. CASE RowComesDue(m)
  <2>1. row' = [row EXCEPT ![m] = [row[m] EXCEPT !.next = "now"]]
    BY <1>4 DEF RowComesDue
  <2>2. [row[m] EXCEPT !.next = "now"].next = "now"
    BY <1>1 DEF OutboxRow
  <2> QED
    BY <1>4, <2>1, <2>2, RowWait DEF RowComesDue
<1>5. CASE SenderDelivers(m) \/ SenderDies(m)
  BY <1>5 DEF SenderDelivers, SenderDies, WaitInv, RowsWait, FailuresWait, ReadDue, OnFailures
<1>6. CASE SenderRecordsFailure(m)
  <2>1. FailuresWait'
    BY <1>6 DEF SenderRecordsFailure, Inv, TypeOK, WaitInv, FailuresWait
  <2> QED
    BY <1>6, <2>1 DEF SenderRecordsFailure, WaitInv, RowsWait, ReadDue, OnFailures
<1>7. CASE FailureComesDue(m)
  <2>1. FailuresWait'
    <3>1. failure' = [failure EXCEPT ![m] = [failure[m] EXCEPT !.next = "now"]]
      BY <1>7 DEF FailureComesDue
    <3>2. [failure[m] EXCEPT !.next = "now"].next = "now"
      BY <1>1 DEF FailureRow
    <3> QED
      BY <3>1, <3>2 DEF Inv, TypeOK, WaitInv, FailuresWait
  <2> QED
    BY <1>7, <2>1 DEF FailureComesDue, WaitInv, RowsWait, ReadDue, OnFailures
<1> QED
  BY <1>2, <1>3, <1>4, <1>5, <1>6, <1>7

LEMMA AdminStepWait ==
  ASSUME Inv, WaitInv, NEW a \in Admins,
         ReplayWrite(a) \/ \E m \in Messages : ReplayRead(a, m)
  PROVE  WaitInv'
<1>1. CASE \E m \in Messages : ReplayRead(a, m)
  BY <1>1 DEF ReplayRead, WaitInv, RowsWait, FailuresWait, ReadDue, OnFailures
<1>2. CASE ReplayWrite(a)
  <2> DEFINE m == admin[a].msg
             r == WrittenOver(row[m], admin[a].seen, Reset)
  <2>1. row' = [row EXCEPT ![m] = r] /\ UNCHANGED <<failure, job>>
    BY <1>2 DEF ReplayWrite
  <2>2. CASE m \in Messages
    <3>1. row[m] \in OutboxRow /\ admin[a].seen \in OutboxRow /\ Reset \in OutboxRow
      BY <2>2 DEF Inv, TypeOK, AdminRecord, Reset, OutboxRow
    <3>2. Reset.next # "none"
      BY DEF Reset
    <3>3. row[m].status \in {"pending", "retry"} => row[m].next # "none"
      BY <2>2 DEF WaitInv, RowsWait
    <3>4. r.status \in {"pending", "retry"} => r.next # "none"
      BY <3>1, <3>2, <3>3, OverwrittenWait
    <3> HIDE DEF r
    <3> QED
      BY <2>1, <2>2, <3>4, RowWait
  <2>3. CASE m \notin Messages
    <3>1. row' = row
      BY <2>1, <2>3 DEF Inv, TypeOK
    <3> QED
      BY <2>1, <3>1 DEF WaitInv, RowsWait, FailuresWait, ReadDue, OnFailures
  <2> QED
    BY <2>2, <2>3
<1> QED
  BY <1>1, <1>2

\* A job goes on, and the tables are as they were.
LEMMA JobOnlyWait ==
  ASSUME Inv, WaitInv, NEW j \in Jobs, NEW r,
         job' = [job EXCEPT ![j] = r],
         ~OnFailures(j) =>
           \A m \in Messages : r.seen[m].status \in {"absent", "pending", "retry"},
         UNCHANGED <<row, failure>>
  PROVE  WaitInv'
<1>1. \A k \in Jobs : job'[k] = IF k = j THEN r ELSE job[k]
  BY DEF Inv, TypeOK
<1>2. ReadDue'
  BY <1>1 DEF WaitInv, ReadDue, OnFailures
<1> QED
  BY <1>2 DEF WaitInv, RowsWait, FailuresWait

\* Without automatic replays a job reads nothing that is sent or dead.
LEMMA BeginWait ==
  ASSUME Inv, WaitInv, NoAutoReplay, NEW j \in Jobs, Begin(j)
  PROVE  WaitInv'
<1> DEFINE batch == Batch(KindOf[j])
           table == IF KindOf[j] = "failures" THEN failure ELSE row
           read == [m \in Messages |-> IF m \in batch THEN table[m] ELSE NoRow]
           r == [job[j] EXCEPT !.todo = batch, !.seen = read]
<1>1. job' = [job EXCEPT ![j] = r] /\ job[j] = NoJob /\ UNCHANGED <<row, failure>>
  BY DEF Begin
<1>2. r.seen = read
  <2> HIDE DEF batch, read
  <2> QED
    BY <1>1 DEF NoJob
<1>3. ASSUME ~OnFailures(j), NEW m \in Messages
      PROVE  read[m].status \in {"absent", "pending", "retry"}
  <2>1. KindOf[j] = "delivery"
    BY <1>3, OutboxAssumption DEF NoAutoReplay, OnFailures, Kinds
  <2>2. CASE m \in batch
    <3>1. row[m].status \in PendingStatuses
      BY <2>1, <2>2 DEF Batch, Due
    <3>2. read[m] = row[m]
      BY <2>1, <2>2
    <3> QED
      BY <3>1, <3>2 DEF PendingStatuses
  <2>3. CASE m \notin batch
    BY <2>3 DEF NoRow
  <2> QED
    BY <2>2, <2>3
<1> HIDE DEF r, read
<1> QED
  BY <1>1, <1>2, <1>3, JobOnlyWait

\* A delivery, a write that is not committed yet, or the end of the process.
LEMMA JobGoesOnWait ==
  ASSUME Inv, WaitInv, NEW j \in Jobs, Deliver(j) \/ Flush(j) \/ JobDies(j)
  PROVE  WaitInv'
<1>1. PICK r :
        /\ job' = [job EXCEPT ![j] = r]
        /\ r.seen = job[j].seen \/ r = NoJob
  <2>1. job[j] \in JobRecord
    BY DEF Inv, TypeOK
  <2> QED
    BY <2>1 DEF Deliver, Flush, JobDies, JobRecord
<1>2. UNCHANGED <<row, failure>>
  BY DEF Deliver, Flush, JobDies
<1>3. \A m \in Messages : NoJob.seen[m].status = "absent"
  BY DEF NoJob, NoRow
<1> QED
  BY <1>1, <1>2, <1>3, JobOnlyWait DEF WaitInv, ReadDue

\* The commit of a batch: what is not ended by it keeps or gets a time.
LEMMA CommitWait ==
  ASSUME Inv, WaitInv, NEW j \in Jobs, Commit(j)
  PROVE  WaitInv'
<1>1. \A k \in Jobs : job'[k] = IF k = j THEN NoJob ELSE job[k]
  BY DEF Commit, Inv, TypeOK
<1>2. ReadDue'
  BY <1>1 DEF WaitInv, ReadDue, OnFailures, NoJob, NoRow
<1>3. ASSUME NEW m \in Messages
      PROVE  row'[m].status \in {"pending", "retry"} => row'[m].next # "none"
  <2> DEFINE seen == job[j].seen[m]
             new == Delivered(seen.attempts + 1, job[j].outcome[m])
  <2>1. CASE ~OnFailures(j) /\ m \in Flushed(j)
    <3>1. row'[m] = WrittenOver(row[m], seen, new)
      BY <2>1 DEF Commit
    <3>2. /\ row[m] \in OutboxRow /\ seen \in OutboxRow
          /\ seen.status \in {"absent", "pending", "retry"}
          /\ row[m].status \in {"pending", "retry"} => row[m].next # "none"
      BY <2>1 DEF Inv, TypeOK, JobRecord, WaitInv, RowsWait, ReadDue
    <3>3. new \in OutboxRow /\ (new.next # "none" \/ new.status \in {"sent", "dead"})
      BY <3>2 DEF Delivered, OutboxRow
    <3> HIDE DEF seen, new
    <3> QED
      BY <3>1, <3>2, <3>3, OverwrittenWait
  <2>2. CASE ~(~OnFailures(j) /\ m \in Flushed(j))
    BY <2>2 DEF Commit, WaitInv, RowsWait
  <2> QED
    BY <2>1, <2>2
<1>4. ASSUME NEW m \in Messages
      PROVE  failure'[m].status = "pending" => failure'[m].next # "none"
  <2>1. CASE OnFailures(j) /\ m \in Flushed(j)
    <3>1. failure'[m] = Retried(job[j].seen[m].attempts + 1, job[j].outcome[m])
      BY <2>1 DEF Commit
    <3> QED
      BY <3>1 DEF Retried
  <2>2. CASE ~(OnFailures(j) /\ m \in Flushed(j))
    BY <2>2 DEF Commit, WaitInv, FailuresWait
  <2> QED
    BY <2>1, <2>2
<1> QED
  BY <1>2, <1>3, <1>4 DEF WaitInv, RowsWait, FailuresWait

LEMMA StepWait ==
  ASSUME Inv, WaitInv, NoAutoReplay, [Next]_vars
  PROVE  WaitInv'
<1>1. ASSUME NEW j \in Jobs, Begin(j) \/ Deliver(j) \/ Flush(j) \/ Commit(j) \/ JobDies(j)
      PROVE  WaitInv'
  BY <1>1, BeginWait, JobGoesOnWait, CommitWait
<1>2. CASE UNCHANGED vars
  BY <1>2 DEF vars, WaitInv, RowsWait, FailuresWait, ReadDue, OnFailures
<1> QED
  BY <1>1, <1>2, MessageStepWait, AdminStepWait DEF Next

\* With the automatic replay off, overlapping delivery runs, the email-dlq job,
\* requests that send their own message and admins' replays leave no message
\* without the time at which the delivery job finds it.
THEOREM NobodyIsStranded == Spec => []NothingStranded
<1>1. WaitInv => NothingStranded
  BY DEF WaitInv, RowsWait, FailuresWait, NothingStranded
<1>2. Init => (NoAutoReplay => WaitInv)
  BY InitWait
<1>3. Inv /\ (NoAutoReplay => WaitInv) /\ [Next]_vars => (NoAutoReplay => WaitInv)'
  BY StepWait DEF NoAutoReplay
<1>4. (NoAutoReplay => WaitInv) => NothingStranded
  BY <1>1 DEF NoAutoReplay, NothingStranded
<1> QED
  BY Invariance, <1>2, <1>3, <1>4, PTL DEF Spec
=============================================================================
